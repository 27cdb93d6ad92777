SPECIFICATION Spec

CONSTANTS
    Labels = {"a", "b"}
    NoLabel = "-"
    Disk = Disk
    Stick = Stick
    NoMount = NoMount
    Starts <- SomeStarts
    MaxEvents = 2

INVARIANTS
    TypeOK
    FstabAgrees
    OneLine

PROPERTIES
    MountKept
    ForeignLinesKept
