SPECIFICATION FairSpec

CONSTANTS
    m = m
    u = u
    Nodes = {"sda", "sdb"}
    Places = {"whole", "p1", "p2"}
    Whole = "whole"
    Layouts <- SomeLayouts
    MapperNames = {m, u}
    Name = m
    Stick = Stick
    Mountpoints = {"home", "label", "fstab"}
    Home = "home"
    LabelDir = "label"
    FstabDir = "fstab"
    MaxEvents = 2
    Absent = Absent
    Closed = Closed
    NoMount = NoMount
    Rounds = 2
    MaxTries = 2

INVARIANTS
    TypeOK
    OpenedLive
    OnePlace

PROPERTIES
    ForeignMountsKept
    
    KillsHolder
    DetachesIdle
    CommandsEnd
