SPECIFICATION Spec

CONSTANTS
    Size = 3
    Numbers = {1, 2}
    Filesystems = {f1, f2}
    Nothing = Nothing
    Starts <- SomeStarts
    MaxOthers = 2

SYMMETRY SymFilesystems

VIEW WithoutStaleKinds

INVARIANTS
    TypeOK
    ErasedStaysCreatable

PROPERTIES
    OnlyAnnouncedLost
