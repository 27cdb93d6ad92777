SPECIFICATION Spec

CONSTANTS
    Phrases = {p1, p2}
    Keyslots = {s1, s2}
    MaxVolumes = 2
    Drives <- SomeDrives
    NoHeader = NoHeader
    NoPhrase = NoPhrase
    MaxEvents = 2

SYMMETRY Symmetric

INVARIANTS
    TypeOK
    KeyKept
    DestroyedIsGone

PROPERTIES
    FormatUndone
