SPECIFICATION Spec

CONSTANTS
    sda = sda
    sda1 = sda1
    sdr = sdr
    card1 = card1
    card2 = card2
    stick = stick
    blank = blank
    luks = luks
    Sessions = {s1}
    Nodes <- AllNodes
    DiskOf <- DiskOfNode
    RootDisks = {sdr}
    QueueNodes <- WholeDisks
    Hardware <- Plugs
    IdentityOf <- SelfIdentity
    UnitOf <- UnitOfPlug
    Contents = {blank, luks}
    Blank = blank
    Protected = {luks}
    CanFail = {}
    Killable = {}
    Absent = Absent
    NoSession = NoSession

PROPERTIES
    IdentityRefusedOnlyIfGone
