CONSTANTS
    a = a
    b = b
    usb1 = usb1
    ata1 = ata1
    wwn2 = wwn2
    sdc = sdc
    dev1 = dev1
    dev2 = dev2
    alice = alice
    p1 = p1
    p2 = p2
    NoName = NoName
    NoTarget = NoTarget
    NoProc = NoProc
    Names <- MCNames
    Links <- MCLinks
    RawNodes <- MCRaw
    Devices <- MCDevices
    DeviceOf <- MCDeviceOf
    Preferred <- MCPreferred
    Migrated <- MCMigrated
    Procs <- MCProcs
    InitialMaps <- MCInitialMaps
    Homes = {alice}
    HomeOf <- OneHome
    MaxCommands = 2

SPECIFICATION Spec

INVARIANT
    OpenSeesNoConflict
