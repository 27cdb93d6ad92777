----------------------------- MODULE MCMapStore -----------------------------
(* Two processes, two names, and two devices: one with two by-id links and *)
(* one with a link and a raw node that an old map file may hold.           *)
EXTENDS MapStore

CONSTANTS a, b, usb1, ata1, wwn2, sdc, dev1, dev2, alice, p1, p2

MCNames == {a, b}
MCLinks == {usb1, ata1, wwn2}
MCRaw == {sdc}
MCDevices == {dev1, dev2}
MCDeviceOf == [t \in {usb1, ata1, wwn2, sdc} |-> IF t \in {usb1, ata1} THEN dev1 ELSE dev2]
MCPreferred == [d \in MCDevices |-> IF d = dev1 THEN ata1 ELSE wwn2]
MCMigrated == [d \in MCDevices |-> IF d = dev1 THEN usb1 ELSE wwn2]
MCProcs == {p1, p2}
\* One record; an old file; two names for one device.
MCInitialMaps ==
    {[n \in MCNames |-> IF n = a THEN m[1] ELSE m[2]] :
        m \in {<<usb1, NoTarget>>, <<sdc, ata1>>, <<usb1, ata1>>}}
OneHome == [p \in MCProcs |-> alice]
=============================================================================
