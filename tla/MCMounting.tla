------------------------------ MODULE MCMounting ------------------------------
(***************************************************************************)
(* The instance of Mounting that TLC checks: a disk with two partitions,   *)
(* mapped as a disk or as a partition, with LUKS (its header on the disk   *)
(* or only in the backup) or a filesystem on it, and with an entry in      *)
(* fstab or none.                                                          *)
(***************************************************************************)
EXTENDS Mounting, TLC

CONSTANTS m, u

Lay(whole, p1, p2, mapped, header, fstab) ==
    [payload |-> ("whole" :> whole) @@ ("p1" :> p1) @@ ("p2" :> p2),
     mapped |-> mapped, header |-> header, fstab |-> fstab]

SomeLayouts ==
    {Lay("luks", "none", "none", "whole", FALSE, "none"),
     Lay("none", "luks", "fs", "whole", FALSE, "none"),
     Lay("none", "fs", "luks", "p1", FALSE, "own"),
     Lay("none", "headless", "none", "p1", TRUE, "foreign"),
     Lay("none", "luks", "luks", "whole", FALSE, "own")}
=============================================================================
