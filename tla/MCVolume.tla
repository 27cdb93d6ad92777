------------------------------ MODULE MCVolume ------------------------------
(***************************************************************************)
(* The instance of Volume that TLC checks: two passphrases, two slots, two *)
(* volumes; an NVMe disk, a SATA SSD, and a partition of a hard disk.       *)
(***************************************************************************)
EXTENDS Volume, TLC

Drive(type, nvme, rotational, can) ==
    [type |-> type, nvme |-> nvme, rotational |-> rotational, can |-> can]

SomeDrives ==
    {Drive("disk", TRUE, FALSE, {"sanitize crypto", "sanitize block", "format block", "discard"}),
     Drive("disk", FALSE, FALSE, {"ata sanitize", "ata erase", "secure discard"}),
     Drive("part", FALSE, TRUE, {"ata erase"})}

Symmetric == Permutations(Phrases) \cup Permutations(Keyslots)
=============================================================================
