------------------------------ MODULE MCRelabel ------------------------------
(***************************************************************************)
(* The instance of Relabel that TLC checks: two labels; the disk has one   *)
(* or none and the other filesystem has one or none; fstab names the disk  *)
(* by UUID or by label, in front of or after a line of the other.          *)
(***************************************************************************)
EXTENDS Relabel, TLC

Has(d, s) == (Disk :> d) @@ (Stick :> s)

Nowhere == [q \in Spots |-> NoMount]

SomeStarts ==
    [fs : {"xfs"}, labels : {Has("a", NoLabel)},
     fstab : {<<Line(ByUuid(Stick), Mnt("b"), NoLabel), Line(ByLabel("a"), Media("a"), NoLabel)>>},
     mounts : {[Nowhere EXCEPT ![Media("a")] = Disk]}]
    \cup
    [fs : {"ext4"}, labels : {Has("a", "b")},
     fstab : {<<Line(ByUuid(Disk), Mnt("a"), "a"), Line(ByUuid(Stick), Media("b"), NoLabel)>>},
     mounts : {[Nowhere EXCEPT ![Media("a")] = Disk, ![Media("b")] = Stick]}]
    \cup
    [fs : {"xfs"}, labels : {Has(NoLabel, "b")}, fstab : {<<>>},
     mounts : {[Nowhere EXCEPT ![Mnt("a")] = Disk, ![Media("a")] = Disk]}]
    \cup
    [fs : {"other"}, labels : {Has("a", NoLabel)}, fstab : {<<>>}, mounts : {Nowhere}]
=============================================================================
