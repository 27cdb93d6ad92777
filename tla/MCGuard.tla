------------------------------ MODULE MCGuard ------------------------------
(***************************************************************************)
(* The instances of Guard that TLC checks: a disk sda with a partition     *)
(* sda1, and the disk sdr below the root filesystem.  What is behind sda   *)
(* may be a card reader with one of two cards of different sizes, or a     *)
(* stick.                                                                  *)
(***************************************************************************)
EXTENDS Guard, TLC

CONSTANTS sda, sda1, sdr, card1, card2, stick, blank, luks

AllNodes == {sda, sda1, sdr}
WholeDisks == {sda, sdr}
DiskOfNode == (sda :> sda) @@ (sda1 :> sda) @@ (sdr :> sdr)

Plugs == {card1, card2, stick}
SelfIdentity == [h \in Plugs |-> h]
UnitOfPlug == [h \in Plugs |-> IF h = stick THEN "stick" ELSE "reader"]
=============================================================================
