------------------------------- MODULE Volume -------------------------------
(***************************************************************************)
(* The life of a volume: format, luks and nuke commands one after the      *)
(* other, with failures and interrupts, while others mount, edit the map   *)
(* and change keys.                                                        *)
(***************************************************************************)
EXTENDS Formatting, LuksKeys, SecureErase

vars == <<world, events, pc, phrase, history, formatLocals, keyLocals, eraseLocals>>

TypeOK ==
    /\ VolumeTypeOK /\ FormattingTypeOK /\ LuksKeysTypeOK /\ SecureEraseTypeOK
    /\ pc \in {"idle"} \cup FormatPCs \cup KeyPCs \cup ErasePCs
    /\ outcome \in {"none", "ended", "format failed", "begun", "nuked", "entropised"}

Init == VolumeInit /\ FormattingInit /\ LuksKeysInit /\ SecureEraseInit

Formatter == (FormatStart \/ FormatStep) /\ UNCHANGED <<keyLocals, eraseLocals>>
Keeper == (KeyCommand \/ KeyStep) /\ UNCHANGED <<formatLocals, eraseLocals>>
Eraser == (EraseCommand \/ EraseStep) /\ UNCHANGED <<formatLocals, keyLocals>>

Others ==
    /\ OthersAct \/ CloseVolume \/ DriveSanitizes
    /\ UNCHANGED <<formatLocals, keyLocals, eraseLocals>>

Next == Formatter \/ Keeper \/ Eraser \/ Others
Spec == Init /\ [][Next]_vars

-----------------------------------------------------------------------------
(* A format that fails leaves no mapper open, nothing mounted and the      *)
(* record as it was, wherever it failed: except what others hold or have   *)
(* changed, what a failed umount, close or update of the map could not     *)
(* undo, and what an interrupt struck before it was noted.                 *)
FormatUndone ==
    [][(pc \in FormatPCs /\ outcome' = "format failed") =>
         /\ mapper = Plain \/ "mapper" \in stuck
         /\ mounted # "own" \/ "mount" \in stuck
         /\ record = before \/ "record" \in stuck]_vars

(* Whatever the user does with the keys of a volume, and wherever it is    *)
(* broken off, a header on the device or in the file opens the data with   *)
(* one of the user's passphrases; unless the user has agreed to lose them  *)
(* by format, nuke or entropise, or by wiping the header, or restoring     *)
(* another, with no good copy of the right one in the file.                *)
KeyKept == readable /\ payload # Plain /\ ~gaveUp => Openable

(* After nuke or entropise has reported success nothing can be read from   *)
(* the device, and the drive has no password of ours but one that it       *)
(* refused to drop or that an interrupted nuke has left.  (An ATA sanitize *)
(* is reported when it has begun; the data go when the drive is done.)     *)
DestroyedIsGone ==
    /\ outcome \in {"nuked", "entropised"} =>
          /\ ~readable /\ payload = Plain /\ header = NoHeader
          /\ password => "password" \in stuck
    /\ outcome = "begun" /\ readable => sanitize \in {"running", "failed"}
=============================================================================
