----------------------------- MODULE SecureErase -----------------------------
(***************************************************************************)
(* nuke and entropise after their guard.  nuke tries one method after the  *)
(* other, from the best that the drive has down to overwriting it.         *)
(***************************************************************************)
EXTENDS VolumeState

VARIABLES
    chain,   \* methods still to be tried
    erased   \* ATA: the drive has carried out the erase

eraseLocals == <<chain, erased>>

ErasePCs == {"e_try", "e_poll", "e_erase", "e_disable", "e_random"}

SecureEraseTypeOK == chain \in Seq(Methods) /\ erased \in BOOLEAN
SecureEraseInit == chain = <<>> /\ erased = FALSE

EndErase(how) == EndCommand(how) /\ chain' = <<>> /\ erased' = FALSE

\* A plausible slip: the methods that the help of nuke lists.
HardwareAsDocumented(d) ==
    IF d.type = "part" \/ d.nvme \/ d.rotational THEN <<>> ELSE <<"psid revert", "ata sanitize", "ata erase">>
Hardware(d) ==
    LET If(m) == IF m \in d.can THEN <<m>> ELSE <<>>
    IN  IF d.type = "part" THEN <<>>
        ELSE IF d.nvme THEN If("sanitize crypto") \o If("sanitize block")
                            \o If("format crypto") \o If("format block")
        ELSE If("ata sanitize") \o If("ata erase")

Software(d) ==
    IF d.rotational \/ d.type = "part" THEN <<"zero">>
    ELSE <<"secure discard", IF "discard" \in d.can THEN "discard" ELSE "zero">>

\* If the drive does not tell what it can, its own methods are left out.
NukeStart ==
    /\ StartCommand
    /\ Idle
    /\ chain' \in {Hardware(drive) \o Software(drive), Software(drive)}
    /\ erased' = FALSE
    /\ gaveUp' = TRUE
    /\ pc' = "e_try"
    /\ UNCHANGED <<world, events, phrase, stuck>>

Trying(methods) == pc = "e_try" /\ chain # <<>> /\ Head(chain) \in methods

\* The next method, or no more.
Onward ==
    IF Len(chain) > 1 THEN pc' = "e_try" /\ chain' = Tail(chain) /\ UNCHANGED <<phrase, outcome, erased>>
    ELSE EndErase("ended")

Gone == readable' = FALSE /\ payload' = Plain /\ header' = NoHeader

\* A drive that sanitizes does nothing else.
Willing == sanitize # "running"

Sanitize ==
    /\ Trying({"sanitize crypto", "sanitize block"}) /\ Willing
    /\ sanitize' = "running"
    /\ pc' = "e_poll"
    /\ UNCHANGED <<drive, medium, use, password, file, record, events, phrase, history, eraseLocals>>

PollDone ==
    /\ pc = "e_poll" /\ sanitize = "done"
    /\ EndErase("nuked")
    /\ UNCHANGED <<world, events, stuck, gaveUp>>

\* The status is a failure or cannot be read, or a day is over.
PollGivesUp ==
    /\ pc = "e_poll"
    /\ Onward
    /\ UNCHANGED <<world, events, stuck, gaveUp>>

\* hdparm comes back when the drive has begun.
AtaSanitize ==
    /\ Trying({"ata sanitize"}) /\ Willing
    /\ sanitize' = "running"
    /\ EndErase("begun")
    /\ UNCHANGED <<drive, medium, use, password, file, record, events, stuck, gaveUp>>

\* nvme format, and the two ways of blkdiscard.
EraseAtOnce ==
    /\ Trying({"format crypto", "format block", "secure discard", "discard"} \cap drive.can) /\ Willing
    /\ Gone
    /\ EndErase("nuked")
    /\ UNCHANGED <<drive, use, sanitize, password, file, record, events, stuck, gaveUp>>

\* dd, and the device read again at its beginning, middle and end.
Overwrite ==
    /\ Trying({"zero"}) /\ Willing
    /\ Gone
    /\ EndErase("nuked")
    /\ UNCHANGED <<drive, use, sanitize, password, file, record, events, stuck, gaveUp>>

\* A method fails, with the data still there or half gone.
MethodFails ==
    /\ pc = "e_try"
    /\ readable' \in (IF Willing THEN {readable, FALSE} ELSE {readable})
    /\ Onward
    /\ UNCHANGED <<drive, payload, header, use, sanitize, password, file, record, events, stuck, gaveUp>>

-----------------------------------------------------------------------------
(***************************************************************************)
(* ATA Secure Erase, for which the drive must have a password.             *)
(***************************************************************************)
\* An interrupt may come between the program and the flag.
SetPassword ==
    /\ Trying({"ata erase"}) /\ Willing
    /\ password' = TRUE
    /\ \/ pc' = "e_erase" /\ UNCHANGED <<phrase, outcome, stuck, eraseLocals>>
       \/ EndErase("ended") /\ stuck' = stuck \cup {"password"}
    /\ UNCHANGED <<drive, medium, use, sanitize, file, record, events, gaveUp>>

\* The drive drops the password with the data.
AtaErase ==
    /\ pc = "e_erase"
    /\ password' = FALSE /\ Gone
    /\ erased' = TRUE
    /\ pc' = "e_disable"
    /\ UNCHANGED <<drive, use, sanitize, file, record, events, phrase, history, chain>>

\* A plausible slip: the password is taken back only after an erase.
AtaEraseFailsWithPassword ==
    /\ pc = "e_erase"
    /\ Onward
    /\ UNCHANGED <<world, events, stuck, gaveUp>>
\* The erase fails, or the user interrupts it and nothing more is tried.
AtaEraseFails ==
    /\ pc = "e_erase"
    /\ pc' = "e_disable"
    /\ chain' \in {chain, <<>>}
    /\ UNCHANGED <<world, events, phrase, history, erased>>

\* Nobody looks whether the drive has dropped the password.
Disable ==
    /\ pc = "e_disable"
    /\ \/ password' = FALSE /\ UNCHANGED stuck
       \/ stuck' = (IF password THEN stuck \cup {"password"} ELSE stuck) /\ UNCHANGED password
    /\ IF erased THEN EndErase("nuked") ELSE Onward
    /\ UNCHANGED <<drive, medium, use, sanitize, file, record, events, gaveUp>>

-----------------------------------------------------------------------------
EntropiseStart ==
    /\ StartCommand
    /\ Idle
    /\ gaveUp' = TRUE
    /\ pc' = "e_random"
    /\ UNCHANGED <<world, events, phrase, stuck, eraseLocals>>

Entropise ==
    /\ pc = "e_random" /\ Willing
    /\ Gone
    /\ EndErase("entropised")
    /\ UNCHANGED <<drive, use, sanitize, password, file, record, events, stuck, gaveUp>>

\* No size, dd fails, or the user interrupts; of the password nothing is left behind.
EraseInterrupted ==
    /\ pc \in {"e_try", "e_poll", "e_random"}
    /\ readable' \in (IF Willing THEN {readable, FALSE} ELSE {readable})
    /\ EndErase("ended")
    /\ UNCHANGED <<drive, payload, header, use, sanitize, password, file, record, events, stuck, gaveUp>>

EraseCommand == NukeStart \/ EntropiseStart

EraseStep ==
    \/ Sanitize \/ PollDone \/ PollGivesUp \/ AtaSanitize \/ EraseAtOnce \/ Overwrite \/ MethodFails
    \/ SetPassword \/ AtaErase \/ AtaEraseFails \/ Disable \/ Entropise \/ EraseInterrupted
=============================================================================
