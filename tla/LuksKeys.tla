------------------------------ MODULE LuksKeys ------------------------------
(***************************************************************************)
(* luks passwd, params, backup, restore and wipe.                          *)
(***************************************************************************)
EXTENDS VolumeState

VARIABLES
    where,   \* the header the command works on: "disk" or "file"
    new      \* passwd: the new passphrase

keyLocals == <<where, new>>

KeyPCs == {"k_add", "k_remove", "k_convert", "k_backup", "k_restore", "k_wipe"}

LuksKeysTypeOK == where \in {"disk", "file"} /\ new \in Phrases \cup {NoPhrase}

LuksKeysInit == where = "disk" /\ new = NoPhrase

EndKeys ==
    /\ EndCommand("ended")
    /\ where' = "disk" /\ new' = NoPhrase

\* A header on the device, or else the file of that name.
KeyStart ==
    /\ StartCommand
    /\ HeaderAt(Where) # NoHeader
    /\ where' = Where
    /\ UNCHANGED <<world, events, stuck, gaveUp>>

\* Both passphrases come from passgen, the new one twice.
PasswdStart ==
    /\ KeyStart
    /\ phrase' \in Phrases /\ new' \in Phrases \ {phrase'}
    /\ pc' = "k_add"

ParamsStart ==
    /\ KeyStart
    /\ phrase' \in Phrases /\ new' = NoPhrase
    /\ pc' = "k_convert"

Write(h) ==
    IF where = "disk" THEN header' = h /\ UNCHANGED file ELSE file' = h /\ UNCHANGED header

\* A plausible slip: the old key is removed first; the last slot then goes too.
RemoveKeyFirst ==
    /\ pc = "k_add" /\ HeaderAt(where) # NoHeader
    /\ \E s \in Keyslots :
         /\ HeaderAt(where).slots[s] = phrase
         /\ Write([HeaderAt(where) EXCEPT !.slots[s] = NoPhrase])
    /\ EndKeys
    /\ UNCHANGED <<drive, readable, payload, use, sanitize, password, record, events, stuck, gaveUp>>
\* cryptsetup opens the header again each time it is called.
AddKey ==
    /\ pc = "k_add"
    /\ Opens(HeaderAt(where), phrase)
    /\ \E s \in Free(HeaderAt(where)) : Write([HeaderAt(where) EXCEPT !.slots[s] = new])
    /\ pc' = "k_remove"
    /\ UNCHANGED <<drive, readable, payload, use, sanitize, password, record, events, phrase,
                   history, keyLocals>>

\* cryptsetup does not remove the last key unasked.
RemoveKey ==
    /\ pc = "k_remove"
    /\ HeaderAt(where) # NoHeader
    /\ \E s \in Keyslots :
         /\ HeaderAt(where).slots[s] = phrase /\ Used(HeaderAt(where)) # {s}
         /\ Write([HeaderAt(where) EXCEPT !.slots[s] = NoPhrase])
    /\ EndKeys
    /\ UNCHANGED <<drive, readable, payload, use, sanitize, password, record, events, stuck, gaveUp>>

\* luksConvertKey writes the key to another slot before it gives up the old one.
ConvertKey ==
    /\ pc = "k_convert"
    /\ Opens(HeaderAt(where), phrase) /\ Free(HeaderAt(where)) # {}
    /\ EndKeys
    /\ UNCHANGED <<world, events, stuck, gaveUp>>

-----------------------------------------------------------------------------
(***************************************************************************)
(* The header as a whole.                                                  *)
(***************************************************************************)
BackupStart ==
    /\ StartCommand
    /\ header # NoHeader
    /\ pc' = "k_backup"
    /\ UNCHANGED <<world, events, phrase, stuck, gaveUp, keyLocals>>

\* cryptsetup overwrites no file.
Backup ==
    /\ pc = "k_backup" /\ header # NoHeader /\ file = NoHeader
    /\ file' = header
    /\ EndKeys
    /\ UNCHANGED <<device, record, events, stuck, gaveUp>>

\* What restore and wipe of a header cannot take away while the other copy is good.
Keeps(h) == h # NoHeader /\ h.vol = payload /\ Used(h) # {}

RestoreStart ==
    /\ StartCommand
    /\ file # NoHeader /\ Idle /\ sanitize # "running"
    /\ pc' = "k_restore"
    /\ UNCHANGED <<world, events, phrase, stuck, gaveUp, keyLocals>>

Restore ==
    /\ pc = "k_restore" /\ file # NoHeader /\ Idle
    /\ header' = file
    /\ gaveUp' = (gaveUp \/ ~Keeps(file))
    /\ EndKeys
    /\ UNCHANGED <<drive, readable, payload, use, sanitize, password, file, record, events, stuck>>

WipeStart ==
    /\ StartCommand
    /\ header # NoHeader /\ Idle /\ sanitize # "running"
    /\ pc' = "k_wipe"
    /\ UNCHANGED <<world, events, phrase, stuck, gaveUp, keyLocals>>

\* dd writes as far as the data begin; it may break off.
Wipe ==
    /\ pc = "k_wipe" /\ header # NoHeader /\ Idle
    /\ header' = NoHeader
    /\ gaveUp' = (gaveUp \/ ~Keeps(file))
    /\ EndKeys
    /\ UNCHANGED <<drive, readable, payload, use, sanitize, password, file, record, events, stuck>>

\* A wrong passphrase, a full header, a program that fails, an interrupt.
KeyFails ==
    /\ pc \in KeyPCs
    /\ EndKeys
    /\ UNCHANGED <<world, events, stuck, gaveUp>>

KeyCommand == PasswdStart \/ ParamsStart \/ BackupStart \/ RestoreStart \/ WipeStart

KeyStep == AddKey \/ RemoveKey \/ ConvertKey \/ Backup \/ Restore \/ Wipe \/ KeyFails
=============================================================================
