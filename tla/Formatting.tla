----------------------------- MODULE Formatting -----------------------------
(***************************************************************************)
(* format after its guard: luksFormat and open, mkfs, the mountpoint, the  *)
(* record, the mount; and the cleanup when one of them fails or the user   *)
(* interrupts.                                                             *)
(***************************************************************************)
EXTENDS VolumeState

VARIABLES
    luks,      \* --luks
    detached,  \* --detached-header
    created,   \* luks_created
    opened,    \* mapper_opened
    placed,    \* mounted_at is set
    written,   \* mapping_written
    previous,  \* mapping_previous
    before     \* history: the record when the command began

flags == <<created, opened, placed, written>>
formatLocals == <<luks, detached, flags, previous, before>>

FormatPCs == {"f_phrase", "f_luks", "f_verify", "f_open", "f_mkfs", "f_place", "f_record", "f_mount",
              "f_chown", "f_umount", "f_close", "f_restore", "f_unlink"}

FormattingTypeOK ==
    /\ {luks, detached, created, opened, placed, written} \subseteq BOOLEAN
    /\ {previous, before} \subseteq {"none", "own", "other"}

FormattingInit ==
    /\ luks = FALSE /\ detached = FALSE
    /\ created = FALSE /\ opened = FALSE /\ placed = FALSE /\ written = FALSE
    /\ previous = "none" /\ before = "none"

EndFormat(how) ==
    /\ EndCommand(how)
    /\ stuck' = stuck \cap {"password"}
    /\ luks' = FALSE /\ detached' = FALSE
    /\ created' = FALSE /\ opened' = FALSE /\ placed' = FALSE /\ written' = FALSE
    /\ previous' = "none" /\ before' = "none"

\* The name is free or of this device; the header file is new; no LUKS header.
FormatStart ==
    /\ StartCommand
    /\ Idle /\ record # "other" /\ header = NoHeader /\ sanitize # "running"
    /\ luks' \in BOOLEAN /\ detached' \in BOOLEAN
    /\ detached' => luks' /\ file = NoHeader
    /\ before' = record /\ previous' = "none"
    /\ created' = FALSE /\ opened' = FALSE /\ placed' = FALSE /\ written' = FALSE
    /\ pc' = IF luks' THEN "f_phrase" ELSE "f_mkfs"
    /\ UNCHANGED <<world, events, phrase, stuck, gaveUp>>

\* passgen twice.
Generate ==
    /\ pc = "f_phrase"
    /\ phrase' \in Phrases
    /\ pc' = "f_luks"
    /\ UNCHANGED <<world, events, history, formatLocals>>

\* A volume that no header, file or device knows yet.
Fresh == {v \in Volumes : v # payload /\ \A h \in {header, file} \ {NoHeader} : h.vol # v}
OneKey(v, s, p) == [vol |-> v, slots |-> [t \in Keyslots |-> IF t = s THEN p ELSE NoPhrase]]
NewHeader == HeaderAt(IF detached THEN "file" ELSE "disk")

\* An interrupt may come when cryptsetup is done and before the flag is set.
LuksFormat ==
    /\ pc = "f_luks"
    /\ \E v \in Fresh, s \in Keyslots :
          IF detached THEN file' = OneKey(v, s, phrase) /\ UNCHANGED medium
          ELSE /\ header' = OneKey(v, s, phrase)
               /\ readable' = FALSE /\ payload' = Plain
               /\ UNCHANGED file
    /\ gaveUp' = TRUE
    /\ created' \in BOOLEAN
    /\ pc' = IF created' THEN "f_verify" ELSE "f_umount"
    /\ UNCHANGED <<drive, use, sanitize, password, record, events, phrase, stuck, outcome,
                   luks, detached, opened, placed, written, previous, before>>

VerifyLuks ==
    /\ pc = "f_verify" /\ NewHeader # NoHeader
    /\ pc' = "f_open"
    /\ UNCHANGED <<world, events, phrase, history, formatLocals>>

OpenMapper ==
    /\ pc = "f_open" /\ mapper = Plain /\ Opens(NewHeader, phrase)
    /\ mapper' = NewHeader.vol
    /\ opened' \in BOOLEAN
    /\ IF opened' THEN pc' = "f_mkfs" /\ UNCHANGED stuck
                  ELSE pc' = "f_umount" /\ stuck' = stuck \cup {"mapper"}
    /\ UNCHANGED <<drive, medium, mounted, elsewhere, sanitize, password, file, record, events,
                   phrase, gaveUp, outcome, luks, detached, created, placed, written, previous, before>>

\* The new filesystem is what there is to lose from now on.
Mkfs ==
    /\ pc = "f_mkfs" /\ ~elsewhere /\ mounted # "own"
    /\ readable' = TRUE /\ payload' = mapper
    /\ gaveUp' = FALSE
    /\ pc' = "f_place"
    /\ UNCHANGED <<drive, header, use, sanitize, password, file, record, events, phrase, stuck,
                   outcome, formatLocals>>

Place ==
    /\ pc = "f_place" /\ mounted # "other"
    /\ pc' = "f_record"
    /\ UNCHANGED <<world, events, phrase, history, formatLocals>>

SaveRecord ==
    /\ pc = "f_record" /\ record # "other"
    /\ previous' = record /\ record' = "own"
    /\ written' \in BOOLEAN /\ placed' = written'
    /\ IF written' THEN pc' = "f_mount" /\ UNCHANGED stuck
                   ELSE pc' = "f_umount" /\ stuck' = stuck \cup {"record"}
    /\ UNCHANGED <<device, file, events, phrase, gaveUp, outcome, luks, detached, created, opened, before>>

\* mount fails where something is mounted already, be it the volume itself.
Mount ==
    /\ pc = "f_mount" /\ mounted = "none"
    /\ mounted' = "own"
    /\ pc' = "f_chown"
    /\ UNCHANGED <<drive, medium, mapper, elsewhere, sanitize, password, file, record, events,
                   phrase, history, formatLocals>>

Chown ==
    /\ pc = "f_chown"
    /\ EndFormat("ended")
    /\ UNCHANGED <<world, events, gaveUp>>

\* Before anything is written the command just returns, or cleans up nothing.
FormatFails ==
    /\ pc \in FormatPCs \ {"f_umount", "f_close", "f_restore", "f_unlink"}
    /\ pc' = "f_umount"
    /\ UNCHANGED <<world, events, phrase, history, formatLocals>>

\* luksFormat or mkfs breaks off, and what was there is gone.
WriteBreaks ==
    /\ pc \in {"f_luks", "f_mkfs"} /\ ~elsewhere /\ mounted # "own"
    /\ readable' = FALSE /\ payload' = Plain
    /\ gaveUp' = TRUE
    /\ pc' = "f_umount"
    /\ UNCHANGED <<drive, header, use, sanitize, password, file, record, events, phrase, stuck,
                   outcome, formatLocals>>

-----------------------------------------------------------------------------
(***************************************************************************)
(* The cleanup.                                                            *)
(***************************************************************************)
\* Whatever is at the mountpoint goes.
CleanUpMount ==
    /\ pc = "f_umount"
    /\ \/ placed /\ mounted # "none" /\ mounted' = "none" /\ UNCHANGED stuck
       \/ ~placed /\ UNCHANGED <<mounted, stuck>>
    /\ pc' = "f_close"
    /\ UNCHANGED <<drive, medium, mapper, elsewhere, sanitize, password, file, record, events,
                   phrase, gaveUp, outcome, formatLocals>>

\* A plausible slip: "mapper will remain open", and all the rest too.
UmountFailsAndEnds ==
    /\ pc = "f_umount" /\ placed
    /\ EndFormat("format failed")
    /\ UNCHANGED <<world, events, gaveUp>>
\* umount fails when nothing is mounted, or when files are open.
UmountFails ==
    /\ pc = "f_umount" /\ placed
    /\ stuck' = IF mounted = "own" THEN stuck \cup {"mount", "mapper"} ELSE stuck
    /\ pc' = "f_close"
    /\ UNCHANGED <<world, events, phrase, gaveUp, outcome, formatLocals>>

CleanUpMapper ==
    /\ pc = "f_close"
    /\ \/ opened /\ mounted # "own" /\ ~elsewhere /\ mapper' = Plain /\ UNCHANGED stuck
       \/ opened /\ (mounted = "own" \/ elsewhere) /\ UNCHANGED <<mapper, stuck>>
       \/ opened /\ stuck' = stuck \cup {"mapper"} /\ UNCHANGED mapper  \* cryptsetup fails
       \/ ~opened /\ UNCHANGED <<mapper, stuck>>
    /\ pc' = "f_restore"
    /\ UNCHANGED <<drive, medium, mounted, elsewhere, sanitize, password, file, record, events,
                   phrase, gaveUp, outcome, formatLocals>>

RestoreRecord ==
    /\ pc = "f_restore"
    /\ \/ written /\ record' = previous /\ UNCHANGED stuck
       \/ written /\ stuck' = stuck \cup {"record"} /\ UNCHANGED record  \* the map is unreadable
       \/ ~written /\ UNCHANGED <<record, stuck>>
    /\ pc' = "f_unlink"
    /\ UNCHANGED <<device, file, events, phrase, gaveUp, outcome, formatLocals>>

\* A header file is kept once luksFormat is known to have written it.
UnlinkHeader ==
    /\ pc = "f_unlink"
    /\ file' \in IF detached /\ ~created THEN {file, NoHeader} ELSE {file}
    /\ EndFormat("format failed")
    /\ UNCHANGED <<device, record, events, gaveUp>>

FormatStep ==
    \/ Generate \/ LuksFormat \/ VerifyLuks \/ OpenMapper \/ Mkfs \/ Place \/ SaveRecord
    \/ Mount \/ Chown \/ FormatFails \/ WriteBreaks
    \/ CleanUpMount \/ UmountFails \/ CleanUpMapper \/ RestoreRecord \/ UnlinkHeader
=============================================================================
