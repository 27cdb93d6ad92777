----------------------------- MODULE VolumeState -----------------------------
(***************************************************************************)
(* A disk or partition that is formatted, whose LUKS keys are changed, and *)
(* that is erased at last: the device, its LUKS header and the file that a *)
(* header is kept in, the mapper, the mountpoint and the record of its     *)
(* name, and what the rest of the machine does to them.                    *)
(***************************************************************************)
EXTENDS Naturals, Sequences, FiniteSets

CONSTANTS
    Phrases,     \* passphrases, all known to the user
    Keyslots,    \* keyslots of a header
    MaxVolumes,  \* bound on how often a volume is encrypted anew
    Drives,      \* what the hardware can do
    NoHeader,
    NoPhrase,    \* none has been entered
    MaxEvents    \* bound on what others do

Volumes == 1 .. MaxVolumes
Plain == 0   \* neither encrypted, nor a mapper

\* What opens a keyslot; a phrase may open several.
Slots == [Keyslots -> Phrases \cup {NoPhrase}]
Headers == [vol : Volumes, slots : Slots]

Methods == {"sanitize crypto", "sanitize block", "format crypto", "format block", "ata sanitize",
            "ata erase", "secure discard", "discard", "zero"}

ASSUME VolumeConstants ==
    /\ MaxVolumes \in Nat /\ MaxEvents \in Nat
    /\ NoHeader \notin Headers /\ NoPhrase \notin Phrases
    /\ Drives \subseteq [type : {"disk", "part"}, nvme : BOOLEAN, rotational : BOOLEAN,
                         can : SUBSET Methods]

VARIABLES
    drive,      \* the hardware
    readable,   \* what was stored on the device can be read from it
    payload,    \* the volume that it is encrypted as, or Plain
    header,     \* LUKS header on the device
    file,       \* the header file of this name
    mapper,     \* the volume that is open under this name
    mounted,    \* what is at the mountpoint
    elsewhere,  \* others have mounted the volume somewhere else
    record,     \* what the map has for the name
    sanitize,   \* what the drive says of its last sanitize
    password,   \* the drive has the temporary password
    events,
    pc,         \* next step of the command in progress
    phrase,     \* the passphrase that the command has been given
    stuck,      \* history: what the command could not undo, or others keep in use
    gaveUp,     \* history: the user agreed to lose the stored data
    outcome     \* history: how the last command ended

medium == <<readable, payload, header>>
use == <<mapper, mounted, elsewhere>>
device == <<drive, medium, use, sanitize, password>>
world == <<device, file, record>>
history == <<stuck, gaveUp, outcome>>

VolumeTypeOK ==
    /\ drive \in Drives
    /\ readable \in BOOLEAN /\ gaveUp \in BOOLEAN /\ password \in BOOLEAN /\ elsewhere \in BOOLEAN
    /\ {payload, mapper} \subseteq {Plain} \cup Volumes
    /\ {header, file} \subseteq Headers \cup {NoHeader}
    /\ mounted \in {"none", "own", "other"}
    /\ record \in {"none", "own", "other"}
    /\ sanitize \in {"never", "running", "done", "failed"}
    /\ events \in 0 .. MaxEvents
    /\ phrase \in Phrases \cup {NoPhrase}
    /\ stuck \subseteq {"mapper", "mount", "record", "password"}

\* A device with a filesystem on it.
VolumeInit ==
    /\ drive \in Drives
    /\ readable = TRUE
    /\ payload = Plain /\ header = NoHeader /\ file = NoHeader
    /\ mapper = Plain /\ mounted = "none" /\ elsewhere = FALSE
    /\ record \in {"none", "own"}
    /\ sanitize = "never" /\ password = FALSE
    /\ events = 0
    /\ pc = "idle" /\ phrase = NoPhrase
    /\ stuck = {} /\ gaveUp = FALSE /\ outcome = "none"

\* The header that a command on the volume's keys works on.
Where == IF header # NoHeader THEN "disk" ELSE "file"
HeaderAt(w) == IF w = "disk" THEN header ELSE file
Opens(h, p) == h # NoHeader /\ \E s \in Keyslots : h.slots[s] = p
Openable == \E h \in {header, file}, p \in Phrases : Opens(h, p) /\ h.vol = payload

Free(h) == {s \in Keyslots : h.slots[s] = NoPhrase}
Used(h) == Keyslots \ Free(h)

\* What the guard of destructive commands lets pass: nothing of the device is
\* mounted or open.  (Guard has the rest of it.)
Idle == mapper = Plain /\ mounted # "own" /\ ~elsewhere

StartCommand == pc = "idle" /\ outcome' = "none"

EndCommand(how) ==
    /\ pc' = "idle" /\ outcome' = how
    /\ phrase' = NoPhrase

-----------------------------------------------------------------------------
(***************************************************************************)
(* The rest of the machine.                                                *)
(***************************************************************************)
Event ==
    /\ events < MaxEvents /\ events' = events + 1
    /\ outcome' = IF pc = "idle" THEN "none" ELSE outcome
    /\ UNCHANGED <<drive, readable, payload, mapper, sanitize, password, pc, phrase, gaveUp>>

\* What others have in hand, no cleanup can undo.
Held(what) == stuck' = IF pc = "idle" THEN stuck ELSE stuck \cup what

\* The automounter takes the filesystem.
OthersMount ==
    /\ Event
    /\ readable /\ (payload # Plain => mapper = payload)
    /\ \/ mounted = "none" /\ mounted' = "own" /\ UNCHANGED elsewhere
       \/ elsewhere' = TRUE /\ UNCHANGED mounted
    /\ Held({"mapper", "mount"})
    /\ UNCHANGED <<header, file, record>>

OthersMountTheirs ==
    /\ Event
    /\ mounted = "none" /\ mounted' = "other"
    /\ UNCHANGED <<header, file, elsewhere, record, stuck>>

OthersUnmount ==
    /\ Event
    /\ \/ mounted # "none" /\ mounted' = "none" /\ UNCHANGED elsewhere
       \/ elsewhere /\ elsewhere' = FALSE /\ UNCHANGED mounted
    /\ UNCHANGED <<header, file, record, stuck>>

\* Another diskmgr changes the map.
OthersRecord ==
    /\ Event
    /\ record' \in {"none", "own", "other"} \ {record}
    /\ Held({"record"})
    /\ UNCHANGED <<header, file, mounted, elsewhere>>

\* Another session changes the passphrase; cryptsetup keeps the last slot.
OthersAddKey ==
    /\ Event
    /\ header # NoHeader
    /\ \E s \in Free(header), p \in Phrases : header' = [header EXCEPT !.slots[s] = p]
    /\ UNCHANGED <<file, mounted, elsewhere, record, stuck>>

OthersRemoveKey ==
    /\ Event
    /\ header # NoHeader
    /\ \E s \in Used(header) :
         Used(header) # {s} /\ header' = [header EXCEPT !.slots[s] = NoPhrase]
    /\ UNCHANGED <<file, mounted, elsewhere, record, stuck>>

OthersAct ==
    \/ OthersMount \/ OthersMountTheirs \/ OthersUnmount \/ OthersRecord
    \/ OthersAddKey \/ OthersRemoveKey

\* The user closes the volume, with the command that Closing has.
CloseVolume ==
    /\ pc = "idle" /\ ~Idle
    /\ mapper' = Plain /\ elsewhere' = FALSE
    /\ mounted' = IF mounted = "own" THEN "none" ELSE mounted
    /\ outcome' = "none"
    /\ UNCHANGED <<drive, medium, sanitize, password, file, record, events, pc, phrase, stuck, gaveUp>>

\* The drive sanitizes on its own, and says how it went.
DriveSanitizes ==
    /\ sanitize = "running"
    /\ \/ sanitize' = "done" /\ readable' = FALSE /\ payload' = Plain /\ header' = NoHeader
       \/ sanitize' = "failed" /\ UNCHANGED medium
    /\ UNCHANGED <<drive, use, password, file, record, events, pc, phrase, history>>
=============================================================================
