------------------------------- MODULE Relabel -------------------------------
(***************************************************************************)
(* label <name> <new> [--fstab] and remount <name> on an open disk, while  *)
(* others mount, unmount, lock the disk and edit /etc/fstab.               *)
(*                                                                         *)
(* remount moves the line of the disk in fstab to /mnt/<label>, unmounts   *)
(* the disk and mounts it there.  label writes the label (of XFS, between  *)
(* an unmount and a mount), removes lines of the old label from fstab, and *)
(* adds one for the new.                                                   *)
(***************************************************************************)
EXTENDS Fstab

CONSTANTS
    Starts,      \* filesystem, labels, fstab and mounts of the disk at first
    NoMount,
    MaxEvents    \* bound on what others do

ASSUME RelabelConstants ==
    /\ Starts \subseteq [fs : {"ext4", "xfs", "other"}, labels : [Devs -> Labels \cup {NoLabel}],
                         fstab : Seq(Lines), mounts : [Spots -> Devs \cup {NoMount}]]
    /\ NoMount \notin Devs /\ NoMount \notin Spots
    /\ MaxEvents \in Nat

VARIABLES
    fs,         \* kind of the filesystem of the disk
    labels,     \* device -> its label
    fstab,      \* the file
    mounts,     \* mountpoint -> what is mounted there
    full,       \* mountpoints whose directory holds files of its own
    open,       \* the disk is there and unlocked
    events,     \* what others have done so far
    edited,     \* others have edited fstab since the command read it first
    disturbed,  \* others have mounted, unmounted or locked since it began
    pc,         \* next step of the command in progress
    new,        \* label: the label asked for
    add,        \* label: --fstab
    old,        \* label: the label found
    updated,    \* label: fstab has been brought up to date
    lines,      \* the file as the command has read it
    entry,      \* number of the line found for the disk
    found,      \* that line
    spot,       \* the mountpoint chosen
    viaFstab,   \* mount is left to fstab
    todo,       \* mountpoints still to be unmounted
    again,      \* label: the disk is to be mounted again
    was,        \* history: the disk was mounted when the command began
    outcome     \* history: how the last command ended

world == <<fs, labels, fstab, mounts, full, open, events, edited, disturbed>>
locals == <<new, add, old, updated, lines, entry, found, spot, viaFstab, todo, again>>
history == <<was, outcome>>
vars == <<world, pc, locals, history>>

Targets == {q \in Spots : mounts[q] = Disk}
SomeSpot == CHOOSE q \in Spots : TRUE
SomeLabel == CHOOSE l \in Labels : TRUE
NoLine == Line(ByUuid(Disk), SomeSpot, NoLabel)

LabelPCs == {"info", "write", "list", "umount", "admin", "read", "replace", "select", "labelled"}
RemountPCs == {"find", "reread", "move", "check", "targets", "extras", "clear", "dir", "remounted"}

TypeOK ==
    /\ fs \in {"ext4", "xfs", "other"}
    /\ labels \in [Devs -> Labels \cup {NoLabel}]
    /\ fstab \in Seq(Lines) /\ lines \in Seq(Lines)
    /\ mounts \in [Spots -> Devs \cup {NoMount}]
    /\ full \subseteq Spots
    /\ open \in BOOLEAN /\ edited \in BOOLEAN /\ disturbed \in BOOLEAN
    /\ events \in 0 .. MaxEvents
    /\ pc \in {"idle", "mount"} \cup LabelPCs \cup RemountPCs
    /\ new \in Labels /\ old \in Labels \cup {NoLabel}
    /\ entry \in Nat /\ found \in Lines
    /\ spot \in Spots \cup {NoMount}
    /\ todo \subseteq Spots
    /\ add \in BOOLEAN /\ updated \in BOOLEAN /\ viaFstab \in BOOLEAN
    /\ again \in BOOLEAN /\ was \in BOOLEAN
    /\ outcome \in {"none", "done", "refused", "full", "failed"}

Init ==
    /\ \E s \in Starts : fs = s.fs /\ labels = s.labels /\ fstab = s.fstab /\ mounts = s.mounts
    /\ full = {} /\ open = TRUE
    /\ events = 0 /\ edited = FALSE /\ disturbed = FALSE
    /\ pc = "idle"
    /\ new = SomeLabel /\ add = FALSE /\ old = NoLabel /\ updated = FALSE
    /\ lines = <<>> /\ entry = 0 /\ found = NoLine /\ spot = NoMount
    /\ viaFstab = FALSE /\ todo = {} /\ again = FALSE
    /\ was = FALSE /\ outcome = "none"

End(how) ==
    /\ pc' = "idle" /\ outcome' = how
    /\ new' = SomeLabel /\ add' = FALSE /\ old' = NoLabel /\ updated' = FALSE
    /\ lines' = <<>> /\ entry' = 0 /\ found' = NoLine /\ spot' = NoMount
    /\ viaFstab' = FALSE /\ todo' = {} /\ again' = FALSE
    /\ was' = FALSE

Begin ==
    /\ pc = "idle" /\ open
    /\ edited' = FALSE /\ disturbed' = FALSE
    /\ was' = (Targets # {}) /\ outcome' = "none"
    /\ UNCHANGED <<fs, labels, fstab, mounts, full, open, events>>

\* Neither command takes a disk that is gone or locked.
NotOpen ==
    /\ pc = "idle" /\ ~open
    /\ outcome' = "refused" /\ was' = FALSE
    /\ UNCHANGED <<world, pc, locals>>

\* A program fails, or the disk is gone: the command gives up.
Fail(steps) == pc \in steps /\ End("failed") /\ UNCHANGED world

-----------------------------------------------------------------------------
(***************************************************************************)
(* label                                                                   *)
(***************************************************************************)
LabelStart ==
    /\ Begin
    /\ pc' = "info"
    /\ new' \in Labels /\ add' \in BOOLEAN
    /\ UNCHANGED <<old, updated, lines, entry, found, spot, viaFstab, todo, again>>

\* lsblk tells label and one mountpoint; the label may be right already.
Inspect ==
    /\ pc = "info" /\ open
    /\ old' = labels[Disk]
    /\ spot' \in IF Targets = {} THEN {NoMount} ELSE Targets
    /\ \/ /\ labels[Disk] = new
          /\ pc' = IF add THEN "read" ELSE "labelled"
       \/ labels[Disk] # new /\ fs = "ext4" /\ pc' = "write"
       \/ labels[Disk] # new /\ fs = "xfs" /\ pc' = "list"
    /\ UNCHANGED <<world, new, add, updated, lines, entry, found, viaFstab, todo, again, history>>

Unsupported ==
    /\ pc = "info" /\ labels[Disk] # new /\ fs = "other"
    /\ End("refused")
    /\ UNCHANGED world

\* e2label on a mounted filesystem, or xfs_admin on one that is not.
WriteLabel ==
    /\ pc \in {"write", "admin"} /\ open
    /\ pc = "admin" => Targets = {}
    /\ labels' = [labels EXCEPT ![Disk] = new]
    /\ \/ pc' = "read" /\ UNCHANGED <<locals, history>>
       \/ End("failed")       \* udevadm fails after the label is written
    /\ UNCHANGED <<fs, fstab, mounts, full, open, events, edited, disturbed>>

ListForLabel ==
    /\ pc = "list"
    /\ todo' = Targets
    /\ again' = (Targets # {})
    /\ spot' \in IF spot # NoMount \/ Targets = {} THEN {spot} ELSE Targets
    /\ pc' = "umount"
    /\ UNCHANGED <<world, new, add, old, updated, lines, entry, found, viaFstab, history>>

ReadForLabel ==
    /\ pc = "read"
    /\ lines' = fstab
    /\ edited' = FALSE
    /\ pc' = "replace"
    /\ UNCHANGED <<fs, labels, fstab, mounts, full, open, events, disturbed, new, add, old, updated,
                   entry, found, spot, viaFstab, todo, again, history>>

AfterFstab == IF again THEN "select" ELSE "labelled"

ReplaceForLabel ==
    /\ pc = "replace"
    /\ LET f == Relabelled(lines, old, new, add)
       IN  fstab' = IF ~add /\ f = lines THEN fstab ELSE f   \* no line removed or added
    /\ updated' = TRUE
    /\ pc' = AfterFstab
    /\ UNCHANGED <<fs, labels, mounts, full, open, events, edited, disturbed, new, add, old,
                   lines, entry, found, spot, viaFstab, todo, again, history>>

\* Mutant: a failure to edit fstab skips the mount.
FstabFailsForGood ==
    /\ pc \in {"read", "replace"}
    /\ pc' = "labelled"
    /\ UNCHANGED <<world, locals, history>>

\* fstab cannot be read or written: that is only reported.
FstabFails ==
    /\ pc \in {"read", "replace"}
    /\ pc' = AfterFstab
    /\ UNCHANGED <<world, locals, history>>

\* Where to mount it again: where fstab says, or where it was.
SelectForLabel ==
    /\ pc = "select"
    /\ \E link \in Devs :
         LET i == EntryOf(fstab, labels, link)
         IN  /\ viaFstab' = (i # 0)
             /\ spot' = IF i # 0 THEN fstab[i].spot ELSE spot
    /\ pc' = "mount"
    /\ UNCHANGED <<world, new, add, old, updated, lines, entry, found, todo, again, history>>

Labelled == pc = "labelled" /\ End("done") /\ UNCHANGED world

-----------------------------------------------------------------------------
(***************************************************************************)
(* remount                                                                 *)
(***************************************************************************)
RemountStart == Begin /\ pc' = "find" /\ UNCHANGED locals

Find ==
    /\ pc = "find" /\ open
    /\ edited' = FALSE
    /\ \E link \in Devs :
         LET i == EntryOf(fstab, labels, link)
             l == labels[Disk]
         IN  /\ i # 0 \/ l # NoLabel
             /\ viaFstab' = (i # 0)
             /\ entry' = i
             /\ found' = IF i # 0 THEN fstab[i] ELSE found
             /\ spot' = IF i = 0 THEN Media(l) ELSE IF l = NoLabel THEN fstab[i].spot ELSE Mnt(l)
             /\ pc' = IF i # 0 /\ l # NoLabel /\ (fstab[i].spot # Mnt(l) \/ fstab[i].opts # l)
                      THEN "reread" ELSE "check"
    /\ UNCHANGED <<fs, labels, fstab, mounts, full, open, events, disturbed,
                   new, add, old, updated, lines, todo, again, history>>

NoPlaceFor ==
    /\ pc = "find" /\ labels[Disk] = NoLabel
    /\ \E link \in Devs : EntryOf(fstab, labels, link) = 0
    /\ End("refused")
    /\ UNCHANGED world

Reread ==
    /\ pc = "reread"
    /\ \/ /\ entry <= Len(fstab)
          /\ lines' = fstab /\ pc' = "move"
          /\ UNCHANGED <<new, add, old, updated, entry, found, spot, viaFstab, todo, again, history>>
       \/ entry > Len(fstab) /\ End("refused")
    /\ UNCHANGED world

MoveEntry ==
    /\ pc = "move"
    /\ fstab' = Moved(lines, entry, found, spot, labels[Disk])
    /\ pc' = "check"
    /\ UNCHANGED <<fs, labels, mounts, full, open, events, edited, disturbed, locals, history>>

CheckSpot ==
    /\ pc = "check"
    /\ \/ /\ mounts[spot] \in {Disk, NoMount} /\ pc' = "targets"
          /\ UNCHANGED <<locals, history>>
       \/ mounts[spot] \notin {Disk, NoMount} /\ End("refused")
    /\ UNCHANGED world

ListForRemount ==
    /\ pc = "targets"
    /\ todo' = Targets \ {spot}
    /\ pc' = IF Targets = {spot} THEN "remounted" ELSE IF spot \in Targets THEN "extras" ELSE "clear"
    /\ UNCHANGED <<world, new, add, old, updated, lines, entry, found, spot, viaFstab, again, history>>

\* A directory of that name with something in it is not mounted over.
CheckDirectory ==
    /\ pc = "dir"
    /\ \/ /\ spot \notin full \/ mounts[spot] # NoMount
          /\ pc' = "mount"
          /\ UNCHANGED <<locals, history>>
       \/ spot \in full /\ mounts[spot] = NoMount /\ End("full")
    /\ UNCHANGED world

Remounted == pc = "remounted" /\ End("done") /\ UNCHANGED world

-----------------------------------------------------------------------------
(***************************************************************************)
(* Both                                                                    *)
(***************************************************************************)
\* umount has not been told the device: it takes what is mounted there now.
Unmount ==
    /\ pc \in {"umount", "extras", "clear"}
    /\ \E q \in todo :
         /\ mounts[q] # NoMount
         /\ mounts' = [mounts EXCEPT ![q] = NoMount]
         /\ todo' = todo \ {q}
    /\ UNCHANGED <<fs, labels, fstab, full, open, events, edited, disturbed, pc, new, add, old, updated,
                   lines, entry, found, spot, viaFstab, again, history>>

AllUnmounted ==
    /\ pc \in {"umount", "extras", "clear"} /\ todo = {}
    /\ pc' = CASE pc = "umount" -> "admin" [] pc = "extras" -> "remounted" [] pc = "clear" -> "dir"
    /\ UNCHANGED <<world, locals, history>>

\* mount <mountpoint> takes a line of fstab with that mountpoint.
MountSources ==
    IF viaFstab THEN UNION {Leads(fstab[i].spec, labels) : i \in {i \in DOMAIN fstab : fstab[i].spot = spot}}
    ELSE {Disk}

\* _mount_device, which mounts over nothing that is mounted.
Mount ==
    /\ pc = "mount" /\ mounts[spot] = NoMount
    /\ \E d \in MountSources :
         /\ d = Disk => open
         /\ mounts' = [mounts EXCEPT ![spot] = d]
    /\ pc' = IF again THEN "labelled" ELSE "remounted"
    /\ UNCHANGED <<fs, labels, fstab, full, open, events, edited, disturbed, locals, history>>

GiveUp == Fail({"info", "write", "umount", "admin", "find", "reread", "move", "clear", "dir", "extras", "mount"})

CommandStep ==
    \/ Inspect \/ Unsupported \/ WriteLabel \/ ListForLabel \/ ReadForLabel \/ ReplaceForLabel
    \/ FstabFails \/ SelectForLabel \/ Labelled
    \/ Find \/ NoPlaceFor \/ Reread \/ MoveEntry \/ CheckSpot \/ ListForRemount
    \/ CheckDirectory \/ Remounted
    \/ Unmount \/ AllUnmounted \/ Mount \/ GiveUp

-----------------------------------------------------------------------------
(***************************************************************************)
(* Others                                                                  *)
(***************************************************************************)
Event == events < MaxEvents /\ events' = events + 1 /\ UNCHANGED <<fs, labels, pc, locals, history>>

\* An editor replaces fstab: a line more in front, or the first one less.
EditFstab ==
    /\ Event
    /\ \/ \E l \in Labels : fstab' = <<Line(ByUuid(Stick), Mnt(l), NoLabel)>> \o fstab
       \/ fstab # <<>> /\ fstab' = Tail(fstab)
    /\ edited' = TRUE
    /\ UNCHANGED <<mounts, full, open, disturbed>>

\* The automounter, at a place named after the label; or mount <mountpoint>.
OthersMount ==
    /\ Event
    /\ \E q \in Spots, d \in Devs :
         /\ q = Media(labels[d]) \/ \E i \in DOMAIN fstab : fstab[i].spot = q /\ d \in Leads(fstab[i].spec, labels)
         /\ mounts[q] = NoMount /\ (d = Disk => open)
         /\ mounts' = [mounts EXCEPT ![q] = d]
    /\ disturbed' = TRUE
    /\ UNCHANGED <<fstab, full, open, edited>>

OthersUnmount ==
    /\ Event
    /\ \E q \in Spots : mounts[q] # NoMount /\ mounts' = [mounts EXCEPT ![q] = NoMount]
    /\ disturbed' = TRUE
    /\ UNCHANGED <<fstab, full, open, edited>>

OthersLock ==
    /\ Event
    /\ open' = ~open
    /\ open => Targets = {}
    /\ disturbed' = TRUE
    /\ UNCHANGED <<fstab, mounts, full, edited>>

\* Somebody leaves files in one of the directories.
LeaveFiles ==
    /\ Event
    /\ full = {}
    /\ \E q \in Spots : mounts[q] = NoMount /\ full' = {q}
    /\ UNCHANGED <<fstab, mounts, open, edited, disturbed>>

Others == EditFstab \/ OthersMount \/ OthersUnmount \/ OthersLock \/ LeaveFiles

Next == LabelStart \/ RemountStart \/ NotOpen \/ CommandStep \/ Others

Spec == Init /\ [][Next]_vars

-----------------------------------------------------------------------------
\* What a command edits out of fstab, besides lines with the UUID of the disk:
\* remount the one line that names the disk by its label, which it rewrites;
\* label those of the old label, by LABEL= or by their mountpoint, and, with
\* --fstab, those of the new.  No other line is lost, but for those edited since
\* the command read the file.  (A line LABEL= of the old or the new label goes
\* wherever it mounts, and also if it is another filesystem that has the label.)
Foreign(l) == l.spec # ByUuid(Disk)

Loses(l) ==
    /\ Foreign(l) /\ \E i \in DOMAIN fstab : fstab[i] = l
    /\ \A j \in DOMAIN fstab' : fstab'[j] # l

OfOld(l) == l.spec = ByLabel(old) \/ l.spot \in {Media(old), Mnt(old)}
OfNew(l) == l.spec = ByLabel(new) \/ l.spot = Mnt(new)

ForeignLinesKept ==
    [][\A l \in Lines :
         pc \in LabelPCs \cup RemountPCs /\ ~edited' /\ Loses(l) =>
             \/ pc = "move" /\ l.spec = ByLabel(labels[Disk])
             \/ pc = "replace" /\ (OfOld(l) \/ (add /\ OfNew(l)))]_vars

\* mount <mountpoint> can mean the disk only: no line of another filesystem,
\* nor of a label that it has too, is for the same mountpoint.
Uncontested(q) == \A i \in DOMAIN fstab : fstab[i].spot = q => Leads(fstab[i].spec, labels) = {Disk}

\* A disk that was mounted when label or remount began is mounted when the
\* command has ended, unless a program failed, others mounted, unmounted or
\* locked, or edited fstab meanwhile, the directory to mount it on is not
\* empty, or fstab has another filesystem for that mountpoint.
MountKept ==
    [][pc # "idle" /\ outcome' \in {"done", "refused"} /\ was /\ ~disturbed' /\ ~edited' /\ Uncontested(spot) =>
         Targets' # {}]_vars

\* When remount has succeeded, the disk is mounted where fstab will mount it
\* after a reboot.
FstabAgrees ==
    pc = "remounted" /\ viaFstab /\ labels[Disk] # NoLabel /\ ~edited /\ ~disturbed /\ Uncontested(spot) =>
        /\ mounts[spot] = Disk
        /\ \E i \in DOMAIN fstab :
             fstab[i].spot = spot /\ fstab[i].spec \in {ByUuid(Disk), ByLabel(labels[Disk])}

\* When label --fstab has succeeded, fstab has one line for the disk and no
\* other line mounts at its place.
OneLine ==
    pc = "labelled" /\ add /\ updated /\ ~edited =>
        \E i \in DOMAIN fstab :
            /\ fstab[i] = Line(ByUuid(Disk), Mnt(new), new)
            /\ \A j \in DOMAIN fstab \ {i} :
                 fstab[j].spot # Mnt(new) /\ fstab[j].spec \notin {ByUuid(Disk), ByLabel(new)}
=============================================================================
