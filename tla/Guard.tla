------------------------------- MODULE Guard --------------------------------
(***************************************************************************)
(* The guard around every destructive command (erase, nuke, entropise,     *)
(* clone, create, remove, format).  A session resolves a block device and  *)
(* refuses the root disk, takes a preflight (identity, contents, active    *)
(* use, then an exclusive flock on the device), asks its user to type the  *)
(* identity of the device, repeats the three probes (format does so        *)
(* twice), and only then writes.  Nothing of that excludes the rest of the *)
(* machine: between any two steps a device may be unplugged or replaced,   *)
(* and other programs may rewrite or mount it.                             *)
(***************************************************************************)
EXTENDS Naturals, FiniteSets

CONSTANTS
    Sessions,    \* diskmgr processes
    Nodes,       \* block device nodes: whole disks and partitions
    DiskOf,      \* node -> the whole disk it is, or is a partition of
    RootDisks,   \* the disks below the root filesystem
    QueueNodes,  \* nodes with a queue/ directory in /sys/class/block
    Hardware,    \* what may be plugged in as a disk
    IdentityOf,  \* hardware -> the identity fields a snapshot compares
    UnitOf,      \* identity -> the part of it that the user types
    Contents,    \* what wipefs and blkid may report of a disk
    Blank,       \* the content without any signature
    Protected,   \* contents with a partition table or a LUKS header
    CanFail,     \* steps of a session in which a probe may fail or time out
    Killable,    \* sessions that may be killed
    Absent,      \* "nothing is plugged in"
    NoSession    \* "nobody holds the lock"

Disks == {DiskOf[n] : n \in Nodes}
Identities == {IdentityOf[h] : h \in Hardware}
Units == {UnitOf[i] : i \in Identities}

ASSUME GuardConstants ==
    /\ DiskOf \in [Nodes -> Nodes] /\ \A d \in Disks : DiskOf[d] = d
    /\ RootDisks \subseteq Disks
    /\ IdentityOf = [h \in Hardware |-> IdentityOf[h]]
    /\ UnitOf = [i \in Identities |-> UnitOf[i]]
    /\ Nodes # {} /\ Hardware # {}
    /\ Blank \in Contents /\ Protected \subseteq Contents \ {Blank}
    /\ Absent \notin Hardware \cup Identities \cup Units
    /\ NoSession \notin Sessions
    /\ Killable \subseteq Sessions

VARIABLES
    hw,       \* disk -> the hardware behind it
    content,  \* disk -> the signatures on it and its partitions
    active,   \* disk -> it or a partition is mounted, swapped on or held
    lock,     \* node -> the session whose helper holds a flock on it
    orphans,  \* disks that a program of a killed session still writes
    pc,       \* session -> its next step
    round,    \* session -> the preflight it is in: first, second or final
    target,   \* session -> its real_target
    kind,     \* session -> its command, as far as the policy goes
    shown,    \* session -> the preflight shown to its user
    last,     \* session -> the preflight the next one is compared with
    now,      \* session -> the preflight it is taking
    typed,    \* session -> the device that its user confirmed
    fresh     \* session -> what has not changed since it repeated its probe

vars == <<hw, content, active, lock, orphans, pc, round, target, kind, shown,
          last, now, typed, fresh>>

machine == <<hw, content, active>>
locals  == <<target, kind, shown, last, now, typed>>

PCs == {"idle", "identity", "contents", "active", "lock", "review", "confirm",
        "passphrase", "write"}

\* format replaces existing content only with --reformat-existing; the other
\* commands ("raw") take any content.
Kinds == {"raw", "format", "reformat"}

Preflights == [identity : Identities \cup {Absent}, content : Contents, active : BOOLEAN]
NoPreflight == [identity |-> Absent, content |-> Blank, active |-> FALSE]

Aspects == {"identity", "content", "use"}

\* lsblk of a disk lists its partitions, lsblk of a partition only itself.
Tree(n) == {m \in Nodes : m = n \/ DiskOf[m] = n}

Disk(p) == DiskOf[target[p]]

UnitAt(h) == IF h = Absent THEN Absent ELSE UnitOf[IdentityOf[h]]

TypeOK ==
    /\ hw \in [Disks -> Hardware \cup {Absent}]
    /\ content \in [Disks -> Contents]
    /\ active \in [Disks -> BOOLEAN]
    /\ lock \in [Nodes -> Sessions \cup {NoSession}]
    /\ orphans \subseteq Disks
    /\ pc \in [Sessions -> PCs]
    /\ round \in [Sessions -> 1 .. 3]
    /\ target \in [Sessions -> Nodes]
    /\ kind \in [Sessions -> Kinds]
    /\ shown \in [Sessions -> Preflights]
    /\ last \in [Sessions -> Preflights]
    /\ now \in [Sessions -> Preflights]
    /\ typed \in [Sessions -> Units \cup {Absent}]
    /\ fresh \in [Sessions -> SUBSET Aspects]

AnyNode == CHOOSE n \in Nodes : TRUE
AnyHardware == CHOOSE h \in Hardware : TRUE

\* What the root disk is does not matter: nothing of it changes.
Init ==
    /\ hw \in [Disks -> Hardware \cup {Absent}]
    /\ content \in [Disks -> Contents]
    /\ active \in [Disks -> BOOLEAN]
    /\ \A d \in RootDisks :
         hw[d] = AnyHardware /\ content[d] = Blank /\ active[d]
    /\ lock = [n \in Nodes |-> NoSession]
    /\ orphans = {}
    /\ pc = [p \in Sessions |-> "idle"]
    /\ round = [p \in Sessions |-> 1]
    /\ target = [p \in Sessions |-> AnyNode]
    /\ kind = [p \in Sessions |-> "raw"]
    /\ shown = [p \in Sessions |-> NoPreflight]
    /\ last = [p \in Sessions |-> NoPreflight]
    /\ now = [p \in Sessions |-> NoPreflight]
    /\ typed = [p \in Sessions |-> Absent]
    /\ fresh = [p \in Sessions |-> {}]

-----------------------------------------------------------------------------
\* Mutant: the handle of the lock is dropped on the floor.
LocksKept(p) == lock

\* The helper of p, if any, sees its standard input closed and exits.
LocksWithout(p) == [n \in Nodes |-> IF lock[n] = p THEN NoSession ELSE lock[n]]

\* The command of p is over, and with it all it remembered.
End(p) ==
    /\ lock' = LocksWithout(p)
    /\ pc' = [pc EXCEPT ![p] = "idle"]
    /\ round' = [round EXCEPT ![p] = 1]
    /\ target' = [target EXCEPT ![p] = AnyNode]
    /\ kind' = [kind EXCEPT ![p] = "raw"]
    /\ shown' = [shown EXCEPT ![p] = NoPreflight]
    /\ last' = [last EXCEPT ![p] = NoPreflight]
    /\ now' = [now EXCEPT ![p] = NoPreflight]
    /\ typed' = [typed EXCEPT ![p] = Absent]

\* The command of p ends without a write.
Refuse(p) ==
    /\ End(p)
    /\ fresh' = [fresh EXCEPT ![p] = {}]
    /\ UNCHANGED <<machine, orphans>>

Goto(p, next) == pc' = [pc EXCEPT ![p] = next]

\* p has just probed an aspect (only what it probes again counts).
Probed(p, aspect) ==
    fresh' = [fresh EXCEPT ![p] = IF round[p] = 1 THEN {} ELSE @ \cup {aspect}]

\* Aspects of d change.
Touch(d, aspects) ==
    fresh' = [p \in Sessions |-> IF Disk(p) = d THEN fresh[p] \ aspects ELSE fresh[p]]

\* _block_if_root_drive; that a failing probe blocks as well is the choice of
\* Start not to happen.
RefusesRoot(n) == DiskOf[n] \in RootDisks

\* A command resolves its target and passes the root check.  (remove names a
\* partition; its target is the disk of that partition, checked as well.)
Start(p) ==
    /\ pc[p] = "idle"
    /\ \E n \in Nodes :
         /\ hw[DiskOf[n]] # Absent
         /\ ~RefusesRoot(n)
         /\ target' = [target EXCEPT ![p] = n]
    /\ Goto(p, "identity")
    /\ UNCHANGED <<machine, lock, orphans, round, kind, shown, last, now, typed, fresh>>

-----------------------------------------------------------------------------
(***************************************************************************)
(* The preflight (_format_safety_preflight), probe by probe.               *)
(***************************************************************************)
\* Identity cannot be established: the device is gone, or it has no queue
\* attributes to read the sector sizes from.
NoIdentity(p) == hw[Disk(p)] = Absent \/ target[p] \notin QueueNodes

SnapshotIdentity(p) ==
    /\ pc[p] = "identity"
    /\ ~NoIdentity(p)
    /\ now' = [now EXCEPT ![p] = [NoPreflight EXCEPT !.identity = IdentityOf[hw[Disk(p)]]]]
    /\ Goto(p, "contents")
    /\ Probed(p, "identity")
    /\ UNCHANGED <<machine, lock, orphans, round, target, kind, shown, last, typed>>

IdentityRefused(p) == pc[p] = "identity" /\ NoIdentity(p) /\ Refuse(p)

\* The first preflight runs wipefs --lock=nonblock on every node of the tree.
ContentsRefused(p) ==
    /\ pc[p] = "contents"
    /\ \/ hw[Disk(p)] = Absent
       \/ round[p] = 1 /\ \E n \in Tree(target[p]) : lock[n] # NoSession
    /\ Refuse(p)

ProbeContents(p) ==
    /\ pc[p] = "contents"
    /\ hw[Disk(p)] # Absent
    /\ round[p] = 1 => \A n \in Tree(target[p]) : lock[n] = NoSession
    /\ now' = [now EXCEPT ![p].content = content[Disk(p)]]
    /\ Goto(p, "active")
    /\ Probed(p, "content")
    /\ UNCHANGED <<machine, lock, orphans, round, target, kind, shown, last, typed>>

\* The first preflight goes on to the lock.
ProbeActive(p) ==
    /\ pc[p] = "active" /\ round[p] = 1
    /\ now' = [now EXCEPT ![p].active = active[Disk(p)]]
    /\ Goto(p, "lock")
    /\ UNCHANGED <<machine, lock, orphans, round, target, kind, shown, last, typed, fresh>>

\* Mutant: the lock is shared.
LockFreeShared(n) == TRUE

LockFree(n) == lock[n] = NoSession

AcquireLock(p) ==
    /\ pc[p] = "lock"
    /\ LockFree(target[p])
    /\ hw[Disk(p)] # Absent
    /\ lock' = [lock EXCEPT ![target[p]] = p]
    /\ Goto(p, "review")
    /\ UNCHANGED <<machine, orphans, round, locals, fresh>>

LockRefused(p) ==
    /\ pc[p] = "lock"
    /\ ~LockFree(target[p]) \/ hw[Disk(p)] = Absent
    /\ Refuse(p)

\* A probe fails or times out: the preflight is not ok, the command refuses.
ProbeFails(p) == pc[p] \in CanFail /\ Refuse(p)

\* Mutant: a LUKS header is content like any other.
PermitsLuks(k, c) == k # "format" \/ c = Blank

\* format refuses partition tables and LUKS headers, and any other content
\* without --reformat-existing.
Permits(k, c) ==
    \/ k = "raw"
    \/ k = "format" /\ c = Blank
    \/ k = "reformat" /\ c \notin Protected

\* The preflight is ok; what it found decides (and which command p runs).
Review(p) ==
    /\ pc[p] = "review"
    /\ ~now[p].active
    /\ \E k \in Kinds :
         /\ Permits(k, now[p].content)
         /\ kind' = [kind EXCEPT ![p] = k]
    /\ shown' = [shown EXCEPT ![p] = now[p]]
    /\ last' = [last EXCEPT ![p] = now[p]]
    /\ now' = [now EXCEPT ![p] = NoPreflight]
    /\ Goto(p, "confirm")
    /\ UNCHANGED <<machine, lock, orphans, round, target, typed, fresh>>

ReviewRefused(p) ==
    /\ pc[p] = "review"
    /\ now[p].active \/ \E k \in Kinds : ~Permits(k, now[p].content)
    /\ Refuse(p)

-----------------------------------------------------------------------------
(***************************************************************************)
(* Confirmation and the preflights after it.                               *)
(***************************************************************************)
\* Mutant: the fingerprint of the whole snapshot is asked for.
ConfirmSnapshot(p) ==
    /\ pc[p] = "confirm"
    /\ hw[Disk(p)] # Absent
    /\ typed' = [typed EXCEPT ![p] = IdentityOf[hw[Disk(p)]]]
    /\ round' = [round EXCEPT ![p] = 2]
    /\ Goto(p, "identity")
    /\ UNCHANGED <<machine, lock, orphans, target, kind, shown, last, now, fresh>>

\* The user types the device, the persistent path and the PCI path of what is
\* behind the node now (_resolve_confirmation_identity resolves it afresh).
Confirm(p) ==
    /\ pc[p] = "confirm"
    /\ hw[Disk(p)] # Absent
    /\ typed' = [typed EXCEPT ![p] = UnitAt(hw[Disk(p)])]
    /\ round' = [round EXCEPT ![p] = 2]
    /\ Goto(p, "identity")
    /\ UNCHANGED <<machine, lock, orphans, target, kind, shown, last, now, fresh>>

\* A mismatch, a device that cannot be resolved, end of input, Ctrl-C.
NotConfirmed(p) == pc[p] \in {"confirm", "passphrase"} /\ Refuse(p)

\* Mutant: the identity is not compared.
UnchangedButIdentity(p) == now[p].content = last[p].content /\ ~active[Disk(p)]

\* Mutant: use that began during the confirmation is not looked at.
UnchangedButUse(p) ==
    now[p].identity = last[p].identity /\ now[p].content = last[p].content

\* What _destructive_revalidate asks of the second preflight, with the last
\* of its probes made now.
Unchanged(p) ==
    /\ now[p].identity = last[p].identity
    /\ now[p].content = last[p].content
    /\ ~active[Disk(p)]

\* format takes a final preflight, compared with the second one.
Reprobe(p) ==
    /\ pc[p] = "active" /\ round[p] = 2 /\ kind[p] # "raw"
    /\ Unchanged(p)
    /\ last' = [last EXCEPT ![p] = now[p]]
    /\ now' = [now EXCEPT ![p] = NoPreflight]
    /\ round' = [round EXCEPT ![p] = 3]
    /\ fresh' = [fresh EXCEPT ![p] = {}]
    /\ Goto(p, "identity")
    /\ UNCHANGED <<machine, lock, orphans, target, kind, shown, typed>>

\* Every probe is as it was shown.  format --luks asks for the passphrase
\* (passgen, twice) before it writes.
Proceed(p) ==
    /\ pc[p] = "active" /\ round[p] = (IF kind[p] = "raw" THEN 2 ELSE 3)
    /\ Unchanged(p)
    /\ \E next \in {"passphrase", "write"} :
         /\ next = "passphrase" => kind[p] # "raw"
         /\ Goto(p, next)
    /\ Probed(p, "use")
    /\ UNCHANGED <<machine, lock, orphans, round, locals>>

Changed(p) == pc[p] = "active" /\ round[p] > 1 /\ ~Unchanged(p) /\ Refuse(p)

Passphrase(p) ==
    /\ pc[p] = "passphrase"
    /\ Goto(p, "write")
    /\ UNCHANGED <<machine, lock, orphans, round, locals, fresh>>

\* The programs that write have ended, well or badly; the device has whatever
\* content they left.
Write(p) ==
    /\ pc[p] = "write"
    /\ \E c \in Contents :
         content' = [content EXCEPT ![Disk(p)] = IF hw[Disk(p)] = Absent THEN @ ELSE c]
    /\ fresh' = [q \in Sessions |-> IF q = p THEN {}
                               ELSE IF Disk(q) = Disk(p) THEN fresh[q] \ {"content"}
                               ELSE fresh[q]]
    /\ End(p)
    /\ UNCHANGED <<hw, active, orphans>>

\* A killed session leaves its helper without input, so the flock is gone, and
\* the program that it was running to its work.
Kill(p) ==
    /\ p \in Killable /\ pc[p] # "idle"
    /\ orphans' = IF pc[p] = "write" THEN orphans \cup {Disk(p)} ELSE orphans
    /\ End(p)
    /\ fresh' = [fresh EXCEPT ![p] = {}]
    /\ UNCHANGED machine

OrphanEnds(d) ==
    /\ d \in orphans
    /\ orphans' = orphans \ {d}
    /\ \E c \in Contents : content' = [content EXCEPT ![d] = c]
    /\ Touch(d, {"content"})
    /\ UNCHANGED <<hw, active, lock, pc, round, locals>>

-----------------------------------------------------------------------------
(***************************************************************************)
(* The rest of the machine.                                                *)
(***************************************************************************)
\* A disk is unplugged, plugged in or exchanged.  The helper of a lock keeps
\* the node open, and the kernel gives the name of an open node to no other
\* unit: then only the medium can change (a card reader) or the unit go.
MayBecome(d, h) ==
    (\E n \in Nodes : DiskOf[n] = d /\ lock[n] # NoSession) =>
        UnitAt(h) \in {Absent, UnitAt(hw[d])}

Hotplug(d) ==
    /\ d \notin RootDisks
    /\ \E h \in (Hardware \cup {Absent}) \ {hw[d]} :
         /\ MayBecome(d, h)
         /\ hw' = [hw EXCEPT ![d] = h]
    /\ \E c \in Contents : content' = [content EXCEPT ![d] = c]
    /\ active' = [active EXCEPT ![d] = FALSE]
    /\ Touch(d, Aspects)
    /\ UNCHANGED <<lock, orphans, pc, round, locals>>

\* Another program writes to d: flock is advisory.
Rewrite(d) ==
    /\ d \notin RootDisks /\ hw[d] # Absent
    /\ \E c \in Contents \ {content[d]} : content' = [content EXCEPT ![d] = c]
    /\ Touch(d, {"content"})
    /\ UNCHANGED <<hw, active, lock, orphans, pc, round, locals>>

\* d is mounted, or no longer.
Use(d) ==
    /\ d \notin RootDisks /\ hw[d] # Absent
    /\ active' = [active EXCEPT ![d] = ~@]
    /\ Touch(d, {"use"})
    /\ UNCHANGED <<hw, content, lock, orphans, pc, round, locals>>

Step(p) ==
    \/ SnapshotIdentity(p) \/ IdentityRefused(p)
    \/ ProbeContents(p) \/ ContentsRefused(p)
    \/ ProbeActive(p) \/ ProbeFails(p)
    \/ AcquireLock(p) \/ LockRefused(p)
    \/ Review(p) \/ ReviewRefused(p)
    \/ Confirm(p) \/ NotConfirmed(p)
    \/ Reprobe(p) \/ Proceed(p) \/ Changed(p)
    \/ Passphrase(p) \/ Write(p)

Next ==
    \/ \E p \in Sessions : Start(p) \/ Step(p) \/ Kill(p)
    \/ \E d \in Disks : OrphanEnds(d) \/ Hotplug(d) \/ Rewrite(d) \/ Use(d)

Spec == Init /\ [][Next]_vars

\* Probes have timeouts, programs end, and the user answers.
FairSpec == Spec /\ \A p \in Sessions : WF_vars(Step(p))

-----------------------------------------------------------------------------
(***************************************************************************)
(* Properties.                                                             *)
(***************************************************************************)
\* A session writes only to a disk off the root filesystem whose identity,
\* signatures and lack of users are those that were shown before the
\* confirmation, apart from what changed after its last probe of that aspect.
GuardedWrite ==
    \A p \in Sessions : pc[p] = "write" =>
        /\ Disk(p) \notin RootDisks
        /\ "identity" \in fresh[p] =>
               /\ hw[Disk(p)] # Absent
               /\ IdentityOf[hw[Disk(p)]] = shown[p].identity
        /\ "content" \in fresh[p] => content[Disk(p)] = shown[p].content
        /\ "use" \in fresh[p] => ~active[Disk(p)]

\* format never overwrites a partition table or a LUKS header, nor, without
\* --reformat-existing, any content, that its last probe could have seen.
FormatPolicy ==
    \A p \in Sessions : pc[p] = "write" /\ "content" \in fresh[p] =>
        /\ kind[p] # "raw" => content[Disk(p)] \notin Protected
        /\ kind[p] = "format" => content[Disk(p)] = Blank

\* The unit that the user typed is the unit that is written, and stays so
\* until the last write ends, if the device is not gone.
ConfirmedUnit ==
    \A p \in Sessions : pc[p] \in {"passphrase", "write"} =>
        /\ typed[p] = UnitOf[shown[p].identity]
        /\ UnitAt(hw[Disk(p)]) \in {Absent, typed[p]}

\* No two sessions write at the same time to the same node, or to a disk and to
\* a partition of it.
OneWriter ==
    \A p, q \in Sessions :
        pc[p] = "write" /\ pc[q] = "write" /\ target[p] \in Tree(target[q]) => p = q

\* A session that writes is the only program of diskmgr that does.
NoOrphanWrites ==
    \A p \in Sessions : pc[p] = "write" => Disk(p) \notin orphans

\* Whoever takes a lock gives it back, however the command ends.
LocksReturned ==
    \A p \in Sessions : (\E n \in Nodes : lock[n] = p) ~> (\A n \in Nodes : lock[n] # p)

\* The guard refuses a device for want of an identity only when it is gone.
IdentityRefusedOnlyIfGone ==
    [][\A p \in Sessions : pc[p] = "identity" /\ pc'[p] = "idle" => hw[Disk(p)] = Absent]_vars

=============================================================================
