------------------------------ MODULE Partitions ------------------------------
(***************************************************************************)
(* create, remove, erase and convert on one disk, while others partition,  *)
(* format, mount and unmount it.                                           *)
(*                                                                         *)
(* Space on the disk is counted in units.  Unit 0 holds the partition      *)
(* table or a filesystem of the disk itself; a filesystem begins at the    *)
(* first unit of its partition.  The kernel keeps its own list of          *)
(* partitions, which follows the table only when it is told to.            *)
(***************************************************************************)
EXTENDS Naturals, FiniteSets

CONSTANTS
    Size,        \* units behind the first
    Numbers,     \* partition numbers
    Filesystems, \* filesystems, by their UUID
    Nothing,
    Starts,      \* disks to begin with
    MaxOthers    \* bound on what others do

Whole == 0
Places == 0 .. Size
Extents == {e \in (1 .. Size) \X (1 .. Size) : e[1] <= e[2]}
Layouts == [Numbers -> Extents \cup {Nothing}]
Kinds == {"ext4", "btrfs", "other"}
TableTypes == {"gpt", "mbr"}
Empty == [n \in Numbers |-> Nothing]
Disjoint(layout) ==
    \A m, n \in Numbers :
        m # n /\ layout[m] # Nothing /\ layout[n] # Nothing =>
            layout[m][2] < layout[n][1] \/ layout[n][2] < layout[m][1]

\* No UUID is on the disk twice.
Unique(contents) ==
    \A u, v \in Places : contents[u] = contents[v] /\ contents[u] # Nothing => u = v

ASSUME PartitionsConstants ==
    /\ Size \in Nat \ {0}
    /\ Numbers \subseteq Nat \ {0} /\ IsFiniteSet(Numbers)
    /\ Nothing \notin Extents /\ Nothing \notin Filesystems /\ Nothing # Whole
    /\ Starts \subseteq [table : TableTypes \cup {"none"}, parts : Layouts,
                         fs : [Places -> Filesystems \cup {Nothing}], kind : [Filesystems -> Kinds]]
    /\ \A s \in Starts : Disjoint(s.parts) /\ (s.table = "none" => s.parts = Empty) /\ Unique(s.fs)
    /\ Filesystems \cap (TableTypes \cup {"backup"}) = {}
    /\ MaxOthers \in Nat

VARIABLES
    table,      \* type of the partition table; "backup": only GPT's copy at the end
    parts,      \* partition number -> its extent in the table
    nodes,      \* partition number -> the extent the kernel knows
    fs,         \* unit -> filesystem that begins there
    kind,       \* filesystem -> what it is
    busy,       \* devices that are mounted
    others,     \* how often others have changed something
    pc, op,     \* next step and command in progress
    target,     \* the disk, or the number of a partition
    make,       \* create: type of the table to make
    range,      \* create: extent of the partition to make
    shown,      \* signatures found before the confirmation
    todo,       \* erase: partitions still to be wiped
    gpt,        \* erase: the disk had a GPT
    announced,  \* history: filesystems the user has been told of
    late,       \* history: phases of the command in which others changed something
    blank,      \* history: erase reported success and nobody wrote since
    erased,     \* history: filesystems whose wiping erase has set out for
    kept        \* history: the kernel did not take over what erase has done

disk == <<table, parts, nodes, fs, kind, busy>>
locals == <<target, make, range, shown, todo, gpt>>
report == <<blank, erased, kept>>
history == <<announced, late, report>>
vars == <<disk, others, pc, op, locals, history>>

Devices == {Whole} \cup Numbers
PCs == {"looked", "shown", "write", "part", "settle", "list", "parts", "disk", "zap",
        "refresh", "verify", "fsck", "convert"}

TypeOK ==
    /\ table \in TableTypes \cup {"none", "backup"}
    /\ parts \in Layouts /\ nodes \in Layouts
    /\ Disjoint(parts)
    /\ table \notin TableTypes => parts = Empty
    /\ fs \in [Places -> Filesystems \cup {Nothing}]
    /\ kind \in [Filesystems -> Kinds]
    /\ busy \subseteq Devices
    /\ others \in 0 .. MaxOthers
    /\ pc \in {"idle"} \cup PCs
    /\ op \in {"none", "create", "remove", "erase", "convert"}
    /\ target \in IF op = "remove" THEN Numbers ELSE Devices
    /\ make \in TableTypes \cup {"none"}
    /\ range \in Extents \cup {Nothing}
    /\ shown \subseteq Devices \X (TableTypes \cup {"backup"} \cup Filesystems)
    /\ todo \subseteq Numbers
    /\ gpt \in BOOLEAN /\ blank \in BOOLEAN /\ kept \in BOOLEAN
    /\ announced \subseteq Filesystems /\ erased \subseteq Filesystems
    /\ late \subseteq {"look", "confirm", "write"}

-----------------------------------------------------------------------------
(***************************************************************************)
(* What the probes see.                                                    *)
(***************************************************************************)
Present == {n \in Numbers : nodes[n] # Nothing}
Tree(d) == IF d = Whole THEN {Whole} \cup Present ELSE {d}

\* The filesystem a device leads to.
Content(d) == IF d = Whole THEN fs[0] ELSE IF nodes[d] = Nothing THEN Nothing ELSE fs[nodes[d][1]]

Signatures(d) ==
    {<<e, Content(e)>> : e \in {f \in Tree(d) : Content(f) # Nothing}}
    \cup (IF d = Whole THEN {Whole} \X ({table} \ {"none"}) ELSE {})

Active(d) == busy \cap Tree(d) # {}

\* Filesystems that somebody can still get at.
Reach == ({fs[0]} \cup {fs[parts[n][1]] : n \in {m \in Numbers : parts[m] # Nothing}}) \ {Nothing}

\* A plausible slip: the precheck of create leaves signatures to the preflight.
LooksErasedButForSignatures == Present = {} /\ table = "none"
LooksErased == Present = {} /\ table = "none" /\ fs[0] = Nothing

Free == {e \in Extents : \A n \in Numbers : parts[n] # Nothing =>
            parts[n][2] < e[1] \/ e[2] < parts[n][1]}

\* parted lists the free extents in order; the first of the largest is taken.
Biggest(E) ==
    {e \in E : \A f \in E :
        \/ f[2] - f[1] < e[2] - e[1]
        \/ f[2] - f[1] = e[2] - e[1] /\ e[1] <= f[1]}

\* A plausible slip: the end taken for the first sector behind.
LargestPastItsEnd == {<<e[1], e[2] + 1>> : e \in Biggest(Free)}
Largest == Biggest(Free)

-----------------------------------------------------------------------------
Init ==
    /\ \E s \in Starts :
          table = s.table /\ parts = s.parts /\ nodes = s.parts /\ fs = s.fs /\ kind = s.kind
    /\ busy = {} /\ others = 0
    /\ pc = "idle" /\ op = "none"
    /\ target = Whole /\ make = "none" /\ range = Nothing
    /\ shown = {} /\ todo = {} /\ gpt = FALSE
    /\ announced = {} /\ late = {}
    /\ blank = FALSE /\ erased = {} /\ kept = FALSE

Start(command) ==
    /\ pc = "idle"
    /\ op' = command
    /\ shown' = {} /\ todo' = {} /\ gpt' = FALSE
    /\ late' = {}
    /\ UNCHANGED <<disk, others, report>>

End ==
    /\ pc' = "idle" /\ op' = "none"
    /\ target' = Whole /\ make' = "none" /\ range' = Nothing
    /\ shown' = {} /\ todo' = {} /\ gpt' = FALSE
    /\ announced' = {} /\ late' = {}
    /\ UNCHANGED others

\* Someone has written to the disk since the last erase.
Written == blank' = FALSE /\ erased' = {} /\ kept' = FALSE

\* An erase that did not complete has no report to keep.
Forget == IF blank THEN UNCHANGED report ELSE Written

\* A check refuses, the user does not confirm, or a program fails.
GiveUp ==
    /\ pc # "idle"
    /\ End
    /\ Forget
    /\ UNCHANGED disk

-----------------------------------------------------------------------------
(***************************************************************************)
(* What each command looks at before the guard.                            *)
(***************************************************************************)
CreateTable ==
    /\ Start("create")
    /\ ~Active(Whole) /\ LooksErased
    /\ target' = Whole
    /\ make' \in TableTypes
    /\ range' \in Extents \cup {Nothing}
    /\ announced' = {}
    /\ pc' = "looked"

\* A partition for a table that is there: where the user says, or where most is free.
CreatePartition ==
    /\ Start("create")
    /\ ~Active(Whole) /\ table # "none"
    /\ target' = Whole /\ make' = "none"
    /\ range' \in Extents \cup Largest
    /\ announced' = {}
    /\ pc' = "looked"

RemoveStart ==
    /\ Start("remove")
    /\ target' \in Present \ busy
    /\ make' = "none" /\ range' = Nothing /\ announced' = {}
    /\ pc' = "looked"

EraseStart ==
    /\ Start("erase")
    /\ target' \in {Whole} \cup Present
    /\ make' = "none" /\ range' = Nothing /\ announced' = {}
    /\ pc' = "looked"

Ext4(d) == Content(d) # Nothing /\ kind[Content(d)] = "ext4"

\* convert takes the device, or the one partition of it, that holds ext4.
ConvertChoice(d) ==
    IF Ext4(d) THEN {d}
    ELSE {n \in Present : d = Whole /\ {m \in Present : Ext4(m)} = {n}}

ConvertStart ==
    /\ Start("convert")
    /\ \E d \in {Whole} \cup Present : target' \in ConvertChoice(d)
    /\ target' \notin busy
    /\ make' = "none" /\ range' = Nothing
    /\ announced' = {Content(target')}
    /\ pc' = "shown"

-----------------------------------------------------------------------------
(***************************************************************************)
(* The guard: preflight, confirmation, and the same probes again.  create  *)
(* and remove guard the disk, erase the device it was given.               *)
(***************************************************************************)
Guarded == IF op = "erase" THEN target ELSE Whole

\* The partition named, or for erase whatever the disk holds.
Told == {Content(d) : d \in IF op = "erase" THEN Tree(target) ELSE {target} \ {Whole}} \ {Nothing}

Preflight ==
    /\ pc = "looked"
    /\ ~Active(Guarded)
    /\ Guarded \in {Whole} \cup Present
    /\ shown' = Signatures(Guarded)
    /\ announced' = Told
    /\ pc' = "shown"
    /\ UNCHANGED <<disk, others, op, target, make, range, todo, gpt, late, report>>

Revalidate ==
    /\ pc = "shown" /\ op # "convert"
    /\ ~Active(Guarded)
    /\ Guarded \in {Whole} \cup Present
    /\ Signatures(Guarded) = shown
    /\ pc' = "write"
    /\ UNCHANGED <<disk, others, op, locals, history>>

-----------------------------------------------------------------------------
(***************************************************************************)
(* create and remove: parted.                                              *)
(***************************************************************************)
\* parted tells the kernel what it has written.
Announce(layout) == parts' = layout /\ nodes' = layout

MkLabel ==
    /\ pc = "write" /\ op = "create" /\ make # "none"
    /\ busy = {}
    /\ table' = make /\ Announce(Empty)
    /\ fs' = [fs EXCEPT ![0] = Nothing]
    /\ pc' = IF range = Nothing THEN "settle" ELSE "part"
    /\ Written
    /\ UNCHANGED <<kind, busy, others, op, locals, announced, late>>

\* parted takes the first number that is free, and no extent that overlaps.
MkPart ==
    /\ op = "create" /\ pc = IF make = "none" THEN "write" ELSE "part"
    /\ table \in TableTypes /\ range \in Free
    /\ \E n \in Numbers :
          /\ parts[n] = Nothing /\ \A m \in Numbers : parts[m] = Nothing => n <= m
          /\ Announce([parts EXCEPT ![n] = range])
    /\ pc' = "settle"
    /\ Written
    /\ UNCHANGED <<table, fs, kind, busy, others, op, locals, announced, late>>

Rm ==
    /\ pc = "write" /\ op = "remove"
    /\ table \in TableTypes /\ parts[target] # Nothing /\ target \notin busy
    /\ Announce([parts EXCEPT ![target] = Nothing])
    /\ pc' = "settle"
    /\ UNCHANGED <<table, fs, kind, busy, others, op, locals, history>>

\* The kernel keeps the partitions in use and reads the others anew; what asks
\* it to may fail, and the result is ignored: others may stay, too.
Reread(stuck) == [n \in Numbers |-> IF n \in busy \cup stuck THEN nodes[n] ELSE parts[n]]

Settle ==
    /\ pc = "settle"
    /\ \E stuck \in SUBSET Present : nodes' = Reread(stuck)
    /\ IF op = "create" /\ range # Nothing
       THEN pc' = "list" /\ UNCHANGED <<op, locals, announced, late, others>>
       ELSE End
    /\ UNCHANGED <<table, parts, fs, kind, busy, report>>

List ==
    /\ pc = "list"
    /\ End
    /\ UNCHANGED <<disk, report>>

-----------------------------------------------------------------------------
(***************************************************************************)
(* erase: wipefs on the partitions and the disk, sgdisk, and the kernel.   *)
(***************************************************************************)
\* If lsblk does not list the partitions, erase goes on as if there were none.
LookAgain ==
    /\ pc = "write" /\ op = "erase"
    /\ gpt' = (target = Whole /\ table \in {"gpt", "backup"})
    /\ todo' \in IF target = Whole THEN {Present, {}} ELSE {{target}}
    /\ blank' = FALSE /\ kept' = FALSE
    /\ erased' = IF target = Whole /\ todo' = Present THEN announced ELSE {}
    /\ pc' = "parts"
    /\ UNCHANGED <<disk, others, op, target, make, range, shown, announced, late>>

WipePart ==
    /\ pc = "parts"
    /\ \E n \in (todo \cap Present) \ busy :
          /\ fs' = [fs EXCEPT ![nodes[n][1]] = Nothing]
          /\ todo' = todo \ {n}
    /\ pc' = IF todo' # {} THEN "parts" ELSE IF target = Whole THEN "disk" ELSE "verify"
    /\ UNCHANGED <<table, parts, nodes, kind, busy, others, op, target, make, range, shown, gpt, history>>

\* A plausible slip: the table is wiped before all partitions are.
WipeDiskFirst ==
    /\ pc \in {"parts", "disk"} /\ target = Whole
    /\ table' \in IF table \in {"gpt", "backup"} THEN {"none", "backup"} ELSE {"none"}
    /\ parts' = Empty
    /\ fs' = [fs EXCEPT ![0] = Nothing]
    /\ pc' = IF gpt THEN "zap" ELSE "refresh"
    /\ UNCHANGED <<nodes, kind, busy, others, op, locals, history>>

\* Of a GPT the copy at the end may stay.
WipeDisk ==
    /\ \/ pc = "disk"
       \/ pc = "parts" /\ todo = {}
    /\ table' \in IF table \in {"gpt", "backup"} THEN {"none", "backup"} ELSE {"none"}
    /\ parts' = Empty
    /\ fs' = [fs EXCEPT ![0] = Nothing]
    /\ pc' = IF gpt THEN "zap" ELSE "refresh"
    /\ UNCHANGED <<nodes, kind, busy, others, op, locals, history>>

Zap ==
    /\ pc = "zap"
    /\ table' = "none" /\ parts' = Empty
    /\ pc' = "refresh"
    /\ UNCHANGED <<nodes, fs, kind, busy, others, op, locals, history>>

\* partx drops the partitions not in use, then the table is read again: each of
\* them may fail, and erase goes on.
Refresh ==
    /\ pc = "refresh"
    /\ \E stuck \in SUBSET Present : nodes' = Reread(stuck) /\ kept' = (stuck # {})
    /\ pc' = "verify"
    /\ UNCHANGED <<table, parts, fs, kind, busy, others, op, locals, announced, late, blank, erased>>

Verify ==
    /\ pc = "verify"
    /\ End
    /\ IF Signatures(target) = {} /\ target = Whole /\ "write" \notin late
       THEN blank' = TRUE /\ UNCHANGED <<erased, kept>>
       ELSE Written
    /\ UNCHANGED disk

-----------------------------------------------------------------------------
(***************************************************************************)
(* convert: no lock and no second look, but the programs refuse what is    *)
(* mounted or not ext4.                                                    *)
(***************************************************************************)
ConvertConfirmed ==
    /\ pc = "shown" /\ op = "convert"
    /\ pc' = "fsck"
    /\ UNCHANGED <<disk, others, op, locals, history>>

Convertible == target \notin busy /\ Ext4(target)

Fsck ==
    /\ pc = "fsck" /\ Convertible
    /\ pc' = "convert"
    /\ UNCHANGED <<disk, others, op, locals, history>>

Convert ==
    /\ pc = "convert" /\ Convertible
    /\ kind' = [kind EXCEPT ![Content(target)] = "btrfs"]
    /\ End
    /\ UNCHANGED <<table, parts, nodes, fs, busy, report>>

-----------------------------------------------------------------------------
(***************************************************************************)
(* Others.                                                                 *)
(***************************************************************************)
Phase ==
    CASE pc = "idle" -> {}
      [] pc = "looked" -> {"look"}
      [] pc = "shown" -> {"confirm"}
      [] OTHER -> {"write"}

Other ==
    /\ others < MaxOthers /\ others' = others + 1
    /\ late' = late \cup Phase
    /\ Written
    /\ UNCHANGED <<pc, op, locals, announced>>

OthersPartition ==
    /\ Other
    /\ table \in TableTypes
    /\ \E n \in Numbers \ busy, e \in {Nothing} \cup Free :
          /\ parts[n] = Nothing \/ e = Nothing
          /\ Announce([parts EXCEPT ![n] = e])
    /\ UNCHANGED <<table, fs, kind, busy>>

OthersTable ==
    /\ Other
    /\ busy = {}
    /\ table' \in TableTypes
    /\ Announce(Empty)
    /\ fs' = [fs EXCEPT ![0] = Nothing]
    /\ UNCHANGED <<kind, busy>>

Unused == {f \in Filesystems : \A u \in Places : fs[u] # f}

OthersFormat ==
    /\ Other
    /\ \E n \in Present \ busy, f \in Unused, k \in Kinds :
          /\ fs' = [u \in Places |-> IF u = nodes[n][1] THEN f
                                     ELSE IF u \in nodes[n][1] .. nodes[n][2] THEN Nothing ELSE fs[u]]
          /\ kind' = [kind EXCEPT ![f] = k]
    /\ UNCHANGED <<table, parts, nodes, busy>>

OthersFormatDisk ==
    /\ Other
    /\ busy = {} /\ table' = "none" /\ parts' = Empty
    /\ \E f \in Unused, k \in Kinds :
          fs' = [u \in Places |-> IF u = 0 THEN f ELSE Nothing] /\ kind' = [kind EXCEPT ![f] = k]
    /\ UNCHANGED <<nodes, busy>>

OthersMount ==
    /\ Other
    /\ \E d \in {e \in ({Whole} \cup Present) \ busy : Content(e) # Nothing} : busy' = busy \cup {d}
    /\ UNCHANGED <<table, parts, nodes, fs, kind>>

OthersUnmount ==
    /\ Other
    /\ \E d \in busy : busy' = busy \ {d}
    /\ UNCHANGED <<table, parts, nodes, fs, kind>>

Others ==
    OthersPartition \/ OthersTable \/ OthersFormat \/ OthersFormatDisk \/ OthersMount \/ OthersUnmount

Commands ==
    \/ CreateTable \/ CreatePartition \/ RemoveStart \/ EraseStart \/ ConvertStart
    \/ Preflight \/ Revalidate \/ GiveUp
    \/ MkLabel \/ MkPart \/ Rm \/ Settle \/ List
    \/ LookAgain \/ WipePart \/ WipeDisk \/ Zap \/ Refresh \/ Verify
    \/ ConvertConfirmed \/ Fsck \/ Convert

Next == Commands \/ Others
Spec == Init /\ [][Next]_vars

-----------------------------------------------------------------------------
(***************************************************************************)
(* Properties                                                              *)
(***************************************************************************)
\* What the probes of a command cannot see: create looks at the disk once
\* before the preflight, convert looks once; all write a while after the
\* last probe.
Unseen ==
    CASE op = "create" -> {"look", "write"}
      [] op = "convert" -> {"confirm", "write"}
      [] OTHER -> {"write"}

Lost == {f \in Reach : f \notin Reach' \/ kind'[f] # kind[f]}

(* No filesystem that can be reached is lost or converted, by create,      *)
(* remove, erase or convert, but those of the device the user named and    *)
(* confirmed, whatever others did while the command had not yet finished   *)
(* its probes; others can defeat it only after the last probe, and in      *)
(* create also before its preflight.                                       *)
OnlyAnnouncedLost ==
    [][Commands => Lost \subseteq announced \/ late \cap Unseen # {}]_vars

(* "Soft erase completed." on a disk, until somebody writes to it: there   *)
(* is no table, not even the second copy, and none of the filesystems that *)
(* the user was shown is left on the disk, where a partition made at the   *)
(* same place would bring it back (if lsblk listed the partitions); and    *)
(* create takes the disk, if the kernel has dropped the partitions as it   *)
(* was asked to.                                                           *)
ErasedStaysCreatable ==
    blank => /\ table = "none" /\ \A u \in Places : fs[u] \notin erased
             /\ kept \/ LooksErased
=============================================================================
