-------------------------- MODULE PartitionsProofs --------------------------
(***************************************************************************)
(* Theorems about create, remove, erase and convert, for every disk, every *)
(* set of partition numbers and filesystems, and any number of changes by  *)
(* others.                                                                 *)
(***************************************************************************)
EXTENDS Partitions, TLAPS

-----------------------------------------------------------------------------
(***************************************************************************)
(* The inductive invariant.                                                *)
(***************************************************************************)
\* While there is a table the kernel knows what it says, and it keeps what is
\* mounted.
KernelKnows ==
    /\ busy \subseteq {Whole} \cup Present
    /\ table \in TableTypes => nodes = parts

\* What a command works on at each of its steps; from erase's first wipe to its
\* report no earlier report counts.
Bound ==
    /\ op = "remove" => target \in Numbers
    /\ pc \in {"looked", "part", "settle", "list"} => op \in {"create", "remove", "erase"}
    /\ pc = "write" => op \in {"create", "remove", "erase"}
    /\ pc = "shown" => op # "none"
    /\ pc \in {"parts", "disk", "zap", "refresh", "verify"} => op = "erase"
    /\ pc \in {"disk", "zap", "refresh"} => target = Whole
    /\ pc = "parts" /\ target # Whole => todo = {target}
    /\ pc = "disk" => todo = {}
    /\ pc \in {"fsck", "convert"} => op = "convert"
    /\ op = "convert" => pc \in {"shown", "fsck", "convert"}
    /\ pc \in {"parts", "disk", "zap", "refresh", "verify"} => blank = FALSE

Quiet == "write" \notin late

\* Nobody has touched the disk between erase's last probe and its report.
Erasing ==
    op = "erase" /\ target = Whole /\ Quiet =>
        /\ pc \in {"write", "parts", "disk", "zap", "refresh", "verify"} => busy = {}
        /\ pc \in {"zap", "refresh"} => parts = Empty
        /\ pc = "verify" => parts = Empty /\ (kept \/ nodes = Empty)

\* Units at which erase has still to wipe something.
Left == {0} \cup {nodes[n][1] : n \in todo \cap Present}

\* What erase has set out to wipe is only where it has still to wipe.
Wiped ==
    op = "erase" /\ target = Whole /\ Quiet =>
        /\ pc \in {"parts", "disk"} => \A u \in Places : fs[u] \in erased => u \in Left
        /\ pc \in {"zap", "refresh", "verify"} => \A u \in Places : fs[u] \notin erased

\* A disk that create is to label has nothing on it that it has looked for.
Creating ==
    op = "create" /\ make # "none" /\ "look" \notin late =>
        /\ pc = "looked" => LooksErased
        /\ pc = "shown" => shown = {}
        /\ pc = "write" /\ Quiet => table = "none" /\ fs[0] = Nothing

\* What the preflight has shown has been announced.
Announced ==
    /\ op = "remove" /\ pc = "shown" =>
          \A f \in Filesystems : <<target, f>> \in shown => f \in announced
    /\ op = "erase" /\ pc = "shown" =>
          \A d \in Devices, f \in Filesystems : <<d, f>> \in shown => f \in announced
    /\ op = "remove" /\ pc = "write" /\ Quiet => Content(target) \in announced \cup {Nothing}
    /\ op = "erase" /\ pc \in {"write", "parts", "disk"} /\ Quiet =>
          \A d \in Tree(target) : Content(d) \in announced \cup {Nothing}
    /\ op = "convert" /\ late \cap {"confirm", "write"} = {} => announced = {Content(target)}

\* What has been announced for erase is what the device leads to.
Covered ==
    op = "erase" =>
        /\ pc = "shown" => \A f \in announced : \E d \in Devices : <<d, f>> \in shown
        /\ pc = "write" /\ Quiet => \A f \in announced : \E d \in Tree(target) : Content(d) = f

Once == Unique(fs)

IInv ==
    /\ TypeOK /\ KernelKnows /\ Bound /\ Once /\ Erasing /\ Wiped /\ Creating
    /\ Announced /\ Covered /\ ErasedStaysCreatable
-----------------------------------------------------------------------------
(***************************************************************************)
(* Type correctness.                                                       *)
(***************************************************************************)
\* What the constants give.
LEMMA ConstantTypes ==
  /\ Whole = 0 /\ Whole \in Devices /\ Whole \in Places /\ Whole \notin Numbers
  /\ Numbers \subseteq Devices /\ Numbers \subseteq Nat
  /\ Nothing \notin Extents /\ Nothing \notin Filesystems /\ Nothing # Whole
  /\ \A e \in Extents : /\ e[1] \in Places /\ e[1] \in 1 .. Size /\ e[2] \in 1 .. Size
                        /\ e[1] <= e[2]
  /\ Empty \in Layouts /\ Disjoint(Empty)
  BY PartitionsConstants DEF Whole, Devices, Places, Extents, Layouts, Empty, Disjoint

\* A partition of a layout lies on the disk.
LEMMA ExtentTypes ==
  ASSUME NEW layout \in Layouts, NEW n \in Numbers, layout[n] # Nothing
  PROVE  layout[n] \in Extents /\ layout[n][1] \in Places
  BY ConstantTypes DEF Layouts

\* A device leads to a filesystem, or nowhere.
LEMMA ContentType ==
  ASSUME TypeOK, NEW d \in Devices
  PROVE  Content(d) \in Filesystems \cup {Nothing}
<1>1. CASE d = Whole
  BY <1>1, ConstantTypes DEF TypeOK, Content
<1>2. CASE d \in Numbers /\ nodes[d] = Nothing
  BY <1>2, ConstantTypes DEF TypeOK, Content
<1>3. CASE d \in Numbers /\ nodes[d] # Nothing
  <2>1. nodes[d][1] \in Places
    BY <1>3, ExtentTypes DEF TypeOK
  <2>2. Content(d) = fs[nodes[d][1]]
    BY <1>3, ConstantTypes DEF Content
  <2>. QED  BY <2>1, <2>2 DEF TypeOK
<1>. QED  BY <1>1, <1>2, <1>3 DEF Devices

\* The devices of a device.
LEMMA TreeType ==
  ASSUME NEW d \in Devices
  PROVE  Tree(d) \subseteq Devices /\ d \in Tree(d)
  BY ConstantTypes DEF Tree, Present, Devices

\* What the probes can find.
LEMMA SignaturesType ==
  ASSUME TypeOK, NEW d \in Devices
  PROVE  Signatures(d) \subseteq Devices \X (TableTypes \cup {"backup"} \cup Filesystems)
<1>1. \A e \in Tree(d) : Content(e) # Nothing =>
         <<e, Content(e)>> \in Devices \X (TableTypes \cup {"backup"} \cup Filesystems)
  BY ContentType, TreeType
<1>2. {Whole} \X ({table} \ {"none"}) \subseteq Devices \X (TableTypes \cup {"backup"} \cup Filesystems)
  BY ConstantTypes DEF TypeOK
<1>. QED  BY <1>1, <1>2 DEF Signatures

\* A partition put into free space keeps the partitions apart.
LEMMA PutDisjoint ==
  ASSUME TypeOK, NEW n \in Numbers, parts[n] = Nothing, NEW e \in Free
  PROVE  [parts EXCEPT ![n] = e] \in Layouts /\ Disjoint([parts EXCEPT ![n] = e])
  BY ConstantTypes DEF TypeOK, Layouts, Disjoint, Free

\* A partition taken out of the table keeps them apart, too.
LEMMA TakeDisjoint ==
  ASSUME TypeOK, NEW n \in Numbers
  PROVE  [parts EXCEPT ![n] = Nothing] \in Layouts /\ Disjoint([parts EXCEPT ![n] = Nothing])
  BY ConstantTypes DEF TypeOK, Layouts, Disjoint

\* The partitions that the kernel has after it has read the table.
LEMMA RereadType ==
  ASSUME TypeOK, NEW stuck
  PROVE  Reread(stuck) \in Layouts
  BY DEF TypeOK, Layouts, Reread

\* A command that ends leaves the values that it began with.
LEMMA EndType ==
  ASSUME TypeOK, End
  PROVE  /\ pc' \in {"idle"} \cup PCs
         /\ op' \in {"none", "create", "remove", "erase", "convert"}
         /\ target' \in IF op' = "remove" THEN Numbers ELSE Devices
         /\ make' \in TableTypes \cup {"none"}
         /\ range' \in Extents \cup {Nothing}
         /\ shown' \subseteq Devices \X (TableTypes \cup {"backup"} \cup Filesystems)
         /\ todo' \subseteq Numbers
         /\ gpt' \in BOOLEAN
         /\ announced' \subseteq Filesystems
         /\ late' \subseteq {"look", "confirm", "write"}
         /\ others' \in 0 .. MaxOthers
  BY ConstantTypes DEF TypeOK, End

\* Every step keeps the types.
LEMMA TypeStep ==
  ASSUME TypeOK, [Next]_vars
  PROVE  TypeOK'
<1>. USE DEF disk, locals, history, report, Written
<1>1. CASE CreateTable
  BY <1>1, ConstantTypes DEF TypeOK, CreateTable, Start, PCs
<1>2. CASE CreatePartition
  <2>1. range' \in Extents
    BY <1>2 DEF CreatePartition, Largest, Biggest, Free
  <2>. QED  BY <1>2, <2>1, ConstantTypes DEF TypeOK, CreatePartition, Start, PCs
<1>3. CASE RemoveStart
  BY <1>3, ConstantTypes DEF TypeOK, RemoveStart, Start, Present, PCs
<1>4. CASE EraseStart
  BY <1>4, ConstantTypes DEF TypeOK, EraseStart, Start, Present, PCs
<1>5. CASE ConvertStart
  <2>1. target' \in Devices /\ Content(target') # Nothing
    BY <1>5, ConstantTypes DEF ConvertStart, ConvertChoice, Ext4, Present
  <2>2. announced' \subseteq Filesystems
    BY <1>5, <2>1, ContentType DEF ConvertStart
  <2>. QED  BY <1>5, <2>1, <2>2, ConstantTypes DEF TypeOK, ConvertStart, Start, PCs
<1>6. CASE Preflight
  <2>1. Guarded \in Devices
    BY <1>6, ConstantTypes DEF TypeOK, Guarded
  <2>2. announced' \subseteq Filesystems
    <3>1. target \in Devices
      BY ConstantTypes DEF TypeOK
    <3>2. \A d \in IF op = "erase" THEN Tree(target) ELSE {target} \ {Whole} :
             Content(d) \in Filesystems \cup {Nothing}
      BY <3>1, ContentType, TreeType
    <3>. QED  BY <1>6, <3>2 DEF Preflight, Told
  <2>. QED  BY <1>6, <2>1, <2>2, SignaturesType DEF TypeOK, Preflight, PCs
<1>7. CASE Revalidate
  BY <1>7 DEF TypeOK, Revalidate, PCs
<1>8. CASE GiveUp
  BY <1>8, EndType DEF TypeOK, GiveUp, Forget, Written
<1>9. CASE MkLabel
  BY <1>9, ConstantTypes DEF TypeOK, MkLabel, Announce, PCs, TableTypes
<1>10. CASE MkPart
  BY <1>10, PutDisjoint DEF TypeOK, MkPart, Announce, PCs
<1>11. CASE Rm
  <2>1. target \in Numbers
    BY <1>11 DEF TypeOK, Rm
  <2>. QED  BY <1>11, <2>1, TakeDisjoint DEF TypeOK, Rm, Announce, PCs
<1>12. CASE Settle
  <2>1. nodes' \in Layouts /\ UNCHANGED <<table, parts, fs, kind, busy, blank, erased, kept>>
    BY <1>12, RereadType DEF Settle
  <2>2. CASE End
    BY <2>1, <2>2, EndType DEF TypeOK
  <2>3. CASE pc' = "list" /\ UNCHANGED <<op, locals, announced, late, others>>
    BY <2>1, <2>3 DEF TypeOK, PCs
  <2>. QED  BY <1>12, <2>2, <2>3 DEF Settle
<1>13. CASE List
  BY <1>13, EndType DEF TypeOK, List
<1>14. CASE LookAgain
  BY <1>14, ConstantTypes DEF TypeOK, LookAgain, Present, PCs, Devices
<1>15. CASE WipePart
  <2>1. fs' \in [Places -> Filesystems \cup {Nothing}] /\ todo' \subseteq Numbers
    BY <1>15 DEF TypeOK, WipePart
  <2>2. pc' \in PCs
    BY <1>15 DEF WipePart, PCs
  <2>. QED  BY <1>15, <2>1, <2>2 DEF TypeOK, WipePart
<1>16. CASE WipeDisk
  BY <1>16, ConstantTypes DEF TypeOK, WipeDisk, PCs
<1>17. CASE Zap
  BY <1>17, ConstantTypes DEF TypeOK, Zap, PCs
<1>18. CASE Refresh
  BY <1>18, RereadType DEF TypeOK, Refresh, PCs
<1>19. CASE Verify
  BY <1>19, EndType DEF TypeOK, Verify, Written
<1>20. CASE ConvertConfirmed
  BY <1>20 DEF TypeOK, ConvertConfirmed, PCs
<1>21. CASE Fsck
  BY <1>21 DEF TypeOK, Fsck, PCs
<1>22. CASE Convert
  BY <1>22, EndType DEF TypeOK, Convert, Kinds
<1>23. CASE Others
  <2>1. others' \in 0 .. MaxOthers /\ late' \subseteq {"look", "confirm", "write"}
        /\ blank' \in BOOLEAN /\ kept' \in BOOLEAN /\ erased' \subseteq Filesystems
        /\ UNCHANGED <<pc, op, locals, announced>>
    <3>1. Other
      BY <1>23 DEF Others, OthersPartition, OthersTable, OthersFormat, OthersFormatDisk, OthersMount,
         OthersUnmount
    <3>2. others' \in 0 .. MaxOthers
      BY <3>1, PartitionsConstants DEF Other, TypeOK
    <3>3. Phase \subseteq {"look", "confirm", "write"}
      BY DEF Phase
    <3>. QED  BY <3>1, <3>2, <3>3 DEF Other, TypeOK
  <2>2. /\ table' \in TableTypes \cup {"none", "backup"}
        /\ parts' \in Layouts /\ nodes' \in Layouts /\ Disjoint(parts')
        /\ table' \notin TableTypes => parts' = Empty
        /\ fs' \in [Places -> Filesystems \cup {Nothing}]
        /\ kind' \in [Filesystems -> Kinds]
        /\ busy' \subseteq Devices
    <3>1. CASE OthersPartition
      <4>1. PICK n \in Numbers \ busy, e \in {Nothing} \cup Free :
               (parts[n] = Nothing \/ e = Nothing) /\ Announce([parts EXCEPT ![n] = e])
        BY <3>1 DEF OthersPartition
      <4>2. CASE e = Nothing
        BY <3>1, <4>1, <4>2, TakeDisjoint DEF OthersPartition, Announce, TypeOK
      <4>3. CASE e # Nothing
        BY <3>1, <4>1, <4>3, PutDisjoint DEF OthersPartition, Announce, TypeOK
      <4>. QED  BY <4>2, <4>3
    <3>2. CASE OthersTable
      BY <3>2, ConstantTypes DEF OthersTable, Announce, TypeOK
    <3>3. CASE OthersFormat
      BY <3>3, ConstantTypes DEF OthersFormat, Unused, TypeOK
    <3>4. CASE OthersFormatDisk
      BY <3>4, ConstantTypes DEF OthersFormatDisk, Unused, TypeOK
    <3>5. CASE OthersMount
      BY <3>5, ConstantTypes DEF OthersMount, Present, TypeOK
    <3>6. CASE OthersUnmount
      BY <3>6 DEF OthersUnmount, TypeOK
    <3>. QED  BY <1>23, <3>1, <3>2, <3>3, <3>4, <3>5, <3>6 DEF Others
  <2>. QED  BY <2>1, <2>2 DEF TypeOK
<1>24. CASE UNCHANGED vars
  BY <1>24 DEF vars, TypeOK, Disjoint
<1>25. Commands \/ Others \/ UNCHANGED vars
  BY DEF Next
<1>. QED
  BY <1>25, <1>1, <1>2, <1>3, <1>4, <1>5, <1>6, <1>7, <1>8, <1>9, <1>10, <1>11, <1>12, <1>13, <1>14, <1>15,
     <1>16, <1>17, <1>18, <1>19, <1>20, <1>21, <1>22, <1>23, <1>24 DEF Commands

\* The disks to begin with have the right types.
LEMMA InitType ==
  ASSUME Init
  PROVE  TypeOK
<1>1. /\ table \in TableTypes \cup {"none"}
      /\ parts \in Layouts /\ nodes \in Layouts
      /\ fs \in [Places -> Filesystems \cup {Nothing}]
      /\ kind \in [Filesystems -> Kinds]
      /\ Disjoint(parts)
      /\ table \notin TableTypes => parts = Empty
  <2>1. PICK s \in Starts : table = s.table /\ parts = s.parts /\ nodes = s.parts /\ fs = s.fs
                            /\ kind = s.kind
    BY DEF Init
  <2>2. s \in [table : TableTypes \cup {"none"}, parts : Layouts,
               fs : [Places -> Filesystems \cup {Nothing}], kind : [Filesystems -> Kinds]]
    BY PartitionsConstants
  <2>3. Disjoint(s.parts) /\ (s.table = "none" => s.parts = Empty)
    BY PartitionsConstants
  <2>. QED  BY <2>1, <2>2, <2>3
<1>2. others \in 0 .. MaxOthers
  BY PartitionsConstants DEF Init
<1>3. /\ busy = {} /\ pc = "idle" /\ op = "none" /\ target = Whole /\ make = "none"
      /\ range = Nothing /\ shown = {} /\ todo = {} /\ gpt = FALSE /\ announced = {}
      /\ late = {} /\ blank = FALSE /\ erased = {} /\ kept = FALSE
  BY DEF Init
<1>. QED  BY <1>1, <1>2, <1>3, ConstantTypes DEF TypeOK

(* Type correctness of the partition table, the kernel's partitions and    *)
(* the commands on them.                                                   *)
THEOREM TypeCorrect == Spec => []TypeOK
<1>1. Init => TypeOK
  BY InitType
<1>. QED  BY <1>1, TypeStep, PTL DEF Spec

-----------------------------------------------------------------------------
(***************************************************************************)
(* The kernel's partitions.                                                *)
(***************************************************************************)
\* A table that the kernel is told of keeps what is mounted.
LEMMA AnnounceKnown ==
  ASSUME NEW layout, Announce(layout), busy' = busy,
         \A n \in busy \ {Whole} : n \in Numbers /\ layout[n] # Nothing
  PROVE  KernelKnows'
  BY DEF Announce, KernelKnows, Present

\* Reading the table anew keeps what is mounted.
LEMMA RereadKnown ==
  ASSUME TypeOK, KernelKnows, NEW stuck \in SUBSET Present, nodes' = Reread(stuck),
         UNCHANGED <<table, parts, busy>>
  PROVE  KernelKnows'
<1>1. busy' \subseteq {Whole} \cup Present'
  BY ConstantTypes DEF KernelKnows, Present, Reread
<1>2. table \in TableTypes => Reread(stuck) = nodes
  BY DEF KernelKnows, Reread, TypeOK, Layouts
<1>. QED  BY <1>1, <1>2 DEF KernelKnows

\* Steps that touch neither the table nor the kernel.
LEMMA UnchangedKnown ==
  ASSUME KernelKnows, UNCHANGED <<table, parts, nodes, busy>>
  PROVE  KernelKnows'
  BY DEF KernelKnows, Present

\* A partition that is put into the table, or taken out of it while unmounted.
LEMMA ChangeKnown ==
  ASSUME TypeOK, KernelKnows, table \in TableTypes, busy' = busy,
         NEW n \in Numbers, NEW e, (parts[n] = Nothing /\ e # Nothing) \/ n \notin busy,
         Announce([parts EXCEPT ![n] = e])
  PROVE  KernelKnows'
<1>1. \A m \in busy \ {Whole} : m \in Numbers /\ nodes[m] # Nothing
  BY DEF KernelKnows, Present
<1>2. \A m \in busy \ {Whole} : m \in Numbers /\ [parts EXCEPT ![n] = e][m] # Nothing
  BY <1>1 DEF KernelKnows, TypeOK, Layouts
<1>. QED  BY <1>2, AnnounceKnown

\* Every step keeps the kernel and the table together.
LEMMA KernelStep ==
  ASSUME TypeOK, KernelKnows, [Next]_vars
  PROVE  KernelKnows'
<1>. USE DEF disk
<1>1. CASE \/ CreateTable \/ CreatePartition \/ RemoveStart \/ EraseStart \/ ConvertStart
           \/ Preflight \/ Revalidate \/ GiveUp \/ List \/ LookAgain \/ WipePart \/ Verify
           \/ ConvertConfirmed \/ Fsck \/ Convert
  <2>1. UNCHANGED <<table, parts, nodes, busy>>
    BY <1>1 DEF CreateTable, CreatePartition, RemoveStart, EraseStart, ConvertStart, Start, Preflight,
       Revalidate, GiveUp, Forget, List, LookAgain, WipePart, Verify, ConvertConfirmed, Fsck, Convert
  <2>. QED  BY <2>1, UnchangedKnown
<1>2. CASE MkLabel
  BY <1>2, AnnounceKnown DEF MkLabel
<1>3. CASE MkPart
  <2>1. PICK n \in Numbers : parts[n] = Nothing /\ Announce([parts EXCEPT ![n] = range])
    BY <1>3 DEF MkPart
  <2>2. range # Nothing /\ table \in TableTypes /\ busy' = busy
    BY <1>3, ConstantTypes DEF MkPart, Free
  <2>. QED  BY <2>1, <2>2, ChangeKnown
<1>4. CASE Rm
  BY <1>4, ChangeKnown DEF Rm, TypeOK
<1>5. CASE Settle \/ Refresh
  BY <1>5, RereadKnown DEF Settle, Refresh
<1>6. CASE WipeDisk \/ Zap
  BY <1>6 DEF WipeDisk, Zap, KernelKnows, Present, TableTypes
<1>7. CASE OthersPartition
  BY <1>7, ChangeKnown DEF OthersPartition
<1>8. CASE OthersTable
  BY <1>8, AnnounceKnown DEF OthersTable
<1>9. CASE OthersFormat
  BY <1>9, UnchangedKnown DEF OthersFormat
<1>10. CASE OthersFormatDisk
  BY <1>10 DEF OthersFormatDisk, KernelKnows, TableTypes
<1>11. CASE OthersMount \/ OthersUnmount
  BY <1>11 DEF OthersMount, OthersUnmount, KernelKnows, Present
<1>12. CASE UNCHANGED vars
  BY <1>12, UnchangedKnown DEF vars
<1>13. Commands \/ Others \/ UNCHANGED vars
  BY DEF Next
<1>. QED
  BY <1>13, <1>1, <1>2, <1>3, <1>4, <1>5, <1>6, <1>7, <1>8, <1>9, <1>10, <1>11, <1>12
  DEF Commands, Others

-----------------------------------------------------------------------------
(***************************************************************************)
(* What a command works on.                                                *)
(***************************************************************************)
\* Every step keeps a command to what it works on.
LEMMA BoundStep ==
  ASSUME TypeOK, Bound, [Next]_vars
  PROVE  Bound'
<1>. USE DEF locals, history, report, Written
<1>1. CASE CreateTable \/ CreatePartition \/ RemoveStart \/ EraseStart \/ ConvertStart
  BY <1>1 DEF CreateTable, CreatePartition, RemoveStart, EraseStart, ConvertStart, Start, Bound, Present
<1>2. CASE Preflight \/ Revalidate \/ LookAgain \/ ConvertConfirmed \/ Fsck
  BY <1>2 DEF Preflight, Revalidate, LookAgain, ConvertConfirmed, Fsck, Bound, TypeOK
<1>3. CASE GiveUp \/ List \/ Verify \/ Convert
  BY <1>3 DEF GiveUp, Forget, List, Verify, Convert, End, Bound
<1>4. CASE MkLabel \/ MkPart \/ Rm
  BY <1>4 DEF MkLabel, MkPart, Rm, Bound
<1>5. CASE Settle
  BY <1>5 DEF Settle, End, Bound
<1>6. CASE WipePart
  <2>1. PICK n \in todo : todo' = todo \ {n}
    BY <1>6 DEF WipePart
  <2>2. pc = "parts" /\ op' = op /\ target' = target /\ blank' = blank
        /\ pc' = IF todo' # {} THEN "parts" ELSE IF target = Whole THEN "disk" ELSE "verify"
    BY <1>6 DEF WipePart
  <2>3. target # Whole => todo' = {}
    BY <2>1, <2>2 DEF Bound
  <2>. QED  BY <2>2, <2>3 DEF Bound
<1>7. CASE WipeDisk \/ Zap \/ Refresh
  BY <1>7 DEF WipeDisk, Zap, Refresh, Bound
<1>8. CASE Others
  BY <1>8 DEF Others, OthersPartition, OthersTable, OthersFormat, OthersFormatDisk, OthersMount,
     OthersUnmount, Other, Bound
<1>9. CASE UNCHANGED vars
  BY <1>9 DEF vars, Bound
<1>10. Commands \/ Others \/ UNCHANGED vars
  BY DEF Next
<1>. QED
  BY <1>10, <1>1, <1>2, <1>3, <1>4, <1>5, <1>6, <1>7, <1>8, <1>9 DEF Commands

-----------------------------------------------------------------------------
(***************************************************************************)
(* An erased disk.                                                         *)
(***************************************************************************)
\* Where erase is past its last probe.
Wiping == {"write", "parts", "disk", "zap", "refresh", "verify"}

\* While a command is past its probes, whatever others do is noted.
LEMMA OthersNoted ==
  ASSUME TypeOK, Others
  PROVE  /\ UNCHANGED <<pc, op, target, make, range, shown, todo, gpt, announced>>
         /\ late' = late \cup Phase /\ Written
         /\ pc \notin {"idle", "looked", "shown"} => "write" \in late'
         /\ pc = "shown" => "confirm" \in late'
         /\ pc = "looked" => "look" \in late'
<1>1. Other
  BY DEF Others, OthersPartition, OthersTable, OthersFormat, OthersFormatDisk, OthersMount,
     OthersUnmount
<1>2. /\ pc = "looked" => Phase = {"look"}
      /\ pc = "shown" => Phase = {"confirm"}
      /\ pc \notin {"idle", "looked", "shown"} => Phase = {"write"}
  BY DEF Phase
<1>. QED  BY <1>1, <1>2 DEF Other, locals

\* A disk of which no device is mounted.
LEMMA NothingMounted ==
  ASSUME KernelKnows, ~Active(Whole)
  PROVE  busy = {}
  BY DEF KernelKnows, Active, Tree

\* With nothing mounted, and nothing failing, the kernel takes over the table.
LEMMA RereadUnmounted ==
  ASSUME TypeOK, busy = {}
  PROVE  Reread({}) = parts
  BY DEF TypeOK, Layouts, Reread

\* Every step keeps what erase has reached.
LEMMA ErasingStep ==
  ASSUME TypeOK, KernelKnows, Bound, Erasing, [Next]_vars
  PROVE  Erasing'
<1>. USE DEF disk, locals, history, report, Written
<1>1. CASE CreateTable \/ CreatePartition \/ RemoveStart \/ EraseStart \/ ConvertStart
  BY <1>1 DEF CreateTable, CreatePartition, RemoveStart, EraseStart, ConvertStart, Start, Erasing
<1>2. CASE Revalidate
  <2>1. op = "erase" /\ target = Whole => busy = {}
    BY <1>2, NothingMounted DEF Revalidate, Guarded
  <2>. QED  BY <1>2, <2>1 DEF Revalidate, Erasing
<1>3. CASE GiveUp \/ List \/ Verify \/ Convert
  BY <1>3 DEF GiveUp, Forget, List, Verify, Convert, End, Erasing
<1>4. CASE MkLabel \/ MkPart \/ Rm \/ Preflight \/ ConvertConfirmed \/ Fsck
  BY <1>4 DEF MkLabel, MkPart, Rm, Preflight, ConvertConfirmed, Fsck, Bound, Erasing, Quiet
<1>5. CASE Settle
  BY <1>5 DEF Settle, End, Bound, Erasing
<1>6. CASE LookAgain
  BY <1>6 DEF LookAgain, Erasing, Quiet
<1>7. CASE WipePart
  <2>1. /\ UNCHANGED <<busy, op, target, late>>
        /\ pc = "parts" /\ (target = Whole => pc' \in {"parts", "disk"})
    BY <1>7 DEF WipePart
  <2>. QED  BY <2>1 DEF Erasing, Quiet
<1>8. CASE WipeDisk \/ Zap
  BY <1>8 DEF WipeDisk, Zap, Erasing, Quiet
<1>9. CASE Refresh
  <2>1. PICK stuck \in SUBSET Present : nodes' = Reread(stuck) /\ kept' = (stuck # {})
    BY <1>9 DEF Refresh
  <2>2. op = "erase" /\ target = Whole /\ Quiet /\ ~kept' => nodes' = parts
    BY <1>9, <2>1, RereadUnmounted DEF Refresh, Erasing
  <2>. QED  BY <1>9, <2>2 DEF Refresh, Erasing, Quiet
<1>10. CASE Others
  <2>1. pc \in Wiping => "write" \in late'
    BY <1>10, OthersNoted DEF Wiping
  <2>. QED  BY <1>10, <2>1, OthersNoted DEF Erasing, Quiet, Wiping
<1>11. CASE UNCHANGED vars
  BY <1>11 DEF vars, Erasing, Quiet
<1>12. Commands \/ Others \/ UNCHANGED vars
  BY DEF Next
<1>. QED
  BY <1>12, <1>1, <1>2, <1>3, <1>4, <1>5, <1>6, <1>7, <1>8, <1>9, <1>10, <1>11 DEF Commands

\* A disk without a signature has no table.
LEMMA NoTable ==
  ASSUME Signatures(Whole) = {}
  PROVE  table = "none"
<1>1. {Whole} \X ({table} \ {"none"}) = {}
  BY DEF Signatures
<1>. SUFFICES ASSUME table # "none" PROVE FALSE
  OBVIOUS
<1>2. <<Whole, table>> \in {Whole} \X ({table} \ {"none"})
  OBVIOUS
<1>. QED  BY <1>1, <1>2

\* No signature on the disk, and none of its partitions with the kernel.
LEMMA NoSignature ==
  ASSUME Signatures(Whole) = {}, nodes = Empty
  PROVE  LooksErased
<1>1. Whole \in Tree(Whole) /\ Content(Whole) = fs[0]
  BY DEF Tree, Content
<1>2. fs[0] = Nothing
  BY <1>1 DEF Signatures
<1>3. table = "none"
  BY NoTable
<1>4. Present = {}
  BY DEF Present, Empty
<1>. QED  BY <1>2, <1>3, <1>4 DEF LooksErased

\* No UUID comes to the disk a second time.
LEMMA OnceStep ==
  ASSUME TypeOK, Once, [Next]_vars
  PROVE  Once'
<1>. USE DEF disk
<1>1. ASSUME \A u \in Places : fs'[u] \in {fs[u], Nothing} PROVE Once'
  BY <1>1 DEF Once, Unique
<1>2. ASSUME NEW f \in Unused, NEW u \in Places, fs'[u] = f,
             \A v \in Places \ {u} : fs'[v] \in {fs[v], Nothing}
      PROVE  Once'
  BY <1>2 DEF Once, Unique, Unused
<1>3. CASE \/ CreateTable \/ CreatePartition \/ RemoveStart \/ EraseStart \/ ConvertStart
           \/ Preflight \/ Revalidate \/ GiveUp \/ List \/ LookAgain \/ Verify \/ Settle \/ Refresh
           \/ ConvertConfirmed \/ Fsck \/ Convert \/ MkPart \/ Rm \/ Zap
  <2>1. fs' = fs
    BY <1>3 DEF CreateTable, CreatePartition, RemoveStart, EraseStart, ConvertStart, Start, Preflight,
       Revalidate, GiveUp, Forget, List, LookAgain, Verify, Settle, Refresh, ConvertConfirmed, Fsck, Convert,
       MkPart, Rm, Zap
  <2>. QED  BY <2>1, <1>1
<1>4. CASE MkLabel \/ WipeDisk \/ OthersTable
  <2>1. fs' = [fs EXCEPT ![0] = Nothing]
    BY <1>4 DEF MkLabel, WipeDisk, OthersTable
  <2>. QED  BY <2>1, <1>1 DEF TypeOK
<1>5. CASE WipePart
  <2>1. PICK n \in todo \cap Present : fs' = [fs EXCEPT ![nodes[n][1]] = Nothing]
    BY <1>5 DEF WipePart
  <2>. QED  BY <2>1, <1>1 DEF TypeOK
<1>6. CASE OthersFormat
  <2>1. PICK n \in Present, f \in Unused :
           fs' = [u \in Places |-> IF u = nodes[n][1] THEN f
                                  ELSE IF u \in nodes[n][1] .. nodes[n][2] THEN Nothing ELSE fs[u]]
    BY <1>6 DEF OthersFormat
  <2>2. nodes[n][1] \in Places
    BY ExtentTypes DEF Present, TypeOK
  <2>. QED  BY <2>1, <2>2, <1>2
<1>7. CASE OthersFormatDisk
  <2>1. PICK f \in Unused : fs' = [u \in Places |-> IF u = 0 THEN f ELSE Nothing]
    BY <1>7 DEF OthersFormatDisk
  <2>2. 0 \in Places
    BY ConstantTypes
  <2>. QED  BY <2>1, <2>2, <1>2
<1>8. CASE OthersPartition \/ OthersMount \/ OthersUnmount \/ UNCHANGED vars
  BY <1>8 DEF OthersPartition, OthersMount, OthersUnmount, vars, Once
<1>9. Commands \/ Others \/ UNCHANGED vars
  BY DEF Next
<1>. QED
  BY <1>9, <1>3, <1>4, <1>5, <1>6, <1>7, <1>8 DEF Commands, Others

\* erase sets out to wipe all that it has announced, and leaves none of it.
LEMMA WipedStep ==
  ASSUME TypeOK, Bound, Once, Covered, Wiped, [Next]_vars
  PROVE  Wiped'
<1>. USE DEF disk, locals, history, report
<1>1. CASE CreateTable \/ CreatePartition \/ RemoveStart \/ EraseStart \/ ConvertStart
  BY <1>1 DEF CreateTable, CreatePartition, RemoveStart, EraseStart, ConvertStart, Start, Wiped
<1>2. CASE GiveUp \/ List \/ Verify \/ Convert
  BY <1>2 DEF GiveUp, Forget, List, Verify, Convert, End, Wiped
<1>3. CASE MkLabel \/ MkPart \/ Rm \/ Preflight \/ Revalidate \/ ConvertConfirmed \/ Fsck
  BY <1>3 DEF MkLabel, MkPart, Rm, Preflight, Revalidate, ConvertConfirmed, Fsck, Bound, Wiped, Quiet
<1>4. CASE Settle
  BY <1>4 DEF Settle, End, Bound, Wiped
<1>5. CASE LookAgain
  <2>. SUFFICES ASSUME target = Whole, Quiet, NEW u \in Places, fs[u] \in erased'
                PROVE  u \in Left'
    BY <1>5 DEF LookAgain, Wiped, Quiet
  <2>1. /\ todo' = Present /\ fs[u] \in announced /\ op = "erase" /\ pc = "write"
        /\ UNCHANGED <<nodes, fs>>
    BY <1>5 DEF LookAgain
  <2>2. PICK d \in Tree(Whole) : Content(d) = fs[u]
    BY <2>1 DEF Covered
  <2>3. fs[u] # Nothing
    BY <2>1, ConstantTypes DEF TypeOK
  <2>4. CASE d = Whole
    <3>1. u = 0
      BY <2>2, <2>3, <2>4, ConstantTypes DEF Content, Once, Unique
    <3>. QED  BY <3>1 DEF Left
  <2>5. CASE d \in Present
    <3>1. d \in Numbers /\ nodes[d] # Nothing /\ nodes[d][1] \in Places /\ d # Whole
      BY <2>5, ExtentTypes, ConstantTypes DEF Present, TypeOK
    <3>2. u = nodes[d][1]
      BY <2>2, <2>3, <3>1 DEF Content, Once, Unique
    <3>3. d \in todo' \cap Present'
      BY <2>1, <2>5 DEF Present
    <3>. QED  BY <2>1, <3>2, <3>3 DEF Left
  <2>. QED  BY <2>2, <2>4, <2>5 DEF Tree
<1>6. CASE WipePart
  <2>. SUFFICES ASSUME target = Whole, Quiet, NEW u \in Places, fs'[u] \in erased
                PROVE  u \in Left'
    BY <1>6 DEF WipePart, Wiped, Quiet
  <2>1. PICK n \in todo \cap Present :
           fs' = [fs EXCEPT ![nodes[n][1]] = Nothing] /\ todo' = todo \ {n}
    BY <1>6 DEF WipePart
  <2>2. pc = "parts" /\ op = "erase" /\ nodes' = nodes
    BY <1>6 DEF WipePart, Bound
  <2>3. u # nodes[n][1] /\ fs'[u] = fs[u]
    BY <2>1, ConstantTypes DEF TypeOK
  <2>4. u \in Left
    BY <2>2, <2>3 DEF Wiped
  <2>5. CASE u = 0
    BY <2>5 DEF Left
  <2>6. CASE u # 0
    <3>1. PICK m \in todo \cap Present : u = nodes[m][1]
      BY <2>4, <2>6 DEF Left
    <3>2. m \in todo' \cap Present'
      BY <2>1, <2>2, <2>3, <3>1 DEF Present
    <3>. QED  BY <2>2, <3>1, <3>2 DEF Left
  <2>. QED  BY <2>5, <2>6
<1>7. CASE WipeDisk
  <2>. SUFFICES ASSUME target = Whole, Quiet, op = "erase", NEW u \in Places, fs'[u] \in erased
                PROVE  FALSE
    BY <1>7 DEF WipeDisk, Wiped, Quiet
  <2>1. pc \in {"parts", "disk"} /\ todo = {} /\ fs' = [fs EXCEPT ![0] = Nothing]
    BY <1>7 DEF WipeDisk, Bound
  <2>2. Left = {0}
    BY <2>1 DEF Left
  <2>3. u # 0 /\ fs'[u] = fs[u]
    BY <2>1, ConstantTypes DEF TypeOK
  <2>. QED  BY <2>1, <2>2, <2>3 DEF Wiped
<1>8. CASE Zap \/ Refresh
  BY <1>8 DEF Zap, Refresh, Wiped, Quiet
<1>9. CASE Others
  <2>1. pc \in Wiping => "write" \in late'
    BY <1>9, OthersNoted DEF Wiping
  <2>. QED  BY <1>9, <2>1, OthersNoted DEF Wiped, Quiet, Wiping
<1>10. CASE UNCHANGED vars
  BY <1>10 DEF vars, Wiped, Quiet, Left, Present
<1>11. Commands \/ Others \/ UNCHANGED vars
  BY DEF Next
<1>. QED
  BY <1>11, <1>1, <1>2, <1>3, <1>4, <1>5, <1>6, <1>7, <1>8, <1>9, <1>10 DEF Commands

\* Every step keeps an erased disk erased, or somebody has written.
LEMMA ErasedStep ==
  ASSUME TypeOK, KernelKnows, Erasing, Wiped, Bound, ErasedStaysCreatable, [Next]_vars
  PROVE  ErasedStaysCreatable'
<1>. USE DEF disk, locals, history, report, Written
<1>. SUFFICES ASSUME blank'
              PROVE  /\ table' = "none" /\ \A u \in Places : fs'[u] \notin erased'
                     /\ kept' \/ LooksErased'
  BY DEF ErasedStaysCreatable
<1>1. CASE /\ blank /\ UNCHANGED <<table, erased, kept>> /\ \A u \in Places : fs'[u] \in {fs[u], Nothing}
           /\ kept \/ Present' \subseteq Present
  <2>1. \A u \in Places : fs'[u] \notin erased
    BY <1>1, ConstantTypes DEF ErasedStaysCreatable, TypeOK
  <2>2. 0 \in Places /\ fs'[0] \in {fs[0], Nothing}
    BY <1>1, ConstantTypes
  <2>. QED  BY <1>1, <2>1, <2>2 DEF ErasedStaysCreatable, LooksErased
<1>2. CASE \/ CreateTable \/ CreatePartition \/ RemoveStart \/ EraseStart \/ ConvertStart
           \/ Preflight \/ Revalidate \/ List \/ ConvertConfirmed \/ Fsck \/ Convert
  <2>1. UNCHANGED <<table, nodes, fs, blank, erased, kept>>
    BY <1>2 DEF CreateTable, CreatePartition, RemoveStart, EraseStart, ConvertStart, Start, Preflight,
       Revalidate, List, ConvertConfirmed, Fsck, Convert
  <2>. QED  BY <2>1, <1>1 DEF Present
<1>3. CASE MkLabel \/ MkPart \/ LookAgain \/ Others
  BY <1>3, OthersNoted DEF MkLabel, MkPart, LookAgain
<1>10. CASE GiveUp
  <2>1. UNCHANGED <<table, nodes, fs, blank, erased, kept>>
    BY <1>10 DEF GiveUp, Forget, disk
  <2>. QED  BY <2>1, <1>1 DEF Present
<1>4. CASE Rm
  BY <1>4 DEF Rm, ErasedStaysCreatable, TableTypes
<1>5. CASE WipePart \/ WipeDisk \/ Zap \/ Refresh
  <2>1. blank = FALSE /\ blank' = blank
    BY <1>5 DEF WipePart, WipeDisk, Zap, Refresh, Bound
  <2>. QED  BY <2>1
<1>6. CASE Settle
  <2>1. PICK stuck \in SUBSET Present : nodes' = Reread(stuck)
    BY <1>6 DEF Settle
  <2>2. blank /\ UNCHANGED <<table, fs, parts, erased, kept>>
    BY <1>6 DEF Settle
  <2>3. parts = Empty
    BY <2>2 DEF ErasedStaysCreatable, TypeOK, TableTypes
  <2>4. Present' \subseteq Present
    BY <2>1, <2>3 DEF Present, Reread, Empty
  <2>. QED  BY <2>2, <2>4, <1>1
<1>7. CASE Verify
  <2>1. UNCHANGED <<table, nodes, fs>>
    BY <1>7 DEF Verify
  <2>2. /\ Signatures(target) = {} /\ target = Whole /\ Quiet /\ pc = "verify" /\ op = "erase"
        /\ UNCHANGED <<erased, kept>>
    BY <1>7 DEF Verify, Quiet, Bound
  <2>3. kept \/ nodes = Empty
    BY <2>2 DEF Erasing
  <2>4. \A u \in Places : fs[u] \notin erased
    BY <2>2 DEF Wiped
  <2>5. table = "none"
    BY <2>2, NoTable
  <2>6. nodes = Empty => LooksErased'
    BY <2>1, <2>2, NoSignature DEF LooksErased, Present
  <2>. QED  BY <2>1, <2>2, <2>3, <2>4, <2>5, <2>6
<1>8. CASE UNCHANGED vars
  BY <1>8, <1>1 DEF vars, Present
<1>9. Commands \/ Others \/ UNCHANGED vars
  BY DEF Next
<1>. QED
  BY <1>9, <1>2, <1>3, <1>4, <1>5, <1>6, <1>7, <1>8, <1>10 DEF Commands

-----------------------------------------------------------------------------
(***************************************************************************)
(* What has been announced.                                                *)
(***************************************************************************)
\* What a device leads to is among the signatures.
LEMMA SignatureOf ==
  ASSUME NEW d, NEW e \in Tree(d), Content(e) # Nothing
  PROVE  <<e, Content(e)>> \in Signatures(d)
  BY DEF Signatures

\* A signature of a filesystem is the filesystem that the device leads to.
LEMMA SignatureIs ==
  ASSUME TypeOK, NEW d, NEW e, NEW f \in Filesystems, <<e, f>> \in Signatures(d)
  PROVE  e \in Tree(d) /\ f = Content(e)
<1>1. CASE <<e, f>> \in {<<g, Content(g)>> : g \in {h \in Tree(d) : Content(h) # Nothing}}
  BY <1>1
<1>2. CASE <<e, f>> \in {Whole} \X ({table} \ {"none"})
  <2>1. f = table /\ f # "none"
    BY <1>2
  <2>. QED  BY <2>1, PartitionsConstants DEF TypeOK
<1>. QED  BY <1>1, <1>2 DEF Signatures

\* A disk without a signature has neither a table nor a filesystem.
LEMMA NoSignatureNoTable ==
  ASSUME Signatures(Whole) = {}
  PROVE  table = "none" /\ fs[0] = Nothing
<1>1. Whole \in Tree(Whole) /\ Content(Whole) = fs[0]
  BY DEF Tree, Content
<1>. QED  BY <1>1, NoTable DEF Signatures

\* A disk that looks erased has no signature.
LEMMA ErasedNoSignature ==
  ASSUME LooksErased
  PROVE  Signatures(Whole) = {}
  BY DEF LooksErased, Signatures, Tree, Content

\* Every step keeps what create has found before it labels a disk.
LEMMA CreatingStep ==
  ASSUME TypeOK, Bound, Creating, [Next]_vars
  PROVE  Creating'
<1>. USE DEF disk, locals, history, report, Written
<1>1. CASE CreateTable
  <2>1. LooksErased' /\ pc' = "looked"
    BY <1>1 DEF CreateTable, Start, LooksErased, Present
  <2>. QED  BY <2>1 DEF Creating
<1>2. CASE CreatePartition \/ RemoveStart \/ EraseStart \/ ConvertStart
  BY <1>2 DEF CreatePartition, RemoveStart, EraseStart, ConvertStart, Start, Creating
<1>3. CASE Preflight
  <2>1. op = "create" /\ make # "none" /\ "look" \notin late => shown' = {}
    BY <1>3, ErasedNoSignature DEF Preflight, Guarded, Creating
  <2>. QED  BY <1>3, <2>1 DEF Preflight, Creating
<1>4. CASE Revalidate
  <2>1. op = "create" /\ make # "none" /\ "look" \notin late => table = "none" /\ fs[0] = Nothing
    BY <1>4, NoSignatureNoTable DEF Revalidate, Guarded, Creating
  <2>. QED  BY <1>4, <2>1 DEF Revalidate, Creating
<1>5. CASE GiveUp \/ List \/ Verify \/ Convert
  BY <1>5 DEF GiveUp, Forget, List, Verify, Convert, End, Creating
<1>6. CASE Settle
  BY <1>6 DEF Settle, End, Creating
<1>7. CASE MkLabel \/ MkPart \/ Rm
  BY <1>7 DEF MkLabel, MkPart, Rm, Creating
<1>8. CASE LookAgain \/ WipePart \/ WipeDisk \/ Zap \/ Refresh \/ ConvertConfirmed \/ Fsck
  BY <1>8 DEF LookAgain, WipePart, WipeDisk, Zap, Refresh, ConvertConfirmed, Fsck, Bound, Creating
<1>9. CASE Others
  BY <1>9, OthersNoted DEF Creating, Quiet
<1>10. CASE UNCHANGED vars
  BY <1>10 DEF vars, Creating, Quiet, LooksErased, Present
<1>11. Commands \/ Others \/ UNCHANGED vars
  BY DEF Next
<1>. QED
  BY <1>11, <1>1, <1>2, <1>3, <1>4, <1>5, <1>6, <1>7, <1>8, <1>9, <1>10 DEF Commands

\* Steps that neither write nor tell the kernel.
LEMMA ContentSame ==
  ASSUME UNCHANGED <<nodes, fs>>, NEW d
  PROVE  Content(d)' = Content(d) /\ Tree(d)' = Tree(d)
  BY DEF Content, Tree, Present

\* Every step keeps what has been announced.
LEMMA AnnouncedStep ==
  ASSUME TypeOK, Bound, Announced, [Next]_vars
  PROVE  Announced'
<1>. USE DEF disk, locals, history, report, Written
<1>1. CASE CreateTable \/ CreatePartition \/ RemoveStart \/ EraseStart
  BY <1>1 DEF CreateTable, CreatePartition, RemoveStart, EraseStart, Start, Announced
<1>2. CASE ConvertStart
  <2>1. op' = "convert" /\ pc' = "shown" /\ announced' = {Content(target')}
    BY <1>2 DEF ConvertStart, Start
  <2>2. UNCHANGED <<nodes, fs>>
    BY <1>2 DEF ConvertStart, Start
  <2>3. Content(target)' = Content(target')
    BY <2>2 DEF Content
  <2>. QED  BY <2>1, <2>3 DEF Announced
<1>3. CASE Preflight
  <2>1. UNCHANGED <<op, target>> /\ shown' = Signatures(Guarded) /\ announced' = Told /\ pc' = "shown"
        /\ op # "convert"
    BY <1>3 DEF Preflight, Bound
  <2>2. ASSUME op = "remove", NEW f \in Filesystems, <<target, f>> \in shown' PROVE f \in announced'
    <3>1. target \in Numbers /\ target # Whole
      BY <2>2, ConstantTypes DEF TypeOK
    <3>2. f = Content(target)
      BY <2>1, <2>2, SignatureIs
    <3>3. f # Nothing
      BY ConstantTypes
    <3>. QED  BY <2>1, <2>2, <3>1, <3>2, <3>3 DEF Told
  <2>3. ASSUME op = "erase", NEW d \in Devices, NEW f \in Filesystems, <<d, f>> \in shown'
        PROVE  f \in announced'
    <3>1. d \in Tree(target) /\ f = Content(d)
      BY <2>1, <2>3, SignatureIs DEF Guarded
    <3>2. f # Nothing
      BY ConstantTypes
    <3>. QED  BY <2>1, <2>3, <3>1, <3>2 DEF Told
  <2>. QED  BY <2>1, <2>2, <2>3 DEF Announced
<1>4. CASE Revalidate
  <2>1. UNCHANGED <<op, target, announced, nodes, fs>> /\ shown = Signatures(Guarded) /\ pc' = "write"
        /\ pc = "shown" /\ op # "convert"
    BY <1>4 DEF Revalidate
  <2>2. \A d : Content(d)' = Content(d) /\ Tree(d)' = Tree(d)
    BY <2>1, ContentSame
  <2>3. ASSUME op = "remove" PROVE Content(target) \in announced \cup {Nothing}
    <3>. SUFFICES ASSUME Content(target) # Nothing PROVE Content(target) \in announced
      OBVIOUS
    <3>1. target \in Numbers /\ target # Whole /\ target \in Devices
      BY <2>3, ConstantTypes DEF TypeOK
    <3>2. target \in Tree(Whole)
      BY <3>1 DEF Content, Tree, Present
    <3>3. <<target, Content(target)>> \in shown
      BY <2>1, <2>3, <3>2, SignatureOf DEF Guarded
    <3>. QED  BY <2>1, <2>3, <3>1, <3>3, ContentType DEF Announced
  <2>4. ASSUME op = "erase", NEW d \in Tree(target) PROVE Content(d) \in announced \cup {Nothing}
    <3>. SUFFICES ASSUME Content(d) # Nothing PROVE Content(d) \in announced
      OBVIOUS
    <3>1. d \in Devices
      BY <2>4, TreeType DEF TypeOK
    <3>2. <<d, Content(d)>> \in shown
      BY <2>1, <2>4, SignatureOf DEF Guarded
    <3>. QED  BY <2>1, <2>4, <3>1, <3>2, ContentType DEF Announced
  <2>5. Content(target)' = Content(target) /\ Tree(target)' = Tree(target)
    BY <2>1, <2>2 DEF Content, Tree, Present
  <2>. QED  BY <2>1, <2>2, <2>3, <2>4, <2>5 DEF Announced
<1>5. CASE GiveUp \/ List \/ Verify \/ Convert
  BY <1>5 DEF GiveUp, Forget, List, Verify, Convert, End, Announced
<1>6. CASE Settle
  BY <1>6 DEF Settle, End, Bound, Announced
<1>7. CASE MkLabel \/ MkPart \/ Rm \/ WipeDisk \/ Zap \/ Refresh
  BY <1>7 DEF MkLabel, MkPart, Rm, WipeDisk, Zap, Refresh, Bound, Announced
<1>8. CASE LookAgain \/ ConvertConfirmed \/ Fsck
  <2>1. UNCHANGED <<op, target, announced, nodes, fs, late>>
    BY <1>8 DEF LookAgain, ConvertConfirmed, Fsck
  <2>2. /\ \A d : Content(d)' = Content(d)
        /\ Content(target)' = Content(target) /\ Tree(target)' = Tree(target)
    BY <2>1, ContentSame DEF Content, Tree, Present
  <2>3. \/ op = "erase" /\ pc = "write" /\ pc' = "parts"
        \/ op = "convert" /\ pc' \notin {"write", "parts", "disk"}
    BY <1>8 DEF LookAgain, ConvertConfirmed, Fsck, Bound
  <2>. QED  BY <2>1, <2>2, <2>3 DEF Announced, Quiet
<1>9. CASE WipePart
  <2>1. PICK n \in todo \cap Present : fs' = [fs EXCEPT ![nodes[n][1]] = Nothing]
    BY <1>9 DEF WipePart
  <2>2. UNCHANGED <<op, target, announced, nodes, late>> /\ pc = "parts" /\ op = "erase" /\ pc' # "shown"
    BY <1>9 DEF WipePart, Bound
  <2>3. Tree(target)' = Tree(target)
    BY <2>2 DEF Tree, Present
  <2>4. ASSUME NEW d \in Tree(target) PROVE Content(d)' \in {Content(d), Nothing}
    <3>1. d \in Devices
      BY TreeType DEF TypeOK, Devices
    <3>2. CASE d = Whole
      BY <2>1, <3>2, ConstantTypes DEF Content, TypeOK
    <3>3. CASE d # Whole /\ nodes[d] = Nothing
      BY <2>2, <3>3 DEF Content
    <3>4. CASE d # Whole /\ nodes[d] # Nothing
      <4>1. nodes[d][1] \in Places
        BY <3>1, <3>4, ExtentTypes DEF TypeOK, Devices
      <4>2. Content(d) = fs[nodes[d][1]] /\ Content(d)' = fs'[nodes[d][1]]
        BY <2>2, <3>4 DEF Content
      <4>. QED  BY <2>1, <4>1, <4>2 DEF TypeOK
    <3>. QED  BY <3>2, <3>3, <3>4
  <2>5. Quiet' => \A d \in Tree(target) : Content(d)' \in announced \cup {Nothing}
    BY <2>2, <2>4 DEF Announced, Quiet
  <2>. QED  BY <2>2, <2>3, <2>5 DEF Announced
<1>10. CASE Others
  <2>1. pc \in {"write", "parts", "disk"} => ~Quiet'
    BY <1>10, OthersNoted DEF Quiet
  <2>2. op = "convert" => late' \cap {"confirm", "write"} # {}
    BY <1>10, OthersNoted DEF Bound
  <2>3. UNCHANGED <<pc, op, target, shown, announced>>
    BY <1>10, OthersNoted
  <2>. QED  BY <2>1, <2>2, <2>3 DEF Announced
<1>11. CASE UNCHANGED vars
  <2>1. UNCHANGED <<pc, op, target, shown, announced, nodes, fs, late>>
    BY <1>11 DEF vars
  <2>2. /\ \A d : Content(d)' = Content(d)
        /\ Content(target)' = Content(target) /\ Tree(target)' = Tree(target)
    BY <2>1, ContentSame DEF Content, Tree, Present
  <2>. QED  BY <2>1, <2>2 DEF Announced, Quiet
<1>12. Commands \/ Others \/ UNCHANGED vars
  BY DEF Next
<1>. QED
  BY <1>12, <1>1, <1>2, <1>3, <1>4, <1>5, <1>6, <1>7, <1>8, <1>9, <1>10, <1>11 DEF Commands

\* What is announced for erase is among what was shown, and so on the device
\* after the second look.
LEMMA CoveredStep ==
  ASSUME TypeOK, Bound, Covered, [Next]_vars
  PROVE  Covered'
<1>. USE DEF disk, locals, history, report
<1>1. CASE CreateTable \/ CreatePartition \/ RemoveStart \/ EraseStart \/ ConvertStart
  BY <1>1 DEF CreateTable, CreatePartition, RemoveStart, EraseStart, ConvertStart, Start, Covered
<1>2. CASE GiveUp \/ List \/ Verify \/ Convert
  BY <1>2 DEF GiveUp, Forget, List, Verify, Convert, End, Covered
<1>3. CASE Preflight
  <2>. SUFFICES ASSUME op = "erase", NEW f \in announced'
                PROVE  \E d \in Devices : <<d, f>> \in shown'
    BY <1>3 DEF Preflight, Covered
  <2>1. shown' = Signatures(target) /\ f \in Told
    BY <1>3 DEF Preflight, Guarded
  <2>2. PICK d \in Tree(target) : f = Content(d) /\ f # Nothing
    BY <2>1 DEF Told
  <2>3. d \in Devices
    BY TreeType DEF TypeOK
  <2>. QED  BY <2>1, <2>2, <2>3, SignatureOf
<1>4. CASE Revalidate
  <2>. SUFFICES ASSUME op = "erase", NEW f \in announced
                PROVE  \E d \in Tree(target) : Content(d) = f
    BY <1>4, ContentSame DEF Revalidate, Covered, Tree, Present
  <2>1. PICK d \in Devices : <<d, f>> \in shown
    BY <1>4 DEF Revalidate, Covered
  <2>2. <<d, f>> \in Signatures(target)
    BY <1>4, <2>1 DEF Revalidate, Guarded
  <2>. QED  BY <2>2, SignatureIs DEF TypeOK
<1>5. CASE \/ MkLabel \/ MkPart \/ Rm \/ LookAgain \/ WipePart \/ WipeDisk \/ Zap \/ Refresh
           \/ ConvertConfirmed \/ Fsck
  BY <1>5 DEF MkLabel, MkPart, Rm, LookAgain, WipePart, WipeDisk, Zap, Refresh, ConvertConfirmed, Fsck,
     Covered
<1>6. CASE Settle
  BY <1>6 DEF Settle, End, Covered
<1>7. CASE Others
  <2>1. pc = "write" => ~Quiet'
    BY <1>7, OthersNoted DEF Quiet
  <2>. QED  BY <1>7, <2>1, OthersNoted DEF Covered
<1>8. CASE UNCHANGED vars
  <2>1. UNCHANGED <<pc, op, target, shown, announced, nodes, fs, late>>
    BY <1>8 DEF vars
  <2>. QED  BY <2>1 DEF Covered, Quiet, Tree, Present, Content
<1>9. Commands \/ Others \/ UNCHANGED vars
  BY DEF Next
<1>. QED
  BY <1>9, <1>1, <1>2, <1>3, <1>4, <1>5, <1>6, <1>7, <1>8 DEF Commands

-----------------------------------------------------------------------------
(***************************************************************************)
(* The theorems.                                                           *)
(***************************************************************************)
\* The invariant holds.
LEMMA Inductive == Spec => []IInv
<1>1. Init => IInv
  <2>1. ASSUME Init PROVE TypeOK
    BY <2>1, InitType
  <2>2. ASSUME Init
        PROVE  /\ KernelKnows /\ Bound /\ Erasing /\ Wiped /\ Creating /\ Announced /\ Covered
               /\ ErasedStaysCreatable
    BY <2>2 DEF Init, KernelKnows, Bound, Erasing, Wiped, Creating, Announced, Covered,
       ErasedStaysCreatable
  <2>3. ASSUME Init PROVE Once
    BY <2>3, PartitionsConstants DEF Init, Once
  <2>. QED  BY <2>1, <2>2, <2>3 DEF IInv
<1>2. IInv /\ [Next]_vars => IInv'
  BY TypeStep, KernelStep, BoundStep, OnceStep, ErasingStep, WipedStep, CreatingStep, AnnouncedStep,
     CoveredStep, ErasedStep DEF IInv
<1>. QED  BY <1>1, <1>2, PTL DEF Spec

(* After erase has reported success on a disk, and until somebody writes   *)
(* to it, there is no table and nothing is left of what was to be wiped,   *)
(* though the table no longer tells where it was; and create finds no      *)
(* partition and no signature, if the kernel has dropped the partitions.   *)
THEOREM ErasedDisksCreatable == Spec => []ErasedStaysCreatable
<1>1. IInv => ErasedStaysCreatable
  BY DEF IInv
<1>. QED  BY <1>1, Inductive, PTL

\* A step that writes no filesystem and takes no partition loses nothing.
LEMMA NothingLost ==
  ASSUME UNCHANGED <<fs, kind>>,
         \A n \in Numbers : parts[n] # Nothing => parts'[n] = parts[n]
  PROVE  Lost = {}
  BY DEF Lost, Reach

\* What a step of a command loses.
LEMMA LosesAnnounced ==
  ASSUME IInv, Commands, late \cap Unseen = {}
  PROVE  Lost \subseteq announced
<1>. USE DEF disk, locals, history, report, Written
<1>1. CASE \/ CreateTable \/ CreatePartition \/ RemoveStart \/ EraseStart \/ ConvertStart
           \/ Preflight \/ Revalidate \/ GiveUp \/ Settle \/ List \/ LookAgain \/ Refresh \/ Verify
           \/ ConvertConfirmed \/ Fsck
  <2>1. UNCHANGED <<fs, kind, parts>>
    BY <1>1 DEF CreateTable, CreatePartition, RemoveStart, EraseStart, ConvertStart, Start, Preflight,
       Revalidate, GiveUp, Forget, Settle, List, LookAgain, Refresh, Verify, ConvertConfirmed, Fsck
  <2>. QED  BY <2>1, NothingLost
<1>2. CASE MkLabel
  <2>1. table = "none" /\ fs[0] = Nothing
    BY <1>2 DEF MkLabel, Unseen, IInv, Creating, Quiet
  <2>2. parts = Empty
    BY <2>1 DEF IInv, TypeOK, TableTypes
  <2>3. Reach = {}
    BY <2>1, <2>2 DEF Reach, Empty
  <2>. QED  BY <2>3 DEF Lost
<1>3. CASE MkPart
  <2>1. PICK n \in Numbers : parts[n] = Nothing /\ Announce([parts EXCEPT ![n] = range])
    BY <1>3 DEF MkPart
  <2>2. \A m \in Numbers : parts[m] # Nothing => parts'[m] = parts[m]
    BY <2>1 DEF Announce, IInv, TypeOK, Layouts
  <2>. QED  BY <1>3, <2>2, NothingLost DEF MkPart
<1>4. CASE Rm
  <2>1. Content(target) \in announced \cup {Nothing}
    BY <1>4 DEF Rm, Unseen, IInv, Announced, Quiet
  <2>2. target \in Numbers /\ target # Whole /\ parts[target] # Nothing /\ nodes = parts
    BY <1>4, ConstantTypes DEF Rm, IInv, TypeOK, KernelKnows
  <2>3. Content(target) = fs[parts[target][1]]
    BY <2>2 DEF Content
  <2>4. \A m \in Numbers : m # target => parts'[m] = parts[m]
    BY <1>4 DEF Rm, Announce, IInv, TypeOK, Layouts
  <2>5. UNCHANGED <<fs, kind>>
    BY <1>4 DEF Rm
  <2>6. ASSUME NEW f \in Lost PROVE f = Content(target)
    BY <2>2, <2>3, <2>4, <2>5 DEF Lost, Reach
  <2>7. Nothing \notin Lost
    BY DEF Lost, Reach
  <2>. QED  BY <2>1, <2>6, <2>7
<1>5. CASE WipePart
  <2>1. PICK n \in todo \cap Present : fs' = [fs EXCEPT ![nodes[n][1]] = Nothing]
    BY <1>5 DEF WipePart
  <2>2. pc = "parts" /\ op = "erase" /\ Quiet /\ UNCHANGED <<parts, kind>>
    BY <1>5 DEF WipePart, IInv, Bound, Unseen, Quiet
  <2>3. n \in Numbers /\ n # Whole /\ nodes[n] # Nothing
    BY <2>1, ConstantTypes DEF Present
  <2>4. n \in Tree(target)
    BY <2>1, <2>2 DEF IInv, Bound, Tree
  <2>5. Content(n) = fs[nodes[n][1]] /\ Content(n) \in announced \cup {Nothing}
    BY <2>2, <2>3, <2>4 DEF Content, IInv, Announced
  <2>6. \A u \in Places : u # nodes[n][1] => fs'[u] = fs[u]
    BY <2>1 DEF IInv, TypeOK
  <2>7. \A m \in Numbers : parts[m] # Nothing => parts[m][1] \in Places
    BY ExtentTypes DEF IInv, TypeOK
  <2>8. ASSUME NEW f \in Lost PROVE f = Content(n)
    BY <2>2, <2>5, <2>6, <2>7, ConstantTypes DEF Lost, Reach
  <2>9. Nothing \notin Lost
    BY DEF Lost, Reach
  <2>. QED  BY <2>5, <2>8, <2>9
<1>6. CASE WipeDisk
  <2>1. pc \in {"parts", "disk"} /\ op = "erase" /\ target = Whole /\ Quiet
    BY <1>6 DEF WipeDisk, IInv, Bound, Unseen, Quiet
  <2>2. \A d \in Tree(Whole) : Content(d) \in announced \cup {Nothing}
    BY <2>1 DEF IInv, Announced
  <2>3. fs[0] \in announced \cup {Nothing}
    BY <2>2 DEF Tree, Content
  <2>4. ASSUME NEW n \in Numbers, parts[n] # Nothing PROVE fs[parts[n][1]] \in announced \cup {Nothing}
    <3>1. table \in TableTypes
      BY <2>4 DEF IInv, TypeOK, Empty
    <3>2. nodes = parts
      BY <3>1 DEF IInv, KernelKnows
    <3>3. n \in Tree(Whole) /\ Content(n) = fs[parts[n][1]]
      BY <2>4, <3>2, ConstantTypes DEF Tree, Present, Content
    <3>. QED  BY <2>2, <3>3
  <2>. QED  BY <2>3, <2>4 DEF Lost, Reach
<1>7. CASE Zap
  <2>1. parts = Empty
    BY <1>7 DEF Zap, IInv, Bound, Erasing, Unseen, Quiet
  <2>2. \A n \in Numbers : parts[n] # Nothing => parts'[n] = parts[n]
    BY <2>1 DEF Empty
  <2>. QED  BY <1>7, <2>2, NothingLost DEF Zap
<1>8. CASE Convert
  <2>1. announced = {Content(target)}
    BY <1>8 DEF Convert, IInv, Bound, Announced, Unseen
  <2>2. Content(target) \in Filesystems
    BY <1>8 , ContentType, ConstantTypes DEF Convert, Convertible, Ext4, IInv, TypeOK
  <2>3. UNCHANGED <<fs, parts>> /\ \A f \in Filesystems \ {Content(target)} : kind'[f] = kind[f]
    BY <1>8 DEF Convert, IInv, TypeOK
  <2>4. Reach \subseteq Filesystems
    <3>1. \A m \in Numbers : parts[m] # Nothing => parts[m][1] \in Places
      BY ExtentTypes DEF IInv, TypeOK
    <3>. QED  BY <3>1, ConstantTypes DEF Reach, IInv, TypeOK
  <2>5. Reach' = Reach
    BY <2>3 DEF Reach
  <2>. QED  BY <2>1, <2>3, <2>4, <2>5 DEF Lost
<1>. QED
  BY <1>1, <1>2, <1>3, <1>4, <1>5, <1>6, <1>7, <1>8 DEF Commands

(* No step of create, remove, erase or convert loses or converts a         *)
(* filesystem that the user has not been told of, unless others changed    *)
(* something at a moment that the command's probes cannot see.             *)
THEOREM AnnouncedLossesOnly == Spec => OnlyAnnouncedLost
<1>1. IInv /\ [Next]_vars => [Commands => Lost \subseteq announced \/ late \cap Unseen # {}]_vars
  BY LosesAnnounced
<1>. QED  BY <1>1, Inductive, PTL DEF OnlyAnnouncedLost, Spec
=============================================================================
