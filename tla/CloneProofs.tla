----------------------------- MODULE CloneProofs -----------------------------
(***************************************************************************)
(* Theorems about clone, for every set of disks, pairs, blocks and         *)
(* cloners.                                                                *)
(***************************************************************************)
EXTENDS Clone, TLAPS

\* What the constants give.
LEMMA ConstantTypes ==
  /\ AnyPair \in Pairs
  /\ \A p \in Pairs : p \in Disks \X Disks /\ p[1] \in Disks /\ p[2] \in Disks /\ p[1] # p[2]
  /\ Untried \in Maps /\ NoMap \notin Maps
  BY CloneConstants DEF AnyPair, Untried, Maps

\* The source and the destination of a cloner are two disks.
LEMMA PairType ==
  ASSUME TypeOK, NEW c \in Cloners
  PROVE  /\ pair[c] \in Pairs /\ Src(c) = pair[c][1] /\ Dst(c) = pair[c][2]
         /\ Src(c) \in Disks /\ Dst(c) \in Disks /\ Src(c) # Dst(c)
  BY ConstantTypes DEF TypeOK, Src, Dst

\* A cloner that ends has its types.
LEMMA EndType ==
  ASSUME TypeOK, NEW c \in Cloners, End(c)
  PROVE  /\ lock' \in [Disks -> Cloners \cup {NoCloner}]
         /\ pc' \in [Cloners -> PCs] /\ pair' \in [Cloners -> Pairs]
         /\ mem' \in [Cloners -> Maps] /\ todo' \in [Cloners -> SUBSET Blocks]
         /\ failed' \in [Cloners -> BOOLEAN]
  BY ConstantTypes DEF TypeOK, End, Goto, PCs

\* What a step of ddrescue leaves in memory and on the disks.
LEMMA CopyType ==
  ASSUME TypeOK, NEW c \in Cloners, NEW b \in Blocks, CopyBlock(c, b) \/ ReadFails(c, b)
  PROVE  TypeOK'
  <1> USE ConstantTypes, PairType
  <1>1. \A s \in {"-", "+"} : [mem EXCEPT ![c][b] = s] \in [Cloners -> Maps]
    BY DEF TypeOK, Maps
  <1>2. [todo EXCEPT ![c] = @ \ {b}] \in [Cloners -> SUBSET Blocks]
    BY DEF TypeOK
  <1>3. CASE CopyBlock(c, b)
    <2>1. [vol EXCEPT ![Dst(c)][b] = vol[Src(c)][b]] \in [Disks -> [Blocks -> Values]]
      BY DEF TypeOK
    <2> QED
      BY <1>1, <1>2, <1>3, <2>1 DEF TypeOK, CopyBlock
  <1>4. CASE ReadFails(c, b)
    BY <1>1, <1>2, <1>4 DEF TypeOK, ReadFails
  <1> QED
    BY <1>3, <1>4

\* The other steps of a cloner keep the types.
LEMMA StepType ==
  ASSUME TypeOK, NEW c \in Cloners,
         \/ Bind(c) \/ BindFails(c) \/ StartPass(c) \/ EndPass(c) \/ Save(c)
         \/ Sync(c) \/ Complete(c) \/ Incomplete(c) \/ Release(c) \/ Interrupt(c)
         \/ \E p \in Pairs : Begin(c, p)
  PROVE  TypeOK'
  <1> USE ConstantTypes, PairType DEF Goto, PCs
  <1>1. CASE Bind(c)
    BY <1>1 DEF TypeOK, Bind
  <1>2. CASE BindFails(c) \/ Incomplete(c) \/ Release(c) \/ Interrupt(c)
    BY <1>2, EndType DEF TypeOK, BindFails, Incomplete, Release, Interrupt
  <1>3. CASE StartPass(c)
    <2>1. Resumed(pair[c]) \in Maps
      BY DEF TypeOK, Resumed
    <2> QED
      BY <1>3, <2>1 DEF TypeOK, StartPass
  <1>4. CASE EndPass(c) \/ Save(c)
    <2>1. platter' \in [Disks -> [Blocks -> Values]] /\ mapfile' \in [Pairs -> Maps \cup {NoMap}]
      <3>1. Saved(c)
        BY <1>4 DEF EndPass, Save
      <3>2. vol[Dst(c)] \in [Blocks -> Values] /\ mem[c] \in Maps
        BY DEF TypeOK
      <3>3. platter \in [Disks -> [Blocks -> Values]] /\ mapfile \in [Pairs -> Maps \cup {NoMap}]
        BY DEF TypeOK
      <3> QED
        BY <3>1, <3>2, <3>3 DEF Saved
    <2> QED
      BY <1>4, <2>1 DEF TypeOK, EndPass, Save
  <1>5. CASE Sync(c)
    BY <1>5 DEF TypeOK, Sync, Synced
  <1>6. CASE Complete(c)
    BY <1>6 DEF TypeOK, Complete
  <1>7. CASE \E p \in Pairs : Begin(c, p)
    BY <1>7 DEF TypeOK, Begin
  <1> QED
    BY <1>1, <1>2, <1>3, <1>4, <1>5, <1>6, <1>7

\* Power losses and other programs keep the types.
LEMMA WorldType ==
  ASSUME TypeOK, PowerLoss \/ \E d \in Disks, b \in Blocks : Change(d, b)
  PROVE  TypeOK'
  <1>1. CASE PowerLoss
    <2>1. /\ vol' \in [Disks -> [Blocks -> Values]] /\ platter' \in [Disks -> [Blocks -> Values]]
          /\ touched' \subseteq Pairs
      BY <1>1 DEF TypeOK, PowerLoss
    <2>2. meta' \in [Pairs -> {"none", "fresh", "bound", "torn"}]
      BY <1>1 DEF PowerLoss
    <2>3. mapfile' \in [Pairs -> Maps \cup {NoMap}]
      <3>1. mapfile \in [Pairs -> Maps \cup {NoMap}]
        BY DEF TypeOK
      <3>2. \A p \in Pairs : [mapfile EXCEPT ![p] = NoMap] \in [Pairs -> Maps \cup {NoMap}]
        BY <3>1
      <3> QED
        BY <1>1, <3>1, <3>2 DEF PowerLoss
    <2>4. /\ lock' \in [Disks -> Cloners \cup {NoCloner}]
          /\ pc' \in [Cloners -> PCs] /\ pair' \in [Cloners -> Pairs]
          /\ mem' \in [Cloners -> Maps] /\ todo' \in [Cloners -> SUBSET Blocks]
          /\ failed' \in [Cloners -> BOOLEAN]
      BY <1>1, ConstantTypes DEF PowerLoss, PCs
    <2> QED
      BY <2>1, <2>2, <2>3, <2>4 DEF TypeOK
  <1>2. ASSUME NEW d \in Disks, NEW b \in Blocks, Change(d, b) PROVE TypeOK'
    BY <1>2 DEF TypeOK, Change
  <1> QED
    BY <1>1, <1>2

\* Types hold at first.
LEMMA InitType == Init => TypeOK
  BY ConstantTypes DEF Init, TypeOK, PCs

\* Every step keeps the types.
LEMMA NextType == TypeOK /\ [Next]_vars => TypeOK'
  <1> SUFFICES ASSUME TypeOK, [Next]_vars PROVE TypeOK'
    OBVIOUS
  <1>1. CASE Next
    BY <1>1, CopyType, StepType, WorldType DEF Next, Step
  <1>2. CASE UNCHANGED vars
    BY <1>2 DEF TypeOK, vars
  <1> QED
    BY <1>1, <1>2

\* clone keeps its types.
THEOREM TypeCorrect == Spec => []TypeOK
  BY InitType, NextType, PTL DEF Spec

-----------------------------------------------------------------------------
(***************************************************************************)
(* The inductive invariant.                                                *)
(***************************************************************************)
\* A cloner at work has the lock of its destination; so no other one has the
\* same pair.
Locked(c) == pc[c] # "idle" => lock[Dst(c)] = c

\* Once bound, the metadata of its pair is there.
Bound(c) == pc[c] \notin {"idle", "bind"} => meta[pair[c]] \in {"fresh", "bound"}

\* A block whose copying was not tried is still to be tried in this pass.
Tried(c) == Copying(c) => \A b \in Blocks : mem[c][b] = "?" => b \in todo[c]

\* After two passes without an error the mapfile has no untried block, and no
\* bad one when the clone is complete and the mapfile was read.
Finished(c) ==
    /\ pc[c] \in {"sync", "parse", "complete", "unread"} /\ ~failed[c] =>
           /\ mapfile[pair[c]] # NoMap
           /\ \A b \in Blocks : mapfile[pair[c]][b] # "?"
    /\ pc[c] \in {"complete", "unread"} => ~failed[c]
    /\ pc[c] = "complete" => \A b \in Blocks : mapfile[pair[c]][b] # "-"

\* What the map in memory calls copied is on the destination.
MemTruthful(c) ==
    Copying(c) /\ pair[c] \notin touched =>
        \A b \in Blocks : mem[c][b] = "+" => vol[Dst(c)][b] = vol[Src(c)][b]

ClonerInv(c) ==
    Locked(c) /\ Bound(c) /\ Tried(c) /\ Finished(c) /\ MemTruthful(c)

CloneInv == TypeOK /\ (\A c \in Cloners : ClonerInv(c)) /\ MapTruthful

\* The inductive invariant holds at first.
LEMMA InitInv == Init => CloneInv
  <1> SUFFICES ASSUME Init PROVE CloneInv
    OBVIOUS
  <1>1. TypeOK
    BY InitType
  <1>2. ASSUME NEW c \in Cloners PROVE ClonerInv(c)
    BY <1>1, <1>2 DEF Init, ClonerInv, Locked, Bound, Tried, Finished, MemTruthful, Copying
  <1>3. MapTruthful
    BY DEF Init, MapTruthful
  <1> QED
    BY <1>1, <1>2, <1>3 DEF CloneInv

\* Two cloners at work have different destinations, hence different pairs.
LEMMA Apart ==
  ASSUME CloneInv, NEW c \in Cloners, NEW e \in Cloners, c # e,
         pc[c] # "idle", pc[e] # "idle"
  PROVE  Dst(c) # Dst(e) /\ pair[c] # pair[e]
  BY DEF CloneInv, ClonerInv, Locked, Dst

\* A cloner that a step leaves alone keeps its invariant, if the step leaves
\* its destination locked, its metadata and mapfile in place, and either
\* touches its pair or does not change its two disks.
LEMMA OtherCloner ==
  ASSUME CloneInv, NEW e \in Cloners,
         pc'[e] = pc[e], pair'[e] = pair[e], mem'[e] = mem[e], todo'[e] = todo[e],
         failed'[e] = failed[e],
         pc[e] # "idle" => /\ lock'[Dst(e)] = lock[Dst(e)]
                           /\ mapfile'[pair[e]] = mapfile[pair[e]]
                           /\ meta'[pair[e]] = meta[pair[e]] \/ meta'[pair[e]] = "bound"
                           /\ \/ pair[e] \in touched'
                              \/ /\ pair[e] \notin touched
                                 /\ vol'[Dst(e)] = vol[Dst(e)] /\ vol'[Src(e)] = vol[Src(e)]
  PROVE  ClonerInv(e)'
  <1> Dst(e)' = Dst(e) /\ Src(e)' = Src(e) /\ Copying(e)' = Copying(e)
    BY DEF Dst, Src, Copying
  <1>0. ClonerInv(e) /\ (Copying(e) => pc[e] # "idle")
    BY DEF CloneInv, Copying
  <1>1. Locked(e)' /\ Bound(e)'
    BY <1>0 DEF ClonerInv, Locked, Bound
  <1>2. Tried(e)' /\ Finished(e)'
    BY <1>0 DEF ClonerInv, Tried, Finished
  <1>3. MemTruthful(e)'
    BY <1>0 DEF ClonerInv, MemTruthful
  <1> QED
    BY <1>1, <1>2, <1>3 DEF ClonerInv

\* MapTruthful for one pair.
Truthful(p) ==
    p \notin touched /\ mapfile[p] # NoMap =>
        \A b \in Blocks : mapfile[p][b] = "+" =>
            vol[p[2]][b] = vol[p[1]][b] /\ platter[p[2]][b] = vol[p[1]][b]

\* A cloner that ends leaves the invariant.
LEMMA EndInv ==
  ASSUME CloneInv, TypeOK', NEW c \in Cloners,
         End(c), UNCHANGED <<vol, platter, meta, mapfile, touched>>
  PROVE  CloneInv'
  <1>1. ClonerInv(c)'
    <2>1. pc'[c] = "idle"
      BY DEF End, Goto, CloneInv, TypeOK
    <2> QED
      BY <2>1 DEF ClonerInv, Locked, Bound, Tried, Finished, MemTruthful, Copying
  <1>2. ASSUME NEW e \in Cloners, e # c PROVE ClonerInv(e)'
    <2>1. /\ pc'[e] = pc[e] /\ pair'[e] = pair[e] /\ mem'[e] = mem[e] /\ todo'[e] = todo[e]
          /\ failed'[e] = failed[e]
      BY <1>2 DEF End, Goto, CloneInv, TypeOK
    <2>2. pc[e] # "idle" => lock'[Dst(e)] = lock[Dst(e)]
      BY <1>2, PairType DEF End, CloneInv, ClonerInv, Locked
    <2> QED
      BY <2>1, <2>2, OtherCloner
  <1>3. MapTruthful'
    BY DEF CloneInv, MapTruthful
  <1> QED
    BY <1>1, <1>2, <1>3 DEF CloneInv

\* A cloner that begins takes a free lock, which is no lock of another.
LEMMA BeginInv ==
  ASSUME CloneInv, TypeOK', NEW c \in Cloners, NEW p \in Pairs, Begin(c, p)
  PROVE  CloneInv'
  <1> USE ConstantTypes DEF Begin, Goto
  <1>1. ClonerInv(c)'
    <2>1. pc'[c] = "bind" /\ pair'[c] = p /\ lock'[p[2]] = c
      BY DEF CloneInv, TypeOK
    <2> QED
      BY <2>1 DEF ClonerInv, Locked, Bound, Tried, Finished, MemTruthful, Copying, Dst
  <1>2. ASSUME NEW e \in Cloners, e # c PROVE ClonerInv(e)'
    <2>1. /\ pc'[e] = pc[e] /\ pair'[e] = pair[e] /\ mem'[e] = mem[e] /\ todo'[e] = todo[e]
          /\ failed'[e] = failed[e]
      BY <1>2 DEF CloneInv, TypeOK
    <2>2. pc[e] # "idle" => lock'[Dst(e)] = lock[Dst(e)]
      BY <1>2, CloneConstants DEF Free, CloneInv, ClonerInv, Locked
    <2> QED
      BY <2>1, <2>2, OtherCloner
  <1>3. MapTruthful'
    BY DEF CloneInv, MapTruthful
  <1> QED
    BY <1>1, <1>2, <1>3 DEF CloneInv

\* The touched mark of a pair is taken back only while it has no mapfile.
LEMMA BindInv ==
  ASSUME CloneInv, TypeOK', NEW c \in Cloners, Bind(c)
  PROVE  CloneInv'
  <1> USE DEF Bind, Goto
  <1>1. ClonerInv(c)'
    <2>1. /\ pc'[c] = "pass1" /\ pair'[c] = pair[c] /\ lock'[Dst(c)] = lock[Dst(c)]
          /\ meta'[pair[c]] \in {"fresh", "bound"} /\ Dst(c)' = Dst(c)
      BY PairType DEF CloneInv, TypeOK, Refused, Dst
    <2> QED
      BY <2>1 DEF CloneInv, ClonerInv, Locked, Bound, Tried, Finished, MemTruthful, Copying
  <1>2. ASSUME NEW e \in Cloners, e # c PROVE ClonerInv(e)'
    <2>1. /\ pc'[e] = pc[e] /\ pair'[e] = pair[e] /\ mem'[e] = mem[e] /\ todo'[e] = todo[e]
          /\ failed'[e] = failed[e]
      BY <1>2 DEF CloneInv, TypeOK
    <2>2. pc[e] # "idle" => /\ pair[e] # pair[c] /\ meta'[pair[e]] = meta[pair[e]]
                            /\ (pair[e] \in touched' <=> pair[e] \in touched)
      BY <1>2, Apart, PairType DEF CloneInv, TypeOK
    <2> QED
      BY <2>1, <2>2, OtherCloner
  <1>3. MapTruthful'
    BY DEF CloneInv, MapTruthful
  <1> QED
    BY <1>1, <1>2, <1>3 DEF CloneInv

\* A step that changes only what one cloner keeps in memory.
LEMMA LocalStepInv ==
  ASSUME CloneInv, TypeOK', NEW c \in Cloners, ClonerInv(c)',
         \A e \in Cloners \ {c} :
             /\ pc'[e] = pc[e] /\ pair'[e] = pair[e] /\ mem'[e] = mem[e]
             /\ todo'[e] = todo[e] /\ failed'[e] = failed[e],
         UNCHANGED <<vol, platter, meta, mapfile, touched, lock>>
  PROVE  CloneInv'
  <1>1. ASSUME NEW e \in Cloners, e # c PROVE ClonerInv(e)'
    BY <1>1, OtherCloner
  <1>2. MapTruthful'
    BY DEF CloneInv, MapTruthful
  <1> QED
    BY <1>1, <1>2 DEF CloneInv

\* A pass starts from a mapfile that tells the truth.
LEMMA StartPassInv ==
  ASSUME CloneInv, TypeOK', NEW c \in Cloners, StartPass(c)
  PROVE  CloneInv'
  <1> USE DEF StartPass, Goto
  <1>1. ClonerInv(c)'
    <2>1. /\ pc[c] \in {"pass1", "pass2"} /\ pc'[c] \in {"copy1", "copy2"}
          /\ pair' = pair /\ lock' = lock /\ mapfile' = mapfile /\ meta' = meta
          /\ vol' = vol /\ touched' = touched
          /\ mem'[c] = Resumed(pair[c])
          /\ Dst(c)' = Dst(c) /\ Src(c)' = Src(c)
      BY DEF CloneInv, TypeOK, Dst, Src
    <2>2. \A b \in Blocks : mem'[c][b] = "?" => b \in todo'[c]
      BY DEF CloneInv, TypeOK
    <2>3. MemTruthful(c)'
      <3> SUFFICES ASSUME pair[c] \notin touched, NEW b \in Blocks, mem'[c][b] = "+"
                   PROVE  vol[Dst(c)][b] = vol[Src(c)][b]
        BY <2>1 DEF MemTruthful
      <3>1. mapfile[pair[c]] # NoMap /\ mapfile[pair[c]][b] = "+"
        BY <2>1 DEF Resumed, Untried
      <3> QED
        BY <3>1, PairType DEF CloneInv, MapTruthful
    <2> QED
      BY <2>1, <2>2, <2>3 DEF CloneInv, ClonerInv, Locked, Bound, Tried, Finished, Copying
  <1>2. \A e \in Cloners \ {c} :
           /\ pc'[e] = pc[e] /\ pair'[e] = pair[e] /\ mem'[e] = mem[e]
           /\ todo'[e] = todo[e] /\ failed'[e] = failed[e]
    BY DEF CloneInv, TypeOK
  <1> QED
    BY <1>1, <1>2, LocalStepInv

\* A block that cannot be read is no longer untried.
LEMMA ReadFailsInv ==
  ASSUME CloneInv, TypeOK', NEW c \in Cloners, NEW b \in Blocks, ReadFails(c, b)
  PROVE  CloneInv'
  <1> USE DEF ReadFails
  <1>1. ClonerInv(c)'
    <2>1. /\ Copying(c) /\ UNCHANGED <<vol, meta, mapfile, touched, lock, pc, pair, failed>>
          /\ \A a \in Blocks : mem'[c][a] = IF a = b THEN "-" ELSE mem[c][a]
          /\ todo'[c] = todo[c] \ {b}
      BY DEF CloneInv, TypeOK, Maps
    <2> QED
      BY <2>1 DEF CloneInv, ClonerInv, Locked, Bound, Tried, Finished, MemTruthful, Copying,
         Dst, Src
  <1>2. \A e \in Cloners \ {c} :
           /\ pc'[e] = pc[e] /\ pair'[e] = pair[e] /\ mem'[e] = mem[e]
           /\ todo'[e] = todo[e] /\ failed'[e] = failed[e]
    BY DEF CloneInv, TypeOK
  <1> QED
    BY <1>1, <1>2, LocalStepInv

\* "Cloning complete" finds no untried block, and no bad one if it can read the
\* mapfile.
LEMMA CompleteInv ==
  ASSUME CloneInv, TypeOK', NEW c \in Cloners, Complete(c)
  PROVE  CloneInv'
  <1> USE DEF Complete, Goto
  <1>1. ClonerInv(c)'
    <2>1. /\ pc[c] = "parse" /\ pc'[c] \in {"complete", "unread"} /\ ~failed[c]
          /\ UNCHANGED <<vol, meta, mapfile, touched, lock, pair, mem, failed>>
      BY DEF CloneInv, TypeOK
    <2>2. /\ mapfile[pair[c]] # NoMap /\ \A b \in Blocks : mapfile[pair[c]][b] # "?"
          /\ pc'[c] = "complete" => \A b \in Blocks : mapfile[pair[c]][b] # "-"
      BY <2>1 DEF CloneInv, ClonerInv, Finished, BadBlocks, TypeOK
    <2> QED
      BY <2>1, <2>2 DEF CloneInv, ClonerInv, Locked, Bound, Tried, Finished, MemTruthful,
         Copying, Dst, Src
  <1>2. \A e \in Cloners \ {c} :
           /\ pc'[e] = pc[e] /\ pair'[e] = pair[e] /\ mem'[e] = mem[e]
           /\ todo'[e] = todo[e] /\ failed'[e] = failed[e]
    BY DEF CloneInv, TypeOK
  <1> QED
    BY <1>1, <1>2, LocalStepInv

\* Copying a block touches every other pair of the destination.
LEMMA CopyBlockInv ==
  ASSUME CloneInv, TypeOK', NEW c \in Cloners, NEW b \in Blocks, CopyBlock(c, b)
  PROVE  CloneInv'
  <1> USE DEF CopyBlock
  <1>0. /\ pair[c] \in Pairs /\ Src(c) \in Disks /\ Dst(c) \in Disks /\ Src(c) # Dst(c)
        /\ Dst(c) = pair[c][2] /\ Src(c) = pair[c][1]
    BY PairType DEF CloneInv
  <1>1. /\ \A d \in Disks : d # Dst(c) => vol'[d] = vol[d]
        /\ \A a \in Blocks : vol'[Dst(c)][a] = IF a = b THEN vol[Src(c)][a] ELSE vol[Dst(c)][a]
    BY <1>0 DEF CloneInv, TypeOK
  <1>2. ClonerInv(c)'
    <2>1. /\ Copying(c) /\ UNCHANGED <<meta, mapfile, lock, pc, pair, failed>>
          /\ \A a \in Blocks : mem'[c][a] = IF a = b THEN "+" ELSE mem[c][a]
          /\ todo'[c] = todo[c] \ {b} /\ touched \subseteq touched'
          /\ Dst(c)' = Dst(c) /\ Src(c)' = Src(c)
      BY DEF CloneInv, TypeOK, Maps, Dst, Src
    <2>2. MemTruthful(c)'
      BY <1>0, <1>1, <2>1 DEF CloneInv, ClonerInv, MemTruthful
    <2>3. Locked(c)' /\ Bound(c)' /\ Tried(c)' /\ Finished(c)'
      BY <2>1 DEF CloneInv, ClonerInv, Locked, Bound, Tried, Finished, Copying
    <2> QED
      BY <2>2, <2>3 DEF ClonerInv
  <1>3. ASSUME NEW e \in Cloners, e # c PROVE ClonerInv(e)'
    <2>1. /\ pc'[e] = pc[e] /\ pair'[e] = pair[e] /\ mem'[e] = mem[e] /\ todo'[e] = todo[e]
          /\ failed'[e] = failed[e]
      BY <1>3 DEF CloneInv, TypeOK
    <2>2. pc[c] # "idle"
      BY DEF Copying
    <2>3. /\ pair[e] \in Pairs /\ Dst(e) = pair[e][2] /\ Src(e) = pair[e][1]
          /\ Dst(e) \in Disks /\ Src(e) \in Disks
      BY PairType DEF CloneInv
    <2>4. pc[e] # "idle" => \/ pair[e] \in touched'
                            \/ /\ pair[e] \notin touched
                               /\ vol'[Dst(e)] = vol[Dst(e)] /\ vol'[Src(e)] = vol[Src(e)]
      <3> SUFFICES ASSUME pc[e] # "idle", pair[e] \notin touched'
                   PROVE  /\ pair[e] \notin touched
                          /\ vol'[Dst(e)] = vol[Dst(e)] /\ vol'[Src(e)] = vol[Src(e)]
        OBVIOUS
      <3>1. pair[e] # pair[c]
        BY <1>3, <2>2, Apart
      <3> QED
        BY <3>1, <2>3, <1>1
    <2> QED
      BY <2>1, <2>4, OtherCloner
  <1>4. MapTruthful'
    <2> SUFFICES ASSUME NEW p \in Pairs, Truthful(p), p \notin touched', mapfile[p] # NoMap,
                        NEW a \in Blocks, mapfile[p][a] = "+"
                 PROVE  vol'[p[2]][a] = vol'[p[1]][a] /\ platter[p[2]][a] = vol'[p[1]][a]
      BY DEF CloneInv, MapTruthful, Truthful
    <2>1. vol[p[2]][a] = vol[p[1]][a] /\ platter[p[2]][a] = vol[p[1]][a]
      BY DEF Truthful
    <2>2. CASE p = pair[c]
      BY <2>1, <2>2, <1>0, <1>1
    <2>3. CASE p # pair[c]
      BY <2>1, <2>3, <1>1, ConstantTypes
    <2> QED
      BY <2>2, <2>3
  <1> QED
    BY <1>2, <1>3, <1>4 DEF CloneInv

\* A map is saved after the data it vouches for.
LEMMA SavedTruthful ==
  ASSUME CloneInv, NEW c \in Cloners, Copying(c), Saved(c), UNCHANGED <<vol, touched>>
  PROVE  MapTruthful'
  <1>0. /\ pair[c] \in Pairs /\ Dst(c) \in Disks /\ Dst(c) = pair[c][2] /\ Src(c) = pair[c][1]
    BY PairType DEF CloneInv
  <1>1. /\ mapfile'[pair[c]] = mem[c] /\ \A p \in Pairs : p # pair[c] => mapfile'[p] = mapfile[p]
        /\ platter'[Dst(c)] = vol[Dst(c)]
        /\ \A d \in Disks : d # Dst(c) => platter'[d] = platter[d]
    BY <1>0 DEF Saved, CloneInv, TypeOK
  <1> SUFFICES ASSUME NEW p \in Pairs, p \notin touched, mapfile'[p] # NoMap,
                      NEW a \in Blocks, mapfile'[p][a] = "+"
               PROVE  vol[p[2]][a] = vol[p[1]][a] /\ platter'[p[2]][a] = vol[p[1]][a]
    BY DEF MapTruthful
  <1>2. CASE p = pair[c]
    BY <1>0, <1>1, <1>2 DEF CloneInv, ClonerInv, MemTruthful
  <1>3. CASE p # pair[c]
    BY <1>1, <1>3, ConstantTypes DEF CloneInv, MapTruthful
  <1> QED
    BY <1>2, <1>3

\* Saving disturbs no other cloner: its pair is another one.
LEMMA SavedOthers ==
  ASSUME CloneInv, NEW c \in Cloners, Copying(c), Saved(c),
         UNCHANGED <<vol, meta, touched, lock>>,
         NEW e \in Cloners, e # c,
         pc'[e] = pc[e], pair'[e] = pair[e], mem'[e] = mem[e], todo'[e] = todo[e],
         failed'[e] = failed[e]
  PROVE  ClonerInv(e)'
  <1>1. pc[e] # "idle" => mapfile'[pair[e]] = mapfile[pair[e]]
    BY Apart, PairType DEF Copying, Saved, CloneInv, TypeOK
  <1> QED
    BY <1>1, OtherCloner

\* ddrescue's save keeps the invariant: it has synced what the mapfile will call copied.
LEMMA SaveInv ==
  ASSUME CloneInv, TypeOK', NEW c \in Cloners, Save(c)
  PROVE  CloneInv'
  <1> USE DEF Save
  <1>1. ClonerInv(c)'
    BY DEF CloneInv, ClonerInv, Locked, Bound, Tried, Finished, MemTruthful, Copying, Dst, Src
  <1>2. ASSUME NEW e \in Cloners, e # c PROVE ClonerInv(e)'
    BY <1>2, SavedOthers
  <1> QED
    BY <1>1, <1>2, SavedTruthful DEF CloneInv

\* A pass without an error has tried all blocks, and says so in the mapfile.
LEMMA EndPassInv ==
  ASSUME CloneInv, TypeOK', NEW c \in Cloners, EndPass(c)
  PROVE  CloneInv'
  <1> USE DEF EndPass, Goto
  <1>1. ClonerInv(c)'
    <2>1. /\ Copying(c) /\ pc'[c] \in {"pass2", "sync"}
          /\ UNCHANGED <<vol, meta, touched, lock, pair, mem>>
          /\ ~failed'[c] => todo[c] = {}
          /\ Dst(c)' = Dst(c) /\ mapfile'[pair[c]] = mem[c] /\ mem[c] \in Maps
      BY PairType DEF CloneInv, TypeOK, Dst, Saved
    <2>2. ~failed'[c] => \A b \in Blocks : mem[c][b] # "?"
      BY <2>1 DEF CloneInv, ClonerInv, Tried
    <2>3. mapfile'[pair[c]] # NoMap
      BY <2>1, ConstantTypes
    <2> QED
      BY <2>1, <2>2, <2>3 DEF CloneInv, ClonerInv, Locked, Bound, Tried, Finished, MemTruthful,
         Copying
  <1>2. ASSUME NEW e \in Cloners, e # c PROVE ClonerInv(e)'
    <2>1. pc'[e] = pc[e] /\ todo'[e] = todo[e] /\ failed'[e] = failed[e]
      BY <1>2 DEF CloneInv, TypeOK
    <2> QED
      BY <1>2, <2>1, SavedOthers
  <1> QED
    BY <1>1, <1>2, SavedTruthful DEF CloneInv

\* A sync makes all data and metadata durable.
LEMMA SyncInv ==
  ASSUME CloneInv, TypeOK', NEW c \in Cloners, Sync(c)
  PROVE  CloneInv'
  <1> USE DEF Sync, Goto
  <1>0. \A e \in Cloners : /\ meta[pair[e]] \in {"fresh", "bound"} => meta'[pair[e]] = "bound"
                           /\ meta'[pair[e]] = meta[pair[e]] \/ meta'[pair[e]] = "bound"
    BY PairType DEF Synced, CloneInv
  <1>1. ClonerInv(c)'
    <2>1. /\ pc[c] = "sync" /\ pc'[c] = "parse" /\ Dst(c)' = Dst(c)
          /\ UNCHANGED <<vol, mapfile, touched, lock, pair, mem, failed>>
      BY DEF CloneInv, TypeOK, Dst
    <2> QED
      BY <1>0, <2>1 DEF CloneInv, ClonerInv, Locked, Bound, Tried, Finished, MemTruthful, Copying
  <1>2. ASSUME NEW e \in Cloners, e # c PROVE ClonerInv(e)'
    <2>1. pc'[e] = pc[e]
      BY <1>2 DEF CloneInv, TypeOK
    <2> QED
      BY <1>0, <2>1, OtherCloner
  <1>3. MapTruthful'
    BY ConstantTypes DEF CloneInv, MapTruthful
  <1> QED
    BY <1>1, <1>2, <1>3 DEF CloneInv

\* A power loss leaves no cloner at work; of a pair that it does not touch the
\* source is as it was, and what the mapfile vouches for was on the platter.
LEMMA PowerLossInv ==
  ASSUME CloneInv, TypeOK', PowerLoss
  PROVE  CloneInv'
  <1> USE DEF PowerLoss
  <1>1. ASSUME NEW c \in Cloners PROVE ClonerInv(c)'
    BY DEF ClonerInv, Locked, Bound, Tried, Finished, MemTruthful, Copying
  <1>2. MapTruthful'
    <2> SUFFICES ASSUME NEW p \in Pairs, p \notin touched', mapfile'[p] # NoMap,
                        NEW a \in Blocks, mapfile'[p][a] = "+"
                 PROVE  vol'[p[2]][a] = vol'[p[1]][a] /\ platter'[p[2]][a] = vol'[p[1]][a]
      BY DEF MapTruthful
    <2>1. p \notin touched /\ vol'[p[1]] = vol[p[1]] /\ platter' = vol'
      OBVIOUS
    <2>2. mapfile'[p] = mapfile[p]
      BY DEF CloneInv, TypeOK
    <2>3. vol[p[2]][a] = vol[p[1]][a] /\ platter[p[2]][a] = vol[p[1]][a]
      BY <2>1, <2>2 DEF CloneInv, MapTruthful
    <2>4. vol'[p[2]][a] \in {vol[p[2]][a], platter[p[2]][a]}
      BY ConstantTypes
    <2> QED
      BY <2>1, <2>3, <2>4
  <1> QED
    BY <1>1, <1>2 DEF CloneInv

\* A change by others touches every pair of the disk.
LEMMA ChangeInv ==
  ASSUME CloneInv, TypeOK', NEW d \in Disks, NEW b \in Blocks, Change(d, b)
  PROVE  CloneInv'
  <1> USE DEF Change
  <1>1. \A f \in Disks : f # d => vol'[f] = vol[f] /\ platter'[f] = platter[f]
    BY DEF CloneInv, TypeOK
  <1>2. ASSUME NEW e \in Cloners PROVE ClonerInv(e)'
    <2>1. pair[e] \in touched' \/ (/\ pair[e] \notin touched
                                   /\ vol'[Dst(e)] = vol[Dst(e)] /\ vol'[Src(e)] = vol[Src(e)])
      BY <1>1, PairType DEF CloneInv
    <2> QED
      BY <2>1, OtherCloner
  <1>3. MapTruthful'
    BY <1>1, ConstantTypes DEF CloneInv, MapTruthful
  <1> QED
    BY <1>2, <1>3 DEF CloneInv

\* Every step of a cloner or of the machine keeps the invariant.
LEMMA NextInv == CloneInv /\ [Next]_vars => CloneInv'
  <1> SUFFICES ASSUME CloneInv, [Next]_vars PROVE CloneInv'
    OBVIOUS
  <1>0. TypeOK'
    BY NextType DEF CloneInv
  <1>1. CASE UNCHANGED vars
    BY <1>0, <1>1 DEF vars, CloneInv, ClonerInv, Locked, Bound, Tried, Finished, MemTruthful,
       MapTruthful, Copying, Dst, Src
  <1>2. ASSUME NEW c \in Cloners, Step(c) \/ Save(c) \/ Interrupt(c) \/ \E p \in Pairs : Begin(c, p)
        PROVE  CloneInv'
    <2>1. CASE BindFails(c) \/ Incomplete(c) \/ Release(c) \/ Interrupt(c)
      BY <1>0, <2>1, EndInv DEF BindFails, Incomplete, Release, Interrupt
    <2>2. CASE \E b \in Blocks : CopyBlock(c, b) \/ ReadFails(c, b)
      BY <1>0, <2>2, CopyBlockInv, ReadFailsInv
    <2> QED
      BY <1>0, <1>2, <2>1, <2>2, BeginInv, BindInv, StartPassInv, EndPassInv, SaveInv, SyncInv,
         CompleteInv DEF Step
  <1>3. CASE \E d \in Disks, b \in Blocks : Change(d, b)
    BY <1>0, <1>3, ChangeInv
  <1>4. CASE PowerLoss
    BY <1>0, <1>4, PowerLossInv
  <1> QED
    BY <1>1, <1>2, <1>3, <1>4 DEF Next

\* The inductive invariant of clone holds at all times.
THEOREM Invariance == Spec => []CloneInv
  BY InitInv, NextInv, PTL DEF Spec

-----------------------------------------------------------------------------
(***************************************************************************)
(* What it is for.                                                         *)
(***************************************************************************)
\* A mapfile never calls a block copied that a power loss could still take
\* from the destination: clone may resume from it (block.py, do_clone).
THEOREM MapfileIsTruthful == Spec => []MapTruthful
  <1>1. CloneInv => MapTruthful
    BY DEF CloneInv
  <1> QED
    BY <1>1, Invariance, PTL

\* "Cloning complete" means that the destination is a twin, for as long as
\* nobody else has changed either disk since the mapfile was begun; but for the
\* blocks ddrescue could not read, if diskmgr could not read the mapfile.
THEOREM CompleteClonesAreTwins == Spec => []CompleteIsTwin
  <1>1. CloneInv => CompleteIsTwin
    <2> SUFFICES ASSUME CloneInv, NEW c \in Cloners, pc[c] \in {"complete", "unread"},
                        pair[c] \notin touched, NEW b \in Blocks,
                        pc[c] = "unread" => mapfile[pair[c]][b] # "-"
                 PROVE  vol[Dst(c)][b] = vol[Src(c)][b]
      BY DEF CompleteIsTwin
    <2>0. pair[c] \in Pairs /\ Dst(c) = pair[c][2] /\ Src(c) = pair[c][1]
      BY PairType DEF CloneInv
    <2>1. mapfile[pair[c]] # NoMap /\ mapfile[pair[c]][b] \notin {"?", "-"}
      BY DEF CloneInv, ClonerInv, Finished
    <2>2. mapfile[pair[c]][b] = "+"
      BY <2>0, <2>1 DEF CloneInv, TypeOK, Maps
    <2> QED
      BY <2>0, <2>1, <2>2 DEF CloneInv, MapTruthful
  <1> QED
    BY <1>1, Invariance, PTL

\* An interrupted clone can always be run again: only a power loss leaves a
\* mapfile without metadata, or metadata that cannot be read.
THEOREM InterruptedClonesResume == Spec => OnlyPowerLossRefuses
  <1>1. CloneInv /\ [Next]_vars =>
           [\A p \in Pairs : ~Refused(p) /\ Refused(p)' => PowerLoss]_vars
    <2> SUFFICES ASSUME CloneInv, Next, ~PowerLoss, NEW p \in Pairs, ~Refused(p), Refused(p)'
                 PROVE  FALSE
      OBVIOUS
    <2>1. CASE meta' = meta /\ mapfile' = mapfile
      BY <2>1 DEF Refused
    <2>2. ASSUME NEW c \in Cloners, Bind(c) \/ Sync(c) PROVE FALSE
      BY <2>2, PairType DEF Bind, Sync, Synced, Refused, CloneInv, TypeOK
    <2>3. ASSUME NEW c \in Cloners, Save(c) \/ EndPass(c) PROVE FALSE
      <3>1. Copying(c) /\ Saved(c) /\ meta' = meta
        BY <2>3 DEF Save, EndPass
      <3>2. meta[pair[c]] \in {"fresh", "bound"}
        BY <3>1 DEF Copying, CloneInv, ClonerInv, Bound
      <3>3. p # pair[c] => mapfile'[p] = mapfile[p]
        BY <3>1 DEF Saved, CloneInv, TypeOK
      <3> QED
        BY <3>1, <3>2, <3>3 DEF Refused
    <2> QED
      BY <2>1, <2>2, <2>3 DEF Next, Step, Begin, BindFails, StartPass, CopyBlock, ReadFails,
         Complete, Incomplete, Release, Interrupt, Change
  <1> QED
    BY <1>1, Invariance, PTL DEF Spec, OnlyPowerLossRefuses
=============================================================================
