----------------------------- MODULE GuardProofs -----------------------------
(***************************************************************************)
(* Theorems about the guard, for every set of sessions, nodes, hardware    *)
(* and contents.                                                           *)
(***************************************************************************)
EXTENDS Guard, TLAPS

-----------------------------------------------------------------------------
(***************************************************************************)
(* Type correctness.                                                       *)
(***************************************************************************)
\* What the constants give.
LEMMA ConstantTypes ==
  /\ AnyNode \in Nodes /\ AnyHardware \in Hardware
  /\ \A n \in Nodes : DiskOf[n] \in Disks /\ DiskOf[n] \in Nodes
  /\ Disks \subseteq Nodes
  /\ \A h \in Hardware : IdentityOf[h] \in Identities
  /\ \A i \in Identities : UnitOf[i] \in Units
  /\ \A h \in Hardware \cup {Absent} : UnitAt(h) \in Units \cup {Absent}
  /\ Absent \notin Hardware /\ Absent \notin Identities /\ Absent \notin Units
  BY GuardConstants DEF AnyNode, AnyHardware, Disks, Identities, Units, UnitAt

\* The target of a session is on a disk.
LEMMA DiskType ==
  ASSUME TypeOK, NEW p \in Sessions
  PROVE  Disk(p) \in Disks
  BY ConstantTypes DEF TypeOK, Disk

\* The preflights that a session records are preflights.
LEMMA PreflightTypes ==
  /\ NoPreflight \in Preflights
  /\ \A i \in Identities : [NoPreflight EXCEPT !.identity = i] \in Preflights
  /\ \A r \in Preflights, c \in Contents : [r EXCEPT !.content = c] \in Preflights
  /\ \A r \in Preflights, b \in BOOLEAN : [r EXCEPT !.active = b] \in Preflights
  BY GuardConstants DEF NoPreflight, Preflights

\* A session that ends has its types.
LEMMA EndType ==
  ASSUME TypeOK, NEW p \in Sessions, End(p)
  PROVE  /\ lock' \in [Nodes -> Sessions \cup {NoSession}]
         /\ pc' \in [Sessions -> PCs]
         /\ round' \in [Sessions -> 1 .. 3]
         /\ target' \in [Sessions -> Nodes]
         /\ kind' \in [Sessions -> Kinds]
         /\ shown' \in [Sessions -> Preflights]
         /\ last' \in [Sessions -> Preflights]
         /\ now' \in [Sessions -> Preflights]
         /\ typed' \in [Sessions -> Units \cup {Absent}]
  BY ConstantTypes, PreflightTypes DEF TypeOK, End, LocksWithout, PCs, Kinds

\* The steps of a preflight keep the types.
LEMMA PreflightStepType ==
  ASSUME TypeOK, NEW p \in Sessions,
         \/ Start(p) \/ SnapshotIdentity(p) \/ ProbeContents(p) \/ ProbeActive(p)
         \/ AcquireLock(p) \/ Review(p)
  PROVE  TypeOK'
  <1> USE ConstantTypes, DiskType, PreflightTypes DEF Goto, machine, locals, PCs, Aspects, Probed
  <1>1. CASE Start(p)
    BY <1>1 DEF TypeOK, Start
  <1>2. CASE SnapshotIdentity(p)
    <2>1. hw[Disk(p)] \in Hardware
      BY <1>2 DEF TypeOK, SnapshotIdentity, NoIdentity
    <2> QED
      BY <1>2, <2>1 DEF TypeOK, SnapshotIdentity
  <1>3. CASE ProbeContents(p)
    BY <1>3 DEF TypeOK, ProbeContents
  <1>4. CASE ProbeActive(p)
    BY <1>4 DEF TypeOK, ProbeActive
  <1>5. CASE AcquireLock(p)
    BY <1>5 DEF TypeOK, AcquireLock
  <1>6. CASE Review(p)
    BY <1>6 DEF TypeOK, Review, Kinds
  <1> QED
    BY <1>1, <1>2, <1>3, <1>4, <1>5, <1>6

\* The steps from the confirmation on keep the types.
LEMMA ConfirmStepType ==
  ASSUME TypeOK, NEW p \in Sessions,
         Confirm(p) \/ Reprobe(p) \/ Proceed(p) \/ Passphrase(p)
  PROVE  TypeOK'
  <1> USE ConstantTypes, DiskType, PreflightTypes DEF Goto, machine, locals, PCs, Aspects, Probed
  <1>1. CASE Confirm(p)
    BY <1>1 DEF TypeOK, Confirm
  <1>2. CASE Reprobe(p)
    BY <1>2 DEF TypeOK, Reprobe
  <1>3. CASE Proceed(p)
    BY <1>3 DEF TypeOK, Proceed
  <1>4. CASE Passphrase(p)
    BY <1>4 DEF TypeOK, Passphrase
  <1> QED
    BY <1>1, <1>2, <1>3, <1>4

\* A session that ends, however it does, keeps the types.
LEMMA EndStepType ==
  ASSUME TypeOK, NEW p \in Sessions, Refuse(p) \/ Write(p) \/ Kill(p)
  PROVE  TypeOK'
  <1> USE DiskType DEF machine, Aspects
  <1>1. CASE Refuse(p)
    BY <1>1, EndType DEF TypeOK, Refuse
  <1>2. CASE Write(p)
    BY <1>2, EndType DEF TypeOK, Write
  <1>3. CASE Kill(p)
    BY <1>3, EndType DEF TypeOK, Kill
  <1> QED
    BY <1>1, <1>2, <1>3

\* The rest of the machine keeps the types.
LEMMA MachineStepType ==
  ASSUME TypeOK, NEW d \in Disks, OrphanEnds(d) \/ Hotplug(d) \/ Rewrite(d) \/ Use(d)
  PROVE  TypeOK'
  <1> USE DEF locals, Touch, Aspects
  <1>1. CASE OrphanEnds(d)
    BY <1>1 DEF TypeOK, OrphanEnds
  <1>2. CASE Hotplug(d)
    BY <1>2 DEF TypeOK, Hotplug
  <1>3. CASE Rewrite(d)
    BY <1>3 DEF TypeOK, Rewrite
  <1>4. CASE Use(d)
    BY <1>4 DEF TypeOK, Use
  <1> QED
    BY <1>1, <1>2, <1>3, <1>4

\* Every way to refuse is a refusal, and every step one of the above.
LEMMA NextCases ==
  ASSUME Next
  PROVE  \/ \E p \in Sessions :
              \/ Start(p) \/ SnapshotIdentity(p) \/ ProbeContents(p) \/ ProbeActive(p)
              \/ AcquireLock(p) \/ Review(p)
              \/ Confirm(p) \/ Reprobe(p) \/ Proceed(p) \/ Passphrase(p)
              \/ Refuse(p) \/ Write(p) \/ Kill(p)
         \/ \E d \in Disks : OrphanEnds(d) \/ Hotplug(d) \/ Rewrite(d) \/ Use(d)
  BY Zenon DEF Next, Step, IdentityRefused, ContentsRefused, ProbeFails, LockRefused,
     ReviewRefused, NotConfirmed, Changed

\* Types hold at first.
LEMMA InitType == Init => TypeOK
  BY ConstantTypes, PreflightTypes DEF Init, TypeOK, PCs, Kinds, Aspects

\* Every step keeps the types.
LEMMA NextType == TypeOK /\ [Next]_vars => TypeOK'
  <1> SUFFICES ASSUME TypeOK, [Next]_vars PROVE TypeOK'
    OBVIOUS
  <1>1. CASE Next
    BY <1>1, NextCases, PreflightStepType, ConfirmStepType, EndStepType, MachineStepType
  <1>2. CASE UNCHANGED vars
    BY <1>2 DEF TypeOK, vars
  <1> QED
    BY <1>1, <1>2

\* The guard keeps its types.
THEOREM TypeCorrect == Spec => []TypeOK
  BY InitType, NextType, PTL DEF Spec

-----------------------------------------------------------------------------
(***************************************************************************)
(* The inductive invariant.  Each conjunct is about one session, given its *)
(* part of the shared state.                                               *)
(***************************************************************************)
\* Sessions that have taken their lock and not given it back.
Holding(p) == pc[p] \in {"review", "confirm", "passphrase", "write"} \/ round[p] > 1

\* pc and round fit, and no session is inside the root disk.
Control(p) ==
    /\ pc[p] \in {"idle", "lock", "review", "confirm"} => round[p] = 1
    /\ pc[p] \in {"passphrase", "write"} => round[p] > 1
    /\ pc[p] # "idle" => Disk(p) \notin RootDisks
    /\ pc[p] \notin {"idle", "identity"} \/ round[p] > 1 => target[p] \in QueueNodes

\* A session has the lock of its target, and no other, while it is holding.
Locked(p) == \A n \in Nodes : lock[n] = p <=> Holding(p) /\ n = target[p]

\* What a session has probed in this preflight and did not change since is
\* what it recorded.
Recorded(p) ==
    /\ round[p] = 1 => fresh[p] = {}
    /\ "identity" \in fresh[p] =>
           /\ pc[p] \in {"contents", "active", "passphrase", "write"}
           /\ hw[Disk(p)] # Absent
           /\ IdentityOf[hw[Disk(p)]] = now[p].identity
    /\ "content" \in fresh[p] =>
           /\ pc[p] \in {"active", "passphrase", "write"}
           /\ content[Disk(p)] = now[p].content
    /\ "use" \in fresh[p] =>
           /\ pc[p] \in {"passphrase", "write"}
           /\ ~active[Disk(p)]

\* Each preflight of a session was compared with the one before it, and so
\* all are the one that was shown.
Compared(p) ==
    /\ pc[p] \in {"contents", "active", "lock", "review", "passphrase", "write"} =>
           now[p].identity \in Identities
    /\ pc[p] = "confirm" \/ round[p] > 1 =>
           /\ last[p].identity = shown[p].identity
           /\ last[p].content = shown[p].content
           /\ Permits(kind[p], shown[p].content)
    /\ pc[p] \in {"passphrase", "write"} =>
           /\ now[p].identity = last[p].identity
           /\ now[p].content = last[p].content

\* What the user typed is the unit behind the node, which the lock keeps there.
TypedUnit(p) ==
    round[p] > 1 =>
        /\ UnitAt(hw[Disk(p)]) \in {Absent, typed[p]}
        /\ pc[p] \in {"contents", "active", "passphrase", "write"} =>
               UnitOf[now[p].identity] = typed[p]

SessionInv(p) ==
    Control(p) /\ Locked(p) /\ Recorded(p) /\ Compared(p) /\ TypedUnit(p)

GuardInv == TypeOK /\ \A p \in Sessions : SessionInv(p)

\* The invariant holds at the start, when every session is idle.
LEMMA InitInv == Init => GuardInv
  <1> SUFFICES ASSUME Init PROVE GuardInv
    OBVIOUS
  <1>1. TypeOK
    BY InitType
  <1>2. ASSUME NEW p \in Sessions PROVE SessionInv(p)
    BY <1>1, <1>2, GuardConstants DEF Init, SessionInv, Control, Locked, Holding, Recorded,
       Compared, TypedUnit
  <1> QED
    BY <1>1, <1>2 DEF GuardInv

\* The steps of another session leave a session's invariant alone if they
\* touch neither its memory nor its lock nor the machine.
LEMMA OtherSession ==
  ASSUME GuardInv, TypeOK', NEW p \in Sessions, SessionInv(p),
         pc'[p] = pc[p], round'[p] = round[p], target'[p] = target[p],
         kind'[p] = kind[p], shown'[p] = shown[p], last'[p] = last[p],
         now'[p] = now[p], typed'[p] = typed[p],
         \A n \in Nodes : lock'[n] = p <=> lock[n] = p,
         fresh'[p] \subseteq fresh[p],
         \/ hw'[Disk(p)] = hw[Disk(p)]
         \/ /\ "identity" \notin fresh'[p]
            /\ round[p] > 1 => UnitAt(hw'[Disk(p)]) \in {Absent, typed[p]},
         content'[Disk(p)] = content[Disk(p)] \/ "content" \notin fresh'[p],
         active'[Disk(p)] = active[Disk(p)] \/ "use" \notin fresh'[p]
  PROVE  SessionInv(p)'
  <1> Disk(p)' = Disk(p)
    BY DEF Disk
  <1> Holding(p)' = Holding(p)
    BY DEF Holding
  <1>1. Control(p)'
    BY DEF SessionInv, Control
  <1>2. Locked(p)'
    BY DEF SessionInv, Locked
  <1>3. Recorded(p)'
    BY DEF SessionInv, Recorded
  <1>4. Compared(p)'
    BY DEF SessionInv, Compared
  <1>5. TypedUnit(p)'
    BY DEF SessionInv, TypedUnit, UnitAt
  <1> QED
    BY <1>1, <1>2, <1>3, <1>4, <1>5 DEF SessionInv

\* The steps that change the memory of one session, and perhaps its lock.
LocalStep(q) ==
    /\ UNCHANGED machine
    /\ \A p \in Sessions \ {q} :
         /\ pc'[p] = pc[p] /\ round'[p] = round[p] /\ target'[p] = target[p]
         /\ kind'[p] = kind[p] /\ shown'[p] = shown[p] /\ last'[p] = last[p]
         /\ now'[p] = now[p] /\ typed'[p] = typed[p] /\ fresh'[p] = fresh[p]
         /\ \A n \in Nodes : lock'[n] = p <=> lock[n] = p

\* Such a step preserves the invariant if it does so for its own session.
LEMMA LocalStepInv ==
  ASSUME GuardInv, TypeOK', NEW q \in Sessions, LocalStep(q), SessionInv(q)'
  PROVE  GuardInv'
  <1>1. ASSUME NEW p \in Sessions, p # q PROVE SessionInv(p)'
    BY <1>1, OtherSession, DiskType DEF GuardInv, LocalStep, machine
  <1> QED
    BY <1>1 DEF GuardInv

\* The lock of a session that ends is free, and only that lock changes.
LEMMA EndLocks ==
  ASSUME GuardInv, NEW q \in Sessions, End(q)
  PROVE  /\ \A n \in Nodes : lock'[n] # q
         /\ \A p \in Sessions \ {q}, n \in Nodes : lock'[n] = p <=> lock[n] = p
  BY GuardConstants DEF End, LocksWithout, GuardInv, TypeOK

\* A session that has ended satisfies its invariant.
LEMMA EndSession ==
  ASSUME GuardInv, TypeOK', NEW q \in Sessions, End(q), fresh'[q] = {}
  PROVE  SessionInv(q)'
  <1>1. pc'[q] = "idle" /\ round'[q] = 1
    BY DEF GuardInv, TypeOK, End
  <1>2. \A n \in Nodes : lock'[n] # q
    BY EndLocks
  <1> QED
    BY <1>1, <1>2 DEF SessionInv, Control, Locked, Holding, Recorded, Compared, TypedUnit

\* Refusals and kills preserve the invariant.
LEMMA EndInv ==
  ASSUME GuardInv, TypeOK', NEW q \in Sessions, Refuse(q) \/ Kill(q)
  PROVE  GuardInv'
  <1>1. End(q) /\ fresh' = [fresh EXCEPT ![q] = {}] /\ UNCHANGED machine
    BY DEF Refuse, Kill
  <1>2. SessionInv(q)'
    <2>1. fresh'[q] = {}
      BY <1>1 DEF GuardInv, TypeOK
    <2> QED
      BY <1>1, <2>1, EndSession
  <1>3. LocalStep(q)
    <2>1. \A p \in Sessions \ {q}, n \in Nodes : lock'[n] = p <=> lock[n] = p
      BY <1>1, EndLocks
    <2>2. TypeOK
      BY DEF GuardInv
    <2>3. \A p \in Sessions \ {q} :
            /\ pc'[p] = pc[p] /\ round'[p] = round[p] /\ target'[p] = target[p]
            /\ kind'[p] = kind[p] /\ shown'[p] = shown[p] /\ last'[p] = last[p]
            /\ now'[p] = now[p] /\ typed'[p] = typed[p] /\ fresh'[p] = fresh[p]
      BY <1>1, <2>2 DEF TypeOK, End
    <2> QED
      BY <1>1, <2>1, <2>3 DEF LocalStep
  <1> QED
    BY <1>2, <1>3, LocalStepInv

\* The steps of the first preflight preserve the invariant of their session.
LEMMA PreflightStepInv ==
  ASSUME GuardInv, TypeOK', NEW q \in Sessions,
         \/ Start(q) \/ SnapshotIdentity(q) \/ ProbeContents(q) \/ ProbeActive(q)
         \/ AcquireLock(q) \/ Review(q)
  PROVE  SessionInv(q)' /\ LocalStep(q)
  <1> USE ConstantTypes, DiskType, GuardConstants
      DEF GuardInv, TypeOK, Goto, machine, locals, Probed, Disk, Holding
  <1>0. SessionInv(q)
    OBVIOUS
  <1>1. CASE Start(q)
    <2>1. LocalStep(q)
      BY <1>1 DEF Start, LocalStep
    <2>2. pc'[q] = "identity" /\ round'[q] = 1 /\ pc[q] = "idle" /\ round[q] = 1
      BY <1>1 DEF Start, SessionInv, Control
    <2>3. Control(q)'
      BY <1>1, <2>2 DEF Start, Control, RefusesRoot
    <2>4. Locked(q)'
      <3>1. \A n \in Nodes : lock'[n] # q
        BY <1>0, <1>1, <2>2 DEF Start, SessionInv, Locked
      <3> QED
        BY <2>2, <3>1 DEF Locked
    <2>5. Recorded(q)'
      BY <1>0, <1>1, <2>2 DEF Start, SessionInv, Recorded
    <2>6. Compared(q)' /\ TypedUnit(q)'
      BY <2>2 DEF Compared, TypedUnit
    <2> QED
      BY <2>1, <2>3, <2>4, <2>5, <2>6 DEF SessionInv
  <1>2. CASE SnapshotIdentity(q)
    <2>1. LocalStep(q)
      BY <1>2 DEF SnapshotIdentity, LocalStep
    <2>2. hw[Disk(q)] \in Hardware /\ target[q] \in QueueNodes
      BY <1>2 DEF SnapshotIdentity, NoIdentity
    <2>3. now'[q].identity = IdentityOf[hw[Disk(q)]] /\ now'[q].identity \in Identities
      BY <1>2, <2>2 DEF SnapshotIdentity, NoPreflight
    <2>4. Control(q)' /\ Locked(q)'
      BY <1>2, <2>2 DEF SnapshotIdentity, SessionInv, Control, Locked
    <2>5. Recorded(q)'
      <3>1. /\ pc'[q] = "contents" /\ round'[q] = round[q] /\ pc[q] = "identity"
            /\ fresh'[q] = IF round[q] = 1 THEN {} ELSE fresh[q] \cup {"identity"}
            /\ hw'[Disk(q)'] = hw[Disk(q)]
        BY <1>2 DEF SnapshotIdentity
      <3>2. fresh'[q] \subseteq {"identity"}
        BY <1>0, <3>1 DEF SessionInv, Recorded, Aspects
      <3> QED
        BY <2>2, <2>3, <3>1, <3>2 DEF Recorded
    <2>6. Compared(q)'
      BY <1>2, <2>3 DEF SnapshotIdentity, SessionInv, Compared, Control
    <2>7. TypedUnit(q)'
      <3>1. /\ pc'[q] = "contents" /\ round'[q] = round[q]
            /\ hw'[Disk(q)'] = hw[Disk(q)] /\ typed'[q] = typed[q]
        BY <1>2 DEF SnapshotIdentity
      <3> QED
        BY <1>0, <2>2, <2>3, <3>1 DEF SessionInv, TypedUnit, UnitAt
    <2> QED
      BY <2>1, <2>4, <2>5, <2>6, <2>7 DEF SessionInv
  <1>3. CASE ProbeContents(q)
    <2>1. LocalStep(q)
      BY <1>3 DEF ProbeContents, LocalStep
    <2>2. now'[q].identity = now[q].identity /\ now'[q].content = content[Disk(q)]
      BY <1>3 DEF ProbeContents, Preflights
    <2>3. Control(q)' /\ Locked(q)'
      BY <1>3 DEF ProbeContents, SessionInv, Control, Locked
    <2>4. Recorded(q)'
      <3>1. /\ pc'[q] = "active" /\ round'[q] = round[q] /\ pc[q] = "contents"
            /\ fresh'[q] = IF round[q] = 1 THEN {} ELSE fresh[q] \cup {"content"}
            /\ hw'[Disk(q)'] = hw[Disk(q)] /\ content'[Disk(q)'] = content[Disk(q)]
        BY <1>3 DEF ProbeContents
      <3>2. "use" \notin fresh'[q] /\ ("identity" \in fresh'[q] => "identity" \in fresh[q])
        BY <1>0, <3>1 DEF SessionInv, Recorded
      <3> QED
        BY <1>0, <2>2, <3>1, <3>2 DEF SessionInv, Recorded
    <2>5. Compared(q)' /\ TypedUnit(q)'
      BY <1>3, <2>2 DEF ProbeContents, SessionInv, Compared, TypedUnit, UnitAt
    <2> QED
      BY <2>1, <2>3, <2>4, <2>5 DEF SessionInv
  <1>4. CASE ProbeActive(q)
    <2>1. LocalStep(q)
      BY <1>4 DEF ProbeActive, LocalStep
    <2>2. now'[q].identity = now[q].identity
      BY <1>4 DEF ProbeActive, Preflights
    <2>3. Control(q)' /\ Locked(q)'
      BY <1>4 DEF ProbeActive, SessionInv, Control, Locked
    <2>4. Recorded(q)' /\ Compared(q)' /\ TypedUnit(q)'
      BY <1>4, <2>2 DEF ProbeActive, SessionInv, Recorded, Compared, TypedUnit
    <2> QED
      BY <2>1, <2>3, <2>4 DEF SessionInv
  <1>5. CASE AcquireLock(q)
    <2>1. LocalStep(q)
      BY <1>5 DEF AcquireLock, LocalStep, LockFree
    <2>2. pc[q] = "lock" /\ round[q] = 1 /\ pc'[q] = "review" /\ round'[q] = 1
      BY <1>0, <1>5 DEF AcquireLock, SessionInv, Control
    <2>4. Control(q)'
      BY <1>0, <1>5, <2>2 DEF AcquireLock, SessionInv, Control
    <2>5. Locked(q)'
      <3>1. \A n \in Nodes : lock[n] # q
        BY <1>0, <2>2 DEF SessionInv, Locked
      <3>2. \A n \in Nodes : lock'[n] = q <=> n = target'[q]
        BY <1>5, <3>1 DEF AcquireLock
      <3> QED
        BY <2>2, <3>2 DEF Locked
    <2>3. Recorded(q)' /\ Compared(q)' /\ TypedUnit(q)'
      BY <1>5 DEF AcquireLock, SessionInv, Recorded, Compared, TypedUnit, Control
    <2> QED
      BY <2>1, <2>3, <2>4, <2>5 DEF SessionInv
  <1>6. CASE Review(q)
    <2>1. LocalStep(q)
      BY <1>6 DEF Review, LocalStep
    <2>2. Control(q)' /\ Locked(q)'
      BY <1>6 DEF Review, SessionInv, Control, Locked
    <2>3. Recorded(q)' /\ TypedUnit(q)'
      BY <1>6 DEF Review, SessionInv, Recorded, TypedUnit, Control
    <2>4. Compared(q)'
      BY <1>6 DEF Review, SessionInv, Compared, Permits, Control
    <2> QED
      BY <2>1, <2>2, <2>3, <2>4 DEF SessionInv
  <1> QED
    BY <1>1, <1>2, <1>3, <1>4, <1>5, <1>6

\* The steps from the confirmation on preserve the invariant of their session.
LEMMA ConfirmStepInv ==
  ASSUME GuardInv, TypeOK', NEW q \in Sessions,
         Confirm(q) \/ Reprobe(q) \/ Proceed(q) \/ Passphrase(q)
  PROVE  SessionInv(q)' /\ LocalStep(q)
  <1> USE ConstantTypes, DiskType, GuardConstants
      DEF GuardInv, TypeOK, Goto, machine, locals, Probed, Disk, Holding
  <1>0. SessionInv(q)
    OBVIOUS
  <1>1. CASE Confirm(q)
    <2>1. LocalStep(q)
      BY <1>1 DEF Confirm, LocalStep
    <2>2. /\ pc[q] = "confirm" /\ round[q] = 1 /\ pc'[q] = "identity" /\ round'[q] = 2
          /\ target'[q] = target[q] /\ lock' = lock /\ hw' = hw
          /\ typed'[q] = UnitAt(hw[Disk(q)]) /\ fresh'[q] = {}
      BY <1>0, <1>1 DEF Confirm, SessionInv, Control, Recorded
    <2>3. Control(q)' /\ Locked(q)'
      BY <1>0, <2>2 DEF SessionInv, Control, Locked
    <2>4. Recorded(q)' /\ TypedUnit(q)'
      BY <2>2 DEF Recorded, TypedUnit, UnitAt
    <2>5. Compared(q)'
      BY <1>0, <1>1, <2>2 DEF Confirm, SessionInv, Compared
    <2> QED
      BY <2>1, <2>3, <2>4, <2>5 DEF SessionInv
  <1>2. CASE Reprobe(q)
    <2>1. LocalStep(q)
      BY <1>2 DEF Reprobe, LocalStep
    <2>2. /\ pc[q] = "active" /\ round[q] = 2 /\ pc'[q] = "identity" /\ round'[q] = 3
          /\ target'[q] = target[q] /\ lock' = lock /\ hw' = hw
          /\ typed'[q] = typed[q] /\ fresh'[q] = {} /\ last'[q] = now[q]
          /\ now[q].identity = last[q].identity /\ now[q].content = last[q].content
          /\ shown'[q] = shown[q] /\ kind'[q] = kind[q]
      BY <1>2 DEF Reprobe, Unchanged
    <2>3. Control(q)' /\ Locked(q)'
      BY <1>0, <2>2 DEF SessionInv, Control, Locked
    <2>4. Recorded(q)' /\ TypedUnit(q)'
      BY <1>0, <2>2 DEF SessionInv, Recorded, TypedUnit, UnitAt
    <2>5. Compared(q)'
      BY <1>0, <2>2 DEF SessionInv, Compared
    <2> QED
      BY <2>1, <2>3, <2>4, <2>5 DEF SessionInv
  <1>3. CASE Proceed(q)
    <2>1. LocalStep(q)
      BY <1>3 DEF Proceed, LocalStep
    <2>2. /\ pc[q] = "active" /\ round[q] > 1 /\ pc'[q] \in {"passphrase", "write"}
          /\ UNCHANGED <<machine, lock, round, locals>>
          /\ fresh'[q] \subseteq fresh[q] \cup {"use"}
          /\ now[q].identity = last[q].identity /\ now[q].content = last[q].content
          /\ ~active[Disk(q)]
      BY <1>3 DEF Proceed, Unchanged
    <2>3. Control(q)' /\ Locked(q)'
      BY <1>0, <2>2 DEF SessionInv, Control, Locked
    <2>4. Recorded(q)'
      BY <1>0, <2>2 DEF SessionInv, Recorded
    <2>5. TypedUnit(q)' /\ Compared(q)'
      BY <1>0, <2>2 DEF SessionInv, TypedUnit, Compared, UnitAt
    <2> QED
      BY <2>1, <2>3, <2>4, <2>5 DEF SessionInv
  <1>4. CASE Passphrase(q)
    <2>1. LocalStep(q)
      BY <1>4 DEF Passphrase, LocalStep
    <2>2. /\ pc[q] = "passphrase" /\ pc'[q] = "write"
          /\ UNCHANGED <<machine, lock, round, locals, fresh>>
      BY <1>4 DEF Passphrase
    <2> QED
      BY <1>0, <2>1, <2>2
         DEF SessionInv, Control, Locked, Recorded, Compared, TypedUnit, UnitAt
  <1> QED
    BY <1>1, <1>2, <1>3, <1>4

\* A write preserves the invariant: of a session on the same disk, only the
\* content that it has recorded is no longer fresh.
LEMMA WriteInv ==
  ASSUME GuardInv, TypeOK', NEW q \in Sessions, Write(q)
  PROVE  GuardInv'
  <1>1. SessionInv(q)'
    <2>1. fresh'[q] = {}
      BY DEF Write
    <2> QED
      BY <2>1, EndSession DEF Write
  <1>2. ASSUME NEW p \in Sessions, p # q PROVE SessionInv(p)'
    <2>1. /\ pc'[p] = pc[p] /\ round'[p] = round[p] /\ target'[p] = target[p]
          /\ kind'[p] = kind[p] /\ shown'[p] = shown[p] /\ last'[p] = last[p]
          /\ now'[p] = now[p] /\ typed'[p] = typed[p]
      BY <1>2 DEF Write, End, GuardInv, TypeOK
    <2>2. \A n \in Nodes : lock'[n] = p <=> lock[n] = p
      BY <1>2, EndLocks DEF Write
    <2>3. fresh'[p] \subseteq fresh[p] /\ hw' = hw /\ active' = active
      BY <1>2 DEF Write
    <2>4. content'[Disk(p)] = content[Disk(p)] \/ "content" \notin fresh'[p]
      BY <1>2, DiskType DEF Write, GuardInv, TypeOK
    <2> QED
      BY <2>1, <2>2, <2>3, <2>4, OtherSession DEF GuardInv
  <1> QED
    BY <1>1, <1>2 DEF GuardInv

\* The rest of the machine preserves the invariant: what changes is no longer
\* fresh, and while a session holds its lock the unit stays.
LEMMA MachineStepInv ==
  ASSUME GuardInv, TypeOK', NEW d \in Disks,
         OrphanEnds(d) \/ Hotplug(d) \/ Rewrite(d) \/ Use(d)
  PROVE  GuardInv'
  <1> SUFFICES ASSUME NEW p \in Sessions PROVE SessionInv(p)'
    BY DEF GuardInv
  <1> USE DEF locals
  <1>1. SessionInv(p) /\ Disk(p) \in Disks /\ TypeOK
    BY DiskType DEF GuardInv
  <1>2. UNCHANGED <<lock, pc, round, locals>>
    BY DEF OrphanEnds, Hotplug, Rewrite, Use
  <1>3. fresh'[p] \subseteq fresh[p]
    BY DEF OrphanEnds, Hotplug, Rewrite, Use, Touch
  <1>4. content'[Disk(p)] = content[Disk(p)] \/ "content" \notin fresh'[p]
    BY <1>1 DEF OrphanEnds, Hotplug, Rewrite, Use, Touch, Aspects, TypeOK
  <1>5. active'[Disk(p)] = active[Disk(p)] \/ "use" \notin fresh'[p]
    BY <1>1 DEF OrphanEnds, Hotplug, Rewrite, Use, Touch, Aspects, TypeOK
  <1>6. \/ hw'[Disk(p)] = hw[Disk(p)]
        \/ /\ "identity" \notin fresh'[p]
           /\ round[p] > 1 => UnitAt(hw'[Disk(p)]) \in {Absent, typed[p]}
    <2>1. CASE OrphanEnds(d) \/ Rewrite(d) \/ Use(d)
      BY <2>1 DEF OrphanEnds, Rewrite, Use
    <2>2. CASE Hotplug(d) /\ Disk(p) # d
      BY <2>2, <1>1 DEF Hotplug, TypeOK
    <2>3. CASE Hotplug(d) /\ Disk(p) = d
      <3>1. "identity" \notin fresh'[p]
        BY <2>3 DEF Hotplug, Touch, Aspects
      <3>2. ASSUME round[p] > 1 PROVE UnitAt(hw'[Disk(p)]) \in {Absent, typed[p]}
        <4>1. target[p] \in Nodes /\ DiskOf[target[p]] = d /\ lock[target[p]] # NoSession
          BY <1>1, <2>3, <3>2, GuardConstants DEF SessionInv, Locked, Holding, TypeOK, Disk
        <4>2. MayBecome(d, hw'[d])
          BY <2>3, <1>1 DEF Hotplug, TypeOK
        <4>3. UnitAt(hw'[d]) \in {Absent, UnitAt(hw[d])}
          BY <4>1, <4>2 DEF MayBecome
        <4> QED
          BY <1>1, <2>3, <3>2, <4>3 DEF SessionInv, TypedUnit
      <3> QED
        BY <3>1, <3>2
    <2> QED
      BY <2>1, <2>2, <2>3
  <1> QED
    BY <1>1, <1>2, <1>3, <1>4, <1>5, <1>6, OtherSession

\* The invariant is inductive.
LEMMA NextInv == GuardInv /\ [Next]_vars => GuardInv'
  <1> SUFFICES ASSUME GuardInv, [Next]_vars PROVE GuardInv'
    OBVIOUS
  <1>1. TypeOK'
    BY NextType DEF GuardInv
  <1>2. CASE Next
    BY <1>1, <1>2, NextCases, PreflightStepInv, ConfirmStepInv, LocalStepInv, EndInv,
       WriteInv, MachineStepInv
  <1>3. CASE UNCHANGED vars
    BY <1>3 DEF vars, GuardInv, TypeOK, SessionInv, Control, Locked, Holding, Recorded,
       Compared, TypedUnit, Disk, UnitAt
  <1> QED
    BY <1>2, <1>3

\* The inductive invariant of the guard holds at all times.
LEMMA InvHolds == Spec => []GuardInv
  BY InitInv, NextInv, PTL DEF Spec

-----------------------------------------------------------------------------
\* A write goes to what was shown, off the root disk, apart from what changed
\* after the last probe.
THEOREM WritesAreGuarded == Spec => []GuardedWrite
  <1>1. GuardInv => GuardedWrite
    BY DEF GuardInv, SessionInv, Control, Recorded, Compared, GuardedWrite
  <1> QED
    BY <1>1, InvHolds, PTL

\* format keeps its policy up to the last probe.
THEOREM FormatKeepsPolicy == Spec => []FormatPolicy
  <1>1. GuardInv => FormatPolicy
    <2> SUFFICES ASSUME GuardInv, NEW p \in Sessions, pc[p] = "write", "content" \in fresh[p]
                 PROVE  /\ kind[p] # "raw" => content[Disk(p)] \notin Protected
                        /\ kind[p] = "format" => content[Disk(p)] = Blank
      BY DEF FormatPolicy
    <2>1. content[Disk(p)] = shown[p].content /\ Permits(kind[p], shown[p].content)
      BY DEF GuardInv, SessionInv, Control, Recorded, Compared
    <2> QED
      BY <2>1, GuardConstants DEF Permits
  <1> QED
    BY <1>1, InvHolds, PTL

\* What the user typed is what is written.
THEOREM TypedUnitIsWritten == Spec => []ConfirmedUnit
  <1>1. GuardInv => ConfirmedUnit
    BY DEF GuardInv, SessionInv, Control, Compared, TypedUnit, ConfirmedUnit
  <1> QED
    BY <1>1, InvHolds, PTL

\* Sessions exclude each other as long as only whole disks can be locked,
\* which is what the missing queue/ directory of partitions amounts to.
THEOREM WritersExclude ==
  ASSUME QueueNodes \subseteq Disks
  PROVE  Spec => []OneWriter
  <1>1. GuardInv => OneWriter
    <2> SUFFICES ASSUME GuardInv, NEW p \in Sessions, NEW q \in Sessions,
                        pc[p] = "write", pc[q] = "write", target[p] \in Tree(target[q])
                 PROVE  p = q
      BY DEF OneWriter
    <2>1. /\ target[p] \in Disks /\ target[q] \in Disks
          /\ lock[target[p]] = p /\ lock[target[q]] = q
      BY DEF GuardInv, SessionInv, Control, Locked, Holding, TypeOK
    <2>2. target[p] = target[q]
      BY <2>1, GuardConstants DEF Tree
    <2> QED
      BY <2>1, <2>2
  <1> QED
    BY <1>1, InvHolds, PTL
=============================================================================
