-------------------------- MODULE MapStoreProofs --------------------------
(***************************************************************************)
(* Theorems about the mapping file, for every set of names, links, devices *)
(* and processes.                                                          *)
(***************************************************************************)
EXTENDS MapStore, TLAPS

-----------------------------------------------------------------------------
(***************************************************************************)
(* The operators on mappings and commands.                                 *)
(***************************************************************************)
\* The command of an idle process is a command.
LEMMA NoCommandType == NoCommand \in Commands
  <1>1. (CHOOSE n \in Names : TRUE) \in Names /\ (CHOOSE t \in Links : TRUE) \in Links
    BY StoreConstants
  <1> QED
    BY <1>1 DEF NoCommand, Commands, Kinds, Targets

\* The empty mapping is a mapping.
LEMMA NoMapType == NoMap \in Maps
  BY DEF NoMap, Maps

\* Migrating a mapping gives a mapping.
LEMMA MigrateType ==
  ASSUME NEW m \in Maps
  PROVE  Migrate(m) \in Maps
  BY MapConstants DEF Migrate, Maps, Targets

\* A path leads to a device or to itself.
LEMMA RealType ==
  ASSUME NEW t, NEW seen \in SUBSET Devices
  PROVE  Real(t, seen) \in Devices \cup {t}
  BY MapConstants DEF Real

\* Normalising keeps a record a record, and changes a device only to a link.
LEMMA NormalisedType ==
  ASSUME NEW t, NEW seen \in SUBSET Devices
  PROVE  Normalised(t, seen) \in Links \cup {t}
  BY MapConstants, RealType DEF Normalised

\* What a mutator returns is a mapping.
LEMMA ApplyType ==
  ASSUME NEW c \in Commands, NEW m \in Maps, NEW seen \in SUBSET Devices,
         c.kind = "restore" => c.src \in Targets \cup {NoTarget}
  PROVE  Apply(c, m, seen) \in Maps
  BY DEF Apply, Maps, Commands

-----------------------------------------------------------------------------
(***************************************************************************)
(* Type correctness.  What a failed format puts back must be a record or   *)
(* nothing, which the type of src alone does not say.                      *)
(***************************************************************************)
RestoresRecord == \A p \in Procs :
    cmd[p].kind = "restore" => cmd[p].src \in Targets \cup {NoTarget}

\* The part of the type invariant about the memory of the processes.
ProcOK ==
    /\ pc \in [Procs -> PCs]
    /\ after \in [Procs -> {"idle", "decide", "mount", "done"}]
    /\ cmd \in [Procs -> Commands]
    /\ snap \in [Procs -> Maps] /\ base \in [Procs -> Maps] /\ new \in [Procs -> Maps]
    /\ temp \in [Procs -> {"none", "written", "fsynced"}]
    /\ RestoresRecord

\* The part about the file and the rest of the world.
WorldOK ==
    /\ file \in Files
    /\ pending \subseteq Files /\ file \in pending
    /\ torn \in BOOLEAN
    /\ present \subseteq Devices
    /\ lock \in [Homes -> Procs \cup {NoProc}]
    /\ started \in Nat

TypeInv == ProcOK /\ WorldOK

\* A process that ends its command keeps the types.
LEMMA FinishType ==
  ASSUME ProcOK, NEW p \in Procs, NEW next \in PCs, Finish(p, next)
  PROVE  ProcOK'
  <1> NoCommand.kind # "restore"
    BY DEF NoCommand
  <1> QED
    BY NoCommandType, NoMapType DEF ProcOK, Finish, RestoresRecord

\* So does one that proceeds with a command.
LEMMA ProceedType ==
  ASSUME ProcOK, NEW p \in Procs, NEW c \in Commands, Proceed(p, c),
         c.kind = "restore" => c.src \in Targets \cup {NoTarget}
  PROVE  ProcOK'
  BY NoMapType DEF ProcOK, Proceed, RestoresRecord, PCs

\* And one that begins to write.
LEMMA BeginWriteType ==
  ASSUME ProcOK, WorldOK, NEW p \in Procs, NEW m \in Maps,
         NEW next \in {"idle", "decide", "mount", "done"},
         BeginWrite(p, m, next), snap' \in [Procs -> Maps]
  PROVE  ProcOK' /\ lock' \in [Homes -> Procs \cup {NoProc}]
  BY StoreConstants DEF ProcOK, WorldOK, BeginWrite, RestoresRecord, PCs, Files

\* Releasing the lock keeps its type.
LEMMA UnlockedType ==
  ASSUME WorldOK, NEW p \in Procs
  PROVE  Unlocked(p) \in [Homes -> Procs \cup {NoProc}]
  BY StoreConstants DEF WorldOK, Unlocked

\* The initial states are well typed.
LEMMA InitType == Init => TypeInv
  <1> SUFFICES ASSUME Init PROVE ProcOK /\ WorldOK
    BY DEF TypeInv
  <1>1. NoCommand.kind # "restore"
    BY DEF NoCommand
  <1>2. ProcOK
    BY <1>1, NoCommandType, NoMapType DEF Init, ProcOK, RestoresRecord, PCs
  <1>3. WorldOK
    <2>1. PICK m \in InitialMaps : file = [map |-> m, synced |-> TRUE]
      BY DEF Init
    <2>2. file \in Files /\ pending = {file}
      BY <2>1, StoreConstants DEF Init, Files
    <2> QED
      BY <2>2 DEF Init, WorldOK
  <1> QED
    BY <1>2, <1>3

\* Deciding what to do keeps the types.
LEMMA DecideType ==
  ASSUME ProcOK, WorldOK, NEW p \in Procs, Decide(p)
  PROVE  ProcOK'
  <1> DEFINE c == cmd[p]
  <1>1. c \in Commands /\ snap[p] \in Maps /\ present \in SUBSET Devices
    BY DEF ProcOK, WorldOK
  <1>2. Migrate(file.map) \in Maps
    BY MigrateType DEF WorldOK, Files
  <1>3. "idle" \in PCs
    BY DEF PCs
  <1>4. CASE DecideMap(p)
    <2>1. ASSUME NEW t \in Links, Proceed(p, [cmd[p] EXCEPT !.target = t])
          PROVE  ProcOK'
      <3>1. [c EXCEPT !.target = t] \in Commands /\ [c EXCEPT !.target = t].kind # "restore"
        BY <1>1, <1>4 DEF Commands, DecideMap, Deciding, Targets
      <3> QED
        BY <3>1, <2>1, ProceedType
    <2> QED
      BY <1>3, <1>4, <2>1, FinishType DEF DecideMap
  <1>5. CASE DecideMapAgain(p)
    <2> DEFINE m == Migrate(file.map)
    <2>1. c.kind = "map" /\ c.old # NoName
      BY <1>5 DEF DecideMapAgain, Deciding
    <2>2. Mapped(m, c.old) => Normalised(m[c.old], present) \in Targets
      <3>1. c.old \in Names
        BY <1>1, <2>1 DEF Commands
      <3> QED
        BY <3>1, <1>1, <1>2, NormalisedType DEF Mapped, Maps, Targets
    <2>3. Mapped(m, c.old) =>
            LET d == [c EXCEPT !.old = NoName, !.target = Normalised(m[c.old], present)]
            IN  d \in Commands /\ d.kind # "restore"
      BY <1>1, <2>1, <2>2 DEF Commands
    <2> QED
      BY <1>3, <1>5, <2>3, FinishType, ProceedType DEF DecideMapAgain
  <1>6. CASE DecideUnmap(p)
    BY <1>1, <1>6, ProceedType DEF DecideUnmap, Deciding
  <1>7. ASSUME NEW t, NEW m \in Maps, RemoveTargets(p, t, m),
               t \in Targets \cup Devices \cup {NoTarget}
        PROVE  ProcOK'
    <2> DEFINE r == Real(t, present)
               d == [c EXCEPT !.kind = "unmapid", !.src = r, !.names = NamesOf(m, r, present)]
    <2>1. r \in Targets \cup Devices \cup {NoTarget}
      BY <1>1, <1>7, RealType
    <2>2. d \in Commands /\ d.kind # "restore"
      BY <1>1, <2>1 DEF Commands, Kinds, NamesOf
    <2> QED
      BY <1>3, <1>7, <2>2, FinishType, ProceedType DEF RemoveTargets
  <1>8. CASE DecideUnmapId(p)
    BY <1>1, <1>7, <1>8 DEF DecideUnmapId, Commands
  <1>9. CASE DecideUnmapAgain(p)
    <2>1. CASE Mapped(Migrate(file.map), c.name)
      <3>1. Migrate(file.map)[c.name] \in Targets
        BY <1>1, <1>2, <2>1 DEF Mapped, Maps, Commands
      <3> QED
        BY <1>2, <1>3, <1>7, <1>9, <3>1, FinishType DEF DecideUnmapAgain
    <2> QED
      BY <1>3, <1>9, <2>1, FinishType DEF DecideUnmapAgain
  <1>10. CASE DecideOpen(p)
    <2>1. ASSUME NEW n \in Names, NEW s \in Targets \cup Devices,
                 Normalised(s, present) # s,
                 Proceed(p, [c EXCEPT !.name = n, !.src = s,
                                      !.target = Normalised(s, present)])
          PROVE  ProcOK'
      <3> DEFINE d == [c EXCEPT !.name = n, !.src = s, !.target = Normalised(s, present)]
      <3>1. Normalised(s, present) \in Targets
        BY <1>1, <2>1, NormalisedType DEF Targets
      <3>2. d \in Commands /\ d.kind # "restore"
        BY <1>1, <1>10, <2>1, <3>1 DEF Commands, DecideOpen, Deciding
      <3> QED
        BY <2>1, <3>2, ProceedType
    <2>2. CASE Finish(p, "idle")
      BY <1>3, <2>2, FinishType
    <2>3. CASE c.src = NoTarget /\ ~Finish(p, "idle")
      <3>1. PICK n \in Names :
               /\ Mapped(snap[p], n)
               /\ Normalised(snap[p][n], present) # snap[p][n]
               /\ Proceed(p, [c EXCEPT !.name = n, !.src = snap[p][n],
                                       !.target = Normalised(snap[p][n], present)])
        BY <1>1, <1>10, <2>3 DEF DecideOpen, Commands
      <3>2. snap[p][n] \in Targets
        BY <1>1, <3>1 DEF Mapped, Maps
      <3> QED
        BY <2>1, <3>1, <3>2
    <2>4. CASE c.src # NoTarget /\ ~Finish(p, "idle")
      <3>1. PICK n \in Names :
               /\ Normalised(c.src, present) # c.src
               /\ Proceed(p, [c EXCEPT !.name = n, !.src = c.src,
                                       !.target = Normalised(c.src, present)])
        BY <1>1, <1>10, <2>4 DEF DecideOpen, NamesOf
      <3>2. c.src \in Targets \cup Devices
        BY <1>1, <2>4 DEF Commands
      <3> QED
        BY <2>1, <3>1, <3>2
    <2> QED
      BY <2>2, <2>3, <2>4
  <1>11. CASE DecideFormat(p)
    <2> DEFINE link == IF snap[p][c.name] = NoTarget THEN Preferred[c.src] ELSE snap[p][c.name]
               d == [c EXCEPT !.target = link]
    <2>1. CASE c.src \in present
      <3>1. link \in Targets
        BY <1>1, <2>1, MapConstants DEF Maps, Commands, Targets
      <3>2. d \in Commands /\ d.kind # "restore"
        BY <1>1, <1>11, <3>1 DEF Commands, DecideFormat, Deciding
      <3> QED
        BY <1>3, <1>11, <3>2, FinishType, ProceedType DEF DecideFormat
    <2> QED
      BY <1>3, <1>11, <2>1, FinishType DEF DecideFormat
  <1> QED
    BY <1>4, <1>5, <1>6, <1>8, <1>9, <1>10, <1>11 DEF Decide

\* Every step keeps the types.
LEMMA NextType == TypeInv /\ [Next]_vars => TypeInv'
  <1> SUFFICES ASSUME ProcOK, WorldOK, [Next]_vars
               PROVE  ProcOK' /\ WorldOK'
    BY DEF TypeInv
  <1>1. "idle" \in PCs /\ "done" \in PCs
    BY DEF PCs
  <1>2. ASSUME NEW p \in Procs, Start(p)
        PROVE  ProcOK' /\ WorldOK'
    <2>1. PICK c \in Typed : cmd' = [cmd EXCEPT ![p] = c]
      BY <1>2 DEF Start
    <2>2. c \in Commands /\ c.kind # "restore"
      BY DEF Typed
    <2>3. ProcOK'
      BY <1>2, <2>1, <2>2 DEF Start, ProcOK, RestoresRecord, PCs
    <2> QED
      BY <1>2, <2>3 DEF Start, WorldOK, store
  <1>3. ASSUME NEW p \in Procs, ReadMap(p)
        PROVE  ProcOK' /\ WorldOK'
    <2>1. file.map \in Maps /\ Migrate(file.map) \in Maps
      BY MigrateType DEF WorldOK, Files
    <2>2. ProcOK' /\ lock' \in [Homes -> Procs \cup {NoProc}]
      <3>1. CASE Finish(p, "idle") /\ UNCHANGED lock
        BY <1>1, <3>1, FinishType DEF WorldOK
      <3>2. CASE /\ snap' = [snap EXCEPT ![p] = file.map]
                 /\ pc' = [pc EXCEPT ![p] = "decide"]
                 /\ UNCHANGED <<lock, after, cmd, base, new, temp>>
        BY <2>1, <3>2 DEF WorldOK, ProcOK, RestoresRecord, PCs
      <3>3. CASE /\ BeginWrite(p, Migrate(file.map), "decide")
                 /\ snap' = [snap EXCEPT ![p] = Migrate(file.map)]
        <4>1. snap' \in [Procs -> Maps]
          BY <2>1, <3>3 DEF ProcOK
        <4> QED
          BY <2>1, <3>3, <4>1, BeginWriteType
      <3> QED
        BY <1>3, <3>1, <3>2, <3>3 DEF ReadMap
    <2> QED
      BY <1>3, <2>2 DEF ReadMap, WorldOK, store
  <1>4. ASSUME NEW p \in Procs, Decide(p)
        PROVE  ProcOK' /\ WorldOK'
    <2>1. UNCHANGED Rest
      BY <1>4 DEF Decide, DecideMap, DecideMapAgain, DecideUnmap, DecideUnmapId,
                  DecideUnmapAgain, DecideOpen, DecideFormat
    <2> QED
      BY <1>4, <2>1, DecideType DEF Rest, store, WorldOK
  <1>5. ASSUME NEW p \in Procs, LockAndMutate(p)
        PROVE  ProcOK' /\ WorldOK'
    <2> DEFINE m == Apply(cmd[p], Migrate(file.map), present)
    <2>1. m \in Maps
      <3>1. /\ Migrate(file.map) \in Maps /\ cmd[p] \in Commands
            /\ present \in SUBSET Devices
            /\ cmd[p].kind = "restore" => cmd[p].src \in Targets \cup {NoTarget}
        BY MigrateType DEF ProcOK, WorldOK, Files, RestoresRecord
      <3> QED
        BY <3>1, ApplyType
    <2>2. ProcOK' /\ lock' \in [Homes -> Procs \cup {NoProc}]
      <3>1. CASE Finish(p, "idle") /\ UNCHANGED lock
        BY <1>1, <3>1, FinishType DEF WorldOK
      <3>2. CASE BeginWrite(p, m, Onward(cmd[p])) /\ UNCHANGED snap
        <4>1. snap' \in [Procs -> Maps]
          BY <3>2 DEF ProcOK
        <4>2. Onward(cmd[p]) \in {"idle", "decide", "mount", "done"}
          BY DEF Onward
        <4> QED
          BY <2>1, <3>2, <4>1, <4>2, BeginWriteType
      <3> QED
        BY <1>5, <3>1, <3>2 DEF LockAndMutate
    <2> QED
      BY <1>5, <2>2 DEF LockAndMutate, WorldOK, store
  <1>6. ASSUME NEW p \in Procs, WriteTemp(p)
        PROVE  ProcOK' /\ WorldOK'
    BY <1>6 DEF WriteTemp, ProcOK, WorldOK, RestoresRecord, PCs, store
  <1>7. ASSUME NEW p \in Procs, Replace(p)
        PROVE  ProcOK' /\ WorldOK'
    <2>1. file' \in Files
      BY <1>7 DEF Replace, ProcOK, Files
    <2>2. WorldOK'
      BY <1>7, <2>1 DEF Replace, WorldOK
    <2>3. ProcOK'
      BY <1>7 DEF Replace, ProcOK, RestoresRecord, PCs
    <2> QED
      BY <2>2, <2>3
  <1>8. ASSUME NEW p \in Procs, SyncDir(p)
        PROVE  ProcOK' /\ WorldOK'
    <2>1. ProcOK'
      <3>1. CASE after[p] \in {"idle", "done"} /\ Finish(p, after[p])
        BY <1>1, <3>1, FinishType
      <3>2. CASE /\ after[p] \in {"decide", "mount"}
                 /\ pc' = [pc EXCEPT ![p] = after[p]]
                 /\ UNCHANGED <<after, cmd, snap, base, new, temp>>
        BY <3>2 DEF ProcOK, RestoresRecord, PCs
      <3> QED
        BY <1>8, <3>1, <3>2 DEF SyncDir
    <2>2. WorldOK'
      BY <1>8, UnlockedType DEF SyncDir, WorldOK
    <2> QED
      BY <2>1, <2>2
  <1>9. ASSUME NEW p \in Procs, WriteFails(p) \/ SyncDirFails(p)
        PROVE  ProcOK' /\ WorldOK'
    <2>1. ProcOK'
      BY <1>1, <1>9, FinishType DEF WriteFails, SyncDirFails
    <2>2. WorldOK'
      BY <1>9, UnlockedType DEF WriteFails, SyncDirFails, WorldOK, store
    <2> QED
      BY <2>1, <2>2
  <1>10. ASSUME NEW p \in Procs, Mounted(p) \/ Report(p)
         PROVE  ProcOK' /\ WorldOK'
    <2>1. ProcOK'
      BY <1>1, <1>10, FinishType DEF Mounted, Report
    <2>2. WorldOK'
      BY <1>10 DEF Mounted, Report, Rest, WorldOK, store
    <2> QED
      BY <2>1, <2>2
  <1>11. ASSUME NEW p \in Procs, MountFails(p)
         PROVE  ProcOK' /\ WorldOK'
    <2> DEFINE s == Migrate(base[p])[cmd[p].name]
               d == [cmd[p] EXCEPT !.kind = "restore", !.src = s]
    <2>1. cmd[p] \in Commands /\ Migrate(base[p]) \in Maps
      BY MigrateType DEF ProcOK
    <2>2. s \in Targets \cup {NoTarget}
      BY <2>1 DEF Commands, Maps
    <2>3. d \in Commands /\ d.src \in Targets \cup {NoTarget}
      BY <2>1, <2>2 DEF Commands, Kinds
    <2>4. ProcOK'
      BY <1>11, <2>3, ProceedType DEF MountFails
    <2> QED
      BY <1>11, <2>4 DEF MountFails, Rest, WorldOK, store
  <1>12. ASSUME NEW p \in Procs, Kill(p)
         PROVE  ProcOK' /\ WorldOK'
    <2>1. ProcOK'
      BY <1>1, <1>12, FinishType DEF Kill
    <2>2. lock' \in [Homes -> Procs \cup {NoProc}]
      BY <1>12, UnlockedType DEF Kill, WorldOK
    <2> QED
      BY <1>12, <2>1, <2>2 DEF Kill, WorldOK, store
  <1>13. ASSUME PowerLoss
         PROVE  ProcOK' /\ WorldOK'
    <2>1. NoCommand.kind # "restore"
      BY DEF NoCommand
    <2>2. ProcOK'
      BY <1>1, <1>13, <2>1, NoCommandType, NoMapType DEF PowerLoss, ProcOK, RestoresRecord
    <2>3. file' \in Files /\ pending' = {file'} /\ torn' \in BOOLEAN
      BY <1>13 DEF PowerLoss, WorldOK, Files
    <2>4. WorldOK'
      BY <1>13, <2>3 DEF PowerLoss, WorldOK
    <2> QED
      BY <2>2, <2>4
  <1>14. CASE Hotplug
    BY <1>14 DEF Hotplug, ProcOK, WorldOK, RestoresRecord, store, proc
  <1>15. CASE UNCHANGED vars
    BY <1>15 DEF vars, ProcOK, WorldOK, RestoresRecord
  <1> QED
    BY <1>2, <1>3, <1>4, <1>5, <1>6, <1>7, <1>8, <1>9, <1>10, <1>11, <1>12, <1>13,
       <1>14, <1>15 DEF Next, Step, Fail

\* The memory of the processes and the file always have their types.
THEOREM TypeCorrect == Spec => []TypeOK
  <1>1. TypeInv => TypeOK
    BY DEF TypeInv, ProcOK, WorldOK, TypeOK
  <1> QED
    BY <1>1, InitType, NextType, PTL DEF Spec

-----------------------------------------------------------------------------
(***************************************************************************)
(* The lock and the temporary file.                                        *)
(***************************************************************************)
\* From reading the map for an update to the end of the write, the process holds
\* the lock of its home.
LockHeld == \A p \in Procs :
    pc[p] \in {"write", "replace", "dirsync"} => lock[HomeOf[p]] = p

\* What is about to replace the map file is on disk.
Fsynced == \A p \in Procs : pc[p] = "replace" => temp[p] = "fsynced"

SafeInv == TypeInv /\ LockHeld /\ Fsynced /\ NeverTorn

\* What process q keeps in memory does not change.
Same(q) ==
    /\ pc'[q] = pc[q] /\ after'[q] = after[q] /\ cmd'[q] = cmd[q]
    /\ base'[q] = base[q] /\ new'[q] = new[q] /\ temp'[q] = temp[q]

\* The memory of a process changes only by its own steps.
LEMMA OthersSame ==
  ASSUME ProcOK, NEW p \in Procs, NEW q \in Procs, p # q,
         Start(p) \/ Step(p) \/ Fail(p)
  PROVE  Same(q)
  <1>1. ASSUME NEW next, Finish(p, next)
        PROVE  Same(q)
    BY <1>1 DEF Finish, Same, ProcOK
  <1>2. ASSUME NEW c, Proceed(p, c)
        PROVE  Same(q)
    BY <1>2 DEF Proceed, Same, ProcOK
  <1>3. ASSUME NEW m, NEW next, BeginWrite(p, m, next)
        PROVE  Same(q)
    BY <1>3 DEF BeginWrite, Same, ProcOK
  <1>4. CASE Start(p)
    BY <1>4 DEF Start, Same, ProcOK
  <1>5. CASE ReadMap(p)
    BY <1>1, <1>3, <1>5 DEF ReadMap, Same, ProcOK
  <1>6. CASE Decide(p)
    BY <1>1, <1>2, <1>6 DEF Decide, DecideMap, DecideMapAgain, DecideUnmap, DecideUnmapId,
                            DecideUnmapAgain, RemoveTargets, DecideOpen, DecideFormat
  <1>7. CASE LockAndMutate(p)
    BY <1>1, <1>3, <1>7 DEF LockAndMutate
  <1>8. CASE WriteTemp(p) \/ Replace(p)
    BY <1>8 DEF WriteTemp, Replace, Same, ProcOK
  <1>9. CASE SyncDir(p)
    BY <1>1, <1>9 DEF SyncDir, Same, ProcOK
  <1>10. CASE Mounted(p) \/ Report(p) \/ WriteFails(p) \/ SyncDirFails(p) \/ Kill(p)
    BY <1>1, <1>10 DEF Mounted, Report, WriteFails, SyncDirFails, Kill
  <1>11. CASE MountFails(p)
    BY <1>2, <1>11 DEF MountFails
  <1> QED
    BY <1>4, <1>5, <1>6, <1>7, <1>8, <1>9, <1>10, <1>11 DEF Step, Fail

\* p has just read the map under the lock and computed what to write.
Began(p) ==
    /\ lock'[HomeOf[p]] = p
    /\ UNCHANGED store
    /\ base'[p] = file.map
    /\ IF after'[p] = "decide"
       THEN pc[p] = "read" /\ new'[p] = Migrate(file.map)
       ELSE /\ pc[p] = "update" /\ cmd'[p] = cmd[p]
            /\ Accepts(cmd[p], Migrate(file.map), present)
            /\ new'[p] = Apply(cmd[p], Migrate(file.map), present)

\* How a process gets into a write, and through it.
LEMMA OwnStep ==
  ASSUME ProcOK, WorldOK, NEW p \in Procs, Start(p) \/ Step(p) \/ Fail(p)
  PROVE  /\ pc'[p] = "write" => Began(p)
         /\ pc'[p] = "replace" => WriteTemp(p)
         /\ pc'[p] = "dirsync" => Replace(p)
         /\ pc'[p] = "update" => pc[p] \in {"decide", "mount"} /\ after'[p] = "idle"
         /\ UNCHANGED store \/ Replace(p) \/ SyncDir(p)
  <1> DEFINE Elsewhere == pc'[p] \notin {"write", "replace", "dirsync"}
  <1>1. ASSUME NEW next \in {"idle", "done"}, Finish(p, next)
        PROVE  Elsewhere /\ pc'[p] # "update"
    BY <1>1 DEF Finish, ProcOK
  <1>2. ASSUME NEW c, Proceed(p, c)
        PROVE  Elsewhere /\ after'[p] = "idle"
    BY <1>2 DEF Proceed, ProcOK
  <1>3. CASE Start(p)
    BY <1>3 DEF Start, ProcOK
  <1>4. CASE ReadMap(p)
    <2>1. CASE /\ BeginWrite(p, Migrate(file.map), "decide")
      BY <1>4, <2>1, StoreConstants DEF ReadMap, BeginWrite, Began, ProcOK, WorldOK
    <2>2. CASE ~BeginWrite(p, Migrate(file.map), "decide")
      BY <1>1, <1>4, <2>2 DEF ReadMap, ProcOK
    <2> QED
      BY <2>1, <2>2
  <1>5. CASE Decide(p)
    BY <1>1, <1>2, <1>5 DEF Decide, DecideMap, DecideMapAgain, DecideUnmap, DecideUnmapId,
                            DecideUnmapAgain, RemoveTargets, DecideOpen, DecideFormat, Rest,
                            Deciding
  <1>6. CASE LockAndMutate(p)
    <2> DEFINE m == Apply(cmd[p], Migrate(file.map), present)
    <2>1. CASE Finish(p, "idle")
      BY <1>1, <1>6, <2>1 DEF LockAndMutate
    <2>2. CASE ~Finish(p, "idle")
      <3>1. /\ BeginWrite(p, m, Onward(cmd[p])) /\ UNCHANGED store
            /\ Accepts(cmd[p], Migrate(file.map), present)
        BY <1>6, <2>2 DEF LockAndMutate
      <3>2. Onward(cmd[p]) # "decide"
        BY DEF Onward
      <3>3. /\ pc'[p] = "write" /\ lock'[HomeOf[p]] = p /\ base'[p] = file.map
            /\ after'[p] = Onward(cmd[p]) /\ cmd' = cmd /\ new'[p] = m
        BY <3>1, StoreConstants DEF BeginWrite, ProcOK, WorldOK
      <3> QED
        BY <1>6, <3>1, <3>2, <3>3 DEF Began, LockAndMutate
    <2> QED
      BY <2>1, <2>2
  <1>7. CASE WriteTemp(p)
    BY <1>7 DEF WriteTemp, ProcOK
  <1>8. CASE Replace(p)
    BY <1>8 DEF Replace, ProcOK
  <1>9. CASE SyncDir(p)
    BY <1>1, <1>9 DEF SyncDir, ProcOK
  <1>10. CASE Mounted(p) \/ Report(p) \/ WriteFails(p) \/ SyncDirFails(p) \/ Kill(p)
    BY <1>1, <1>10 DEF Mounted, Report, WriteFails, SyncDirFails, Kill, Rest
  <1>11. CASE MountFails(p)
    BY <1>2, <1>11 DEF MountFails, Rest
  <1> QED
    BY <1>3, <1>4, <1>5, <1>6, <1>7, <1>8, <1>9, <1>10, <1>11 DEF Step, Fail

\* A process touches no lock but the one of its home, and that one only when it
\* is free or its own.
LEMMA LockStep ==
  ASSUME ProcOK, LockHeld, NEW p \in Procs, Start(p) \/ Step(p) \/ Fail(p)
  PROVE  \/ lock' = lock
         \/ /\ lock[HomeOf[p]] \in {NoProc, p}
            /\ \E x : lock' = [lock EXCEPT ![HomeOf[p]] = x]
  <1>1. CASE Start(p)
    BY <1>1 DEF Start
  <1>2. CASE ReadMap(p) \/ LockAndMutate(p)
    BY <1>2 DEF ReadMap, LockAndMutate, BeginWrite, Free
  <1>3. CASE Decide(p)
    BY <1>3 DEF Decide, DecideMap, DecideMapAgain, DecideUnmap, DecideUnmapId,
                DecideUnmapAgain, DecideOpen, DecideFormat, Rest
  <1>4. CASE WriteTemp(p) \/ Replace(p) \/ Mounted(p) \/ Report(p) \/ MountFails(p)
    BY <1>4 DEF WriteTemp, Replace, Mounted, Report, MountFails, Rest
  <1>5. CASE SyncDir(p) \/ WriteFails(p) \/ SyncDirFails(p) \/ Kill(p)
    BY <1>5 DEF SyncDir, WriteFails, SyncDirFails, Kill, Unlocked, LockHeld
  <1> QED
    BY <1>1, <1>2, <1>3, <1>4, <1>5 DEF Step, Fail

\* A step of p leaves the locks of the other processes that write alone.
LEMMA LockHeldStep ==
  ASSUME TypeInv, LockHeld, NEW p \in Procs, Start(p) \/ Step(p) \/ Fail(p)
  PROVE  LockHeld'
  <1> USE DEF TypeInv
  <1>1. ASSUME NEW q \in Procs, pc'[q] \in {"write", "replace", "dirsync"}
        PROVE  lock'[HomeOf[q]] = q
    <2>1. CASE q = p /\ pc'[q] = "write"
      BY <2>1, OwnStep DEF Began
    <2>2. CASE q = p /\ pc'[q] # "write"
      <3>1. WriteTemp(p) \/ Replace(p)
        BY <1>1, <2>2, OwnStep
      <3> QED
        BY <2>2, <3>1 DEF WriteTemp, Replace, LockHeld
    <2>3. CASE q # p
      <3>1. pc'[q] = pc[q]
        BY <2>3, OthersSame DEF Same
      <3>2. lock[HomeOf[q]] = q
        BY <1>1, <3>1 DEF LockHeld
      <3> QED
        BY <2>3, <3>2, LockStep, StoreConstants DEF WorldOK
    <2> QED
      BY <2>1, <2>2, <2>3
  <1> QED
    BY <1>1 DEF LockHeld

\* The lock discipline and the durability of the file are inductive.
LEMMA SafeStep == SafeInv /\ [Next]_vars => SafeInv'
  <1> SUFFICES ASSUME SafeInv, [Next]_vars
               PROVE  SafeInv'
    OBVIOUS
  <1>1. TypeInv'
    BY NextType DEF SafeInv
  <1>2. ASSUME NEW p \in Procs, Start(p) \/ Step(p) \/ Fail(p)
        PROVE  LockHeld' /\ Fsynced' /\ NeverTorn'
    <2>1. LockHeld'
      BY <1>2, LockHeldStep DEF SafeInv
    <2>2. ASSUME NEW q \in Procs, pc'[q] = "replace"
          PROVE  temp'[q] = "fsynced"
      <3>1. CASE q = p
        BY <1>2, <2>2, <3>1, OwnStep DEF SafeInv, TypeInv, ProcOK, WriteTemp
      <3>2. CASE q # p
        BY <1>2, <2>2, <3>2, OthersSame DEF SafeInv, TypeInv, Same, Fsynced
      <3> QED
        BY <3>1, <3>2
    <2>3. NeverTorn'
      <3>1. CASE UNCHANGED store
        BY <3>1 DEF SafeInv, NeverTorn, store
      <3>2. CASE Replace(p)
        <4>1. temp[p] = "fsynced"
          BY <3>2 DEF SafeInv, Fsynced, Replace
        <4>2. file'.synced
          BY <3>2, <4>1 DEF Replace
        <4> QED
          BY <3>2, <4>2 DEF SafeInv, NeverTorn, Replace
      <3>3. CASE SyncDir(p)
        BY <3>3 DEF SafeInv, TypeInv, WorldOK, NeverTorn, SyncDir
      <3> QED
        BY <1>2, <3>1, <3>2, <3>3, OwnStep DEF SafeInv, TypeInv
    <2> QED
      BY <2>1, <2>2, <2>3 DEF Fsynced
  <1>3. CASE PowerLoss
    <2>1. \A p \in Procs : pc'[p] = "idle"
      BY <1>3 DEF PowerLoss
    <2>2. PICK f \in pending : /\ file' = [f EXCEPT !.synced = TRUE]
                               /\ pending' = {file'}
                               /\ torn' = (torn \/ ~f.synced)
      BY <1>3 DEF PowerLoss
    <2>3. f \in Files /\ f.synced /\ ~torn
      BY DEF SafeInv, TypeInv, WorldOK, NeverTorn
    <2>4. file'.synced
      BY <2>2, <2>3 DEF Files
    <2>5. NeverTorn'
      BY <2>2, <2>3, <2>4 DEF NeverTorn
    <2> QED
      BY <1>1, <2>1, <2>5 DEF SafeInv, LockHeld, Fsynced
  <1>4. CASE Hotplug \/ UNCHANGED vars
    BY <1>1, <1>4 DEF Hotplug, vars, store, proc, SafeInv, LockHeld, Fsynced, NeverTorn
  <1> QED
    BY <1>1, <1>2, <1>3, <1>4 DEF Next, SafeInv

\* The initial states satisfy it.
LEMMA SafeInit == Init => SafeInv
  <1> SUFFICES ASSUME Init PROVE SafeInv
    OBVIOUS
  <1>1. NeverTorn
    BY DEF Init, NeverTorn
  <1>2. LockHeld /\ Fsynced
    BY DEF Init, LockHeld, Fsynced
  <1> QED
    BY <1>1, <1>2, InitType DEF SafeInv

\* A power loss at any moment leaves a complete map file, whatever the homes of
\* the processes: what os.replace puts in place has been fsynced.
THEOREM MapNeverTorn == Spec => []NeverTorn
  <1>1. SafeInv => NeverTorn
    BY DEF SafeInv
  <1> QED
    BY <1>1, SafeInit, SafeStep, PTL DEF Spec

\* A command goes on after its write only when no power loss can take the write
\* back: it leaves dirsync in good order by the directory's fsync alone.
THEOREM AcknowledgedIsDurable == Spec => AckedDurable
  <1>1. ASSUME SafeInv, [Next]_vars, NEW p \in Procs, pc[p] = "dirsync",
               pc'[p] \in {"decide", "mount", "done"}
        PROVE  pending' = {file'}
    <2> ProcOK
      BY <1>1 DEF SafeInv, TypeInv
    <2>1. CASE Start(p) \/ Step(p) \/ Fail(p)
      <3>1. SyncDir(p) \/ SyncDirFails(p) \/ Kill(p)
        BY <1>1, <2>1
        DEF Start, Step, Fail, ReadMap, Decide, Deciding, DecideMap, DecideMapAgain, DecideUnmap,
            DecideUnmapId, DecideUnmapAgain, DecideOpen, DecideFormat, LockAndMutate, WriteTemp,
            Replace, Mounted, MountFails, Report, WriteFails
      <3>2. ~SyncDirFails(p) /\ ~Kill(p)
        BY <1>1 DEF SyncDirFails, Kill, Finish, ProcOK
      <3> QED
        BY <3>1, <3>2 DEF SyncDir
    <2>2. ASSUME NEW q \in Procs, q # p, Start(q) \/ Step(q) \/ Fail(q)
          PROVE  FALSE
      BY <1>1, <2>2, OthersSame DEF Same
    <2>3. CASE PowerLoss \/ Hotplug \/ UNCHANGED vars
      BY <1>1, <2>3 DEF PowerLoss, Hotplug, proc, vars
    <2> QED
      BY <1>1, <2>1, <2>2, <2>3 DEF Next
  <1>2. SafeInv /\ [Next]_vars =>
          [\A p \in Procs :
             pc[p] = "dirsync" /\ pc'[p] \in {"decide", "mount", "done"}
                => pending' = {file'}]_vars
    BY <1>1
  <1> QED
    BY <1>2, SafeInit, SafeStep, PTL DEF Spec, AckedDurable

-----------------------------------------------------------------------------
(***************************************************************************)
(* One home: no update is lost.                                            *)
(***************************************************************************)
\* The processes belong to one home, so there is one lock for the one file.
SharedHome == \A p, q \in Procs : HomeOf[p] = HomeOf[q]

\* What p writes is its mutator, or the migration, applied to what it read.
Prepared == \A p \in Procs :
    Writing(p) =>
        IF after[p] = "decide"
        THEN new[p] = Migrate(base[p])
        ELSE \E seen \in SUBSET Devices :
                /\ Accepts(cmd[p], Migrate(base[p]), seen)
                /\ new[p] = Apply(cmd[p], Migrate(base[p]), seen)

UpdateInv == SafeInv /\ NoLostUpdate /\ Prepared

\* With one lock for all, a process that writes is alone in it until it is done,
\* and the map it read is the map it replaces.
LEMMA UpdateStep ==
  ASSUME SharedHome
  PROVE  UpdateInv /\ [Next]_vars => UpdateInv'
  <1> SUFFICES ASSUME UpdateInv, [Next]_vars
               PROVE  UpdateInv'
    OBVIOUS
  <1>1. SafeInv'
    BY SafeStep DEF UpdateInv
  <1>2. ASSUME NEW p \in Procs, Start(p) \/ Step(p) \/ Fail(p), NEW q \in Procs, Writing(q)'
        PROVE  /\ base'[q] = file'.map
               /\ IF after'[q] = "decide"
                  THEN new'[q] = Migrate(base'[q])
                  ELSE \E seen \in SUBSET Devices :
                          /\ Accepts(cmd'[q], Migrate(base'[q]), seen)
                          /\ new'[q] = Apply(cmd'[q], Migrate(base'[q]), seen)
    <2> USE DEF UpdateInv, SafeInv, TypeInv
    <2>1. CASE q = p /\ pc'[q] = "write"
      <3>1. Began(p) /\ present \in SUBSET Devices
        BY <1>2, <2>1, OwnStep DEF WorldOK
      <3> QED
        BY <2>1, <3>1 DEF Began, store
    <2>2. CASE q = p /\ pc'[q] = "replace"
      <3>1. WriteTemp(p)
        BY <1>2, <2>2, OwnStep
      <3>2. /\ Writing(p) /\ base' = base /\ new' = new /\ cmd' = cmd
            /\ after' = after /\ file' = file
        BY <3>1 DEF WriteTemp, Writing, store
      <3> QED
        BY <2>2, <3>2 DEF NoLostUpdate, Prepared
    <2>3. CASE q # p
      <3>1. Same(q) /\ Writing(q)
        BY <1>2, <2>3, OthersSame DEF Same, Writing
      <3>2. ~Replace(p)
        <4>1. lock[HomeOf[q]] = q
          BY <3>1 DEF LockHeld, Writing
        <4>2. pc[p] = "replace" => lock[HomeOf[p]] = p
          BY DEF LockHeld
        <4> QED
          BY <2>3, <4>1, <4>2 DEF Replace, SharedHome
      <3>3. file' = file
        BY <1>2, <3>2, OwnStep DEF SyncDir, store
      <3> QED
        BY <3>1, <3>3 DEF Same, NoLostUpdate, Prepared
    <2> QED
      BY <1>2, <2>1, <2>2, <2>3 DEF Writing
  <1>3. CASE PowerLoss
    BY <1>1, <1>3 DEF PowerLoss, UpdateInv, NoLostUpdate, Prepared, Writing
  <1>4. CASE Hotplug \/ UNCHANGED vars
    BY <1>1, <1>4 DEF Hotplug, vars, store, proc, UpdateInv, NoLostUpdate, Prepared, Writing
  <1> QED
    BY <1>1, <1>2, <1>3, <1>4 DEF Next, UpdateInv, NoLostUpdate, Prepared

\* The initial states satisfy it.
LEMMA UpdateInit == Init => UpdateInv
  BY SafeInit DEF Init, UpdateInv, NoLostUpdate, Prepared, Writing

\* Processes of one home lose no update: each replaces the map it has read.
THEOREM NoUpdateLost ==
  ASSUME SharedHome
  PROVE  Spec => []NoLostUpdate
  <1>1. UpdateInv => NoLostUpdate
    BY DEF UpdateInv
  <1> QED
    BY <1>1, UpdateInit, UpdateStep, PTL DEF Spec

-----------------------------------------------------------------------------
(***************************************************************************)
(* Refinement: the file implements the atomic map.                         *)
(***************************************************************************)
\* A command that waits for the lock to apply its mutator has no write behind it.
Waiting == \A p \in Procs : pc[p] = "update" => after[p] = "idle"

RefineInv == UpdateInv /\ Waiting

\* Waiting holds in every step.
LEMMA RefineStep ==
  ASSUME SharedHome
  PROVE  RefineInv /\ [Next]_vars => RefineInv'
  <1> SUFFICES ASSUME RefineInv, [Next]_vars
               PROVE  Waiting'
    BY UpdateStep DEF RefineInv
  <1> USE DEF RefineInv, UpdateInv, SafeInv, TypeInv
  <1>1. ASSUME NEW p \in Procs, Start(p) \/ Step(p) \/ Fail(p), NEW q \in Procs,
               pc'[q] = "update"
        PROVE  after'[q] = "idle"
    <2>1. CASE q = p
      BY <1>1, <2>1, OwnStep
    <2>2. CASE q # p
      BY <1>1, <2>2, OthersSame DEF Same, Waiting
    <2> QED
      BY <2>1, <2>2
  <1>2. CASE PowerLoss
    BY <1>2 DEF PowerLoss, Waiting
  <1>3. CASE Hotplug \/ UNCHANGED vars
    BY <1>3 DEF Hotplug, vars, proc, Waiting
  <1> QED
    BY <1>1, <1>2, <1>3 DEF Next, Waiting

\* A step of a process changes no request but its own.
LEMMA RequestsStep ==
  ASSUME ProcOK, NEW p \in Procs, Start(p) \/ Step(p) \/ Fail(p)
  PROVE  Requests' = [Requests EXCEPT ![p] = Requests'[p]]
  <1>1. ASSUME NEW q \in Procs, q # p
        PROVE  Requests'[q] = Requests[q]
    BY <1>1, OthersSame DEF Same, Requests
  <1> QED
    BY <1>1 DEF Requests

\* The mappings that a power loss may leave.
Survivors == {f.map : f \in pending}

\* The atomic map reads mappings and commands as the file does.
LEMMA SameOperators ==
  ASSUME NEW c \in Commands, NEW m \in Maps, NEW seen \in SUBSET Devices
  PROVE  /\ Atomic!Commands = Commands /\ Atomic!Migrate(m) = Migrate(m)
         /\ Atomic!Accepts(c, m, seen) <=> Accepts(c, m, seen)
         /\ Atomic!Apply(c, m, seen) = Apply(c, m, seen)
  <1>1. Atomic!Commands = Commands
    BY DEF Atomic!Commands, Commands, Atomic!Kinds, Kinds, Atomic!Targets, Targets
  <1>2. Atomic!Migrate(m) = Migrate(m)
    BY DEF Atomic!Migrate, Migrate
  <1>3. \A n \in Names : Atomic!Mapped(m, n) <=> Mapped(m, n)
    BY DEF Atomic!Mapped, Mapped
  <1>4. \A t : Atomic!Real(t, seen) = Real(t, seen)
    BY DEF Atomic!Real, Real, Atomic!Targets, Targets
  <1>5. \A r : Atomic!NamesOf(m, r, seen) = NamesOf(m, r, seen)
    BY <1>3, <1>4 DEF Atomic!NamesOf, NamesOf
  <1>6. Atomic!Accepts(c, m, seen) <=> Accepts(c, m, seen)
    BY <1>4, <1>5
    DEF Atomic!Accepts, Accepts, Atomic!MapAccepts, MapAccepts, Atomic!UnmapIdAccepts,
        UnmapIdAccepts, Atomic!OpenAccepts, OpenAccepts, Atomic!FormatAccepts, FormatAccepts,
        Atomic!Mapped, Mapped
  <1>7. Atomic!Apply(c, m, seen) = Apply(c, m, seen)
    BY <1>5 DEF Atomic!Apply, Apply, Atomic!Removed, Removed
  <1> QED
    BY <1>1, <1>2, <1>6, <1>7

\* A step of a process is a step of the atomic map, or none.
LEMMA ProcessImplements ==
  ASSUME RefineInv, NEW p \in Procs, Start(p) \/ Step(p) \/ Fail(p), ProcOK'
  PROVE  [Atomic!Next]_Atomic!vars
  <1> USE DEF RefineInv, UpdateInv, SafeInv, TypeInv
  <1>1. Requests' = [Requests EXCEPT ![p] = Requests'[p]]
    BY RequestsStep
  <1>2. CASE Replace(p)
    <2>1. /\ file'.map = new[p] /\ Survivors' = Survivors \cup {file'.map}
          /\ pc[p] = "replace" /\ Requests'[p] = NoProc
      BY <1>2 DEF Replace, Survivors, ProcOK, Requests
    <2>2. file.map = base[p]
      BY <2>1 DEF NoLostUpdate, Writing
    <2>3. CASE after[p] = "decide"
      <3>1. new[p] = Migrate(file.map)
        BY <2>1, <2>2, <2>3 DEF Prepared, Writing
      <3>2. Requests' = Requests
        BY <1>1, <2>1, <2>3 DEF Requests
      <3>3. Atomic!Upgrade
        BY <2>1, <3>1, <3>2 DEF Atomic!Upgrade, Survivors, Atomic!Migrate, Migrate
      <3> QED
        BY <3>3 DEF Atomic!Next
    <2>4. CASE after[p] # "decide"
      <3>1. Requests[p] = cmd[p] /\ cmd[p] \in Commands
        BY <2>1, <2>4 DEF Requests, ProcOK
      <3>2. \E seen \in SUBSET Devices :
               /\ Accepts(Requests[p], Migrate(file.map), seen)
               /\ file'.map = Apply(Requests[p], Migrate(file.map), seen)
        BY <2>1, <2>2, <2>4, <3>1 DEF Prepared, Writing
      <3>3. file.map \in Maps /\ Migrate(file.map) \in Maps
        BY MigrateType DEF WorldOK, Files
      <3>4. \E seen \in SUBSET Devices :
               /\ Atomic!Accepts(Requests[p], Atomic!Migrate(file.map), seen)
               /\ file'.map = Atomic!Apply(Requests[p], Atomic!Migrate(file.map), seen)
        BY <3>1, <3>2, <3>3, SameOperators
      <3>5. Requests[p] # NoProc
        BY <3>1, StoreConstants
      <3>6. Atomic!Commit(p)
        BY <1>1, <2>1, <3>4, <3>5 DEF Atomic!Commit, Survivors
      <3> QED
        BY <3>6 DEF Atomic!Next
    <2> QED
      BY <2>3, <2>4
  <1>3. CASE SyncDir(p)
    <2>1. file' = file /\ Survivors' = {file.map}
      BY <1>3 DEF SyncDir, Survivors
    <2>2. Requests[p] = NoProc
      BY <1>3 DEF SyncDir, Requests
    <2>3. Requests'[p] = NoProc
      BY <1>3 DEF SyncDir, Finish, Requests, ProcOK
    <2>4. Requests' = Requests
      BY <1>1, <2>2, <2>3 DEF Requests
    <2>5. Atomic!Acknowledge
      BY <2>1, <2>4 DEF Atomic!Acknowledge, Survivors
    <2> QED
      BY <2>5 DEF Atomic!Next
  <1>4. CASE ~Replace(p) /\ ~SyncDir(p)
    <2>1. file' = file /\ Survivors' = Survivors
      BY <1>4, OwnStep DEF store, Survivors
    <2>2. CASE Requests'[p] = Requests[p]
      <3>1. Requests' = Requests
        BY <1>1, <2>2 DEF Requests
      <3> QED
        BY <2>1, <3>1 DEF Atomic!vars, Survivors
    <2>3. CASE Requests'[p] = NoProc
      <3>1. Atomic!Drop(p)
        BY <1>1, <2>1, <2>3 DEF Atomic!Drop, Survivors
      <3> QED
        BY <3>1 DEF Atomic!Next
    <2>4. CASE Requests'[p] # NoProc /\ Requests'[p] # Requests[p]
      <3>1. /\ pc'[p] \in {"update", "write", "replace"} /\ after'[p] # "decide"
            /\ Requests'[p] = cmd'[p] /\ cmd'[p] \in Commands
        BY <2>4 DEF Requests, ProcOK
      <3>2. pc'[p] # "replace"
        BY <2>4, OwnStep DEF WriteTemp, Requests, ProcOK
      <3>3. pc'[p] # "write"
        BY <2>4, <3>1, OwnStep DEF Began, Waiting, Requests
      <3>4. Requests[p] = NoProc
        BY <3>1, <3>2, <3>3, OwnStep DEF Requests
      <3>5. cmd'[p] \in Atomic!Commands
        BY <3>1 DEF Atomic!Commands, Commands, Atomic!Kinds, Kinds, Atomic!Targets, Targets
      <3>6. Atomic!Request(p)
        BY <1>1, <2>1, <3>1, <3>4, <3>5 DEF Atomic!Request, Survivors
      <3> QED
        BY <3>6 DEF Atomic!Next
    <2> QED
      BY <2>2, <2>3, <2>4
  <1> QED
    BY <1>2, <1>3, <1>4

\* Every step is a step of the atomic map, or none.
LEMMA StepImplements ==
  ASSUME RefineInv, RefineInv', [Next]_vars
  PROVE  [Atomic!Next]_Atomic!vars
  <1>1. ASSUME NEW p \in Procs, Start(p) \/ Step(p) \/ Fail(p)
        PROVE  [Atomic!Next]_Atomic!vars
    <2>1. ProcOK'
      BY DEF RefineInv, UpdateInv, SafeInv, TypeInv
    <2> QED
      BY <1>1, <2>1, ProcessImplements
  <1>2. CASE PowerLoss
    <2>1. PICK f \in pending : file' = [f EXCEPT !.synced = TRUE] /\ pending' = {file'}
      BY <1>2 DEF PowerLoss
    <2>2. file'.map = f.map /\ f.map \in Survivors /\ Survivors' = {file'.map}
      BY <2>1 DEF Survivors, RefineInv, UpdateInv, SafeInv, TypeInv, WorldOK, Files
    <2>3. Requests' = [c \in Procs |-> NoProc]
      BY <1>2 DEF PowerLoss, Requests
    <2>4. Atomic!PowerLoss
      BY <2>2, <2>3 DEF Atomic!PowerLoss, Survivors
    <2> QED
      BY <2>4 DEF Atomic!Next
  <1>3. CASE Hotplug \/ UNCHANGED vars
    <2>1. file' = file /\ pending' = pending /\ pc' = pc /\ after' = after /\ cmd' = cmd
      BY <1>3 DEF Hotplug, vars, store, proc
    <2> QED
      BY <2>1 DEF Atomic!vars, Requests
  <1> QED
    BY <1>1, <1>2, <1>3 DEF Next

\* Processes of one home share the file as if every command took effect on it at
\* one instant or not at all, kills, errors and power losses included.
THEOREM MapIsAtomic ==
  ASSUME SharedHome
  PROVE  Spec => ImplementsAtomicMap
  <1>1. Init => RefineInv /\ Atomic!Init
    <2> SUFFICES ASSUME Init PROVE RefineInv /\ Atomic!Init
      OBVIOUS
    <2>1. RefineInv
      BY UpdateInit DEF Init, RefineInv, Waiting
    <2>2. PICK m \in InitialMaps : file = [map |-> m, synced |-> TRUE]
      BY DEF Init
    <2>3. Requests = [c \in Procs |-> NoProc]
      BY DEF Init, Requests
    <2>4. file.map \in Maps /\ {f.map : f \in pending} = {file.map}
      BY <2>2, StoreConstants DEF Init
    <2>5. Atomic!Init
      BY <2>3, <2>4 DEF Atomic!Init, Atomic!Maps, Maps, Atomic!Targets, Targets
    <2> QED
      BY <2>1, <2>5
  <1>2. RefineInv /\ [Next]_vars => RefineInv'
    BY RefineStep
  <1>3. RefineInv /\ RefineInv' /\ [Next]_vars => [Atomic!Next]_Atomic!vars
    BY StepImplements
  <1> QED
    BY <1>1, <1>2, <1>3, PTL DEF Spec, ImplementsAtomicMap, Atomic!Spec

-----------------------------------------------------------------------------
(***************************************************************************)
(* What the mutators may not do, whatever other processes did since the    *)
(* command read its snapshot.                                              *)
(***************************************************************************)
\* What a process puts in place is its mutator applied to the map it replaces.
LEMMA CommitApplies ==
  ASSUME UpdateInv, [Next]_vars, NEW p \in Procs, Commits(p)
  PROVE  \E seen \in SUBSET Devices :
            /\ Accepts(cmd[p], Migrate(file.map), seen)
            /\ file'.map = Apply(cmd[p], Migrate(file.map), seen)
  <1> USE DEF UpdateInv, SafeInv, TypeInv
  <1>1. PICK q \in Procs : Start(q) \/ Step(q) \/ Fail(q)
    BY DEF Commits, Next, PowerLoss, Hotplug, vars, proc
  <1>2. q = p
    BY <1>1, OthersSame DEF Commits, Same
  <1>3. Replace(p)
    BY <1>1, <1>2, OwnStep DEF Commits
  <1>4. file'.map = new[p] /\ base[p] = file.map
    BY <1>3 DEF Replace, NoLostUpdate, Writing
  <1> QED
    BY <1>4 DEF Commits, Prepared, Writing

\* Migrating keeps which names have a record.
LEMMA MigrateKeepsNames ==
  ASSUME NEW m \in Maps, NEW n \in Names
  PROVE  Mapped(Migrate(m), n) <=> Mapped(m, n)
  BY MapConstants DEF Mapped, Migrate, Maps, Targets

\* map takes no name that has a record by the time it is written, and leaves the
\* records of other names alone.
THEOREM MapTakesOnlyFreeNames ==
  ASSUME SharedHome
  PROVE  Spec => MapTakesFreeName
  <1>1. ASSUME UpdateInv, [Next]_vars, NEW p \in Procs, Commits(p), cmd[p].kind = "map"
        PROVE  /\ cmd[p].name # cmd[p].old => ~Mapped(file.map, cmd[p].name)
               /\ \A n \in Names \ {cmd[p].name, cmd[p].old} :
                    file'.map[n] = Migrate(file.map)[n]
    <2> DEFINE c == cmd[p]
               m == Migrate(file.map)
    <2>1. PICK seen \in SUBSET Devices : Accepts(c, m, seen) /\ file'.map = Apply(c, m, seen)
      BY <1>1, CommitApplies
    <2>2. c.name \in Names /\ file.map \in Maps
      BY <1>1 DEF UpdateInv, SafeInv, TypeInv, ProcOK, WorldOK, Commands, Files
    <2>3. MapAccepts(c, m)
      BY <1>1, <2>1 DEF Accepts
    <2>4. c.name # c.old => ~Mapped(file.map, c.name)
      BY <2>2, <2>3, MigrateKeepsNames DEF MapAccepts
    <2>5. ASSUME NEW n \in Names \ {c.name, c.old}
          PROVE  file'.map[n] = m[n]
      BY <1>1, <2>1 DEF Apply, Removed
    <2> QED
      BY <2>4, <2>5
  <1>2. UpdateInv /\ [Next]_vars =>
          [\A p \in Procs :
             Commits(p) /\ cmd[p].kind = "map" =>
                /\ cmd[p].name # cmd[p].old => ~Mapped(file.map, cmd[p].name)
                /\ \A n \in Names \ {cmd[p].name, cmd[p].old} :
                     file'.map[n] = Migrate(file.map)[n]]_vars
    BY <1>1
  <1> QED
    BY <1>2, UpdateInit, UpdateStep, PTL DEF Spec, MapTakesFreeName

\* unmap by ID removes the records it announced, or none.
THEOREM UnmapRemovesOnlyAnnounced ==
  ASSUME SharedHome
  PROVE  Spec => UnmapRemovesAnnounced
  <1>1. ASSUME UpdateInv, [Next]_vars, NEW p \in Procs, Commits(p), cmd[p].kind = "unmapid"
        PROVE  {n \in Names : Mapped(file.map, n) /\ ~Mapped(file'.map, n)} = cmd[p].names
    <2> DEFINE c == cmd[p]
               m == Migrate(file.map)
    <2>1. PICK seen \in SUBSET Devices : Accepts(c, m, seen) /\ file'.map = Apply(c, m, seen)
      BY <1>1, CommitApplies
    <2>2. NamesOf(m, c.src, seen) = c.names
      BY <1>1, <2>1 DEF Accepts, UnmapIdAccepts
    <2>3. file.map \in Maps
      BY <1>1 DEF UpdateInv, SafeInv, TypeInv, WorldOK, Files
    <2>4. ASSUME NEW n \in Names
          PROVE  Mapped(file.map, n) /\ ~Mapped(file'.map, n) <=> n \in NamesOf(m, c.src, seen)
      <3>1. file'.map[n] = IF n \in NamesOf(m, c.src, seen) THEN NoTarget ELSE m[n]
        BY <1>1, <2>1 DEF Apply, Removed
      <3> QED
        BY <2>3, <3>1, MigrateKeepsNames DEF Mapped, NamesOf
    <2>5. NamesOf(m, c.src, seen) \subseteq Names
      BY DEF NamesOf
    <2> QED
      BY <2>2, <2>4, <2>5
  <1>2. UpdateInv /\ [Next]_vars =>
          [\A p \in Procs :
             Commits(p) /\ cmd[p].kind = "unmapid" =>
                {n \in Names : Mapped(file.map, n) /\ ~Mapped(file'.map, n)} = cmd[p].names]_vars
    BY <1>1
  <1> QED
    BY <1>2, UpdateInit, UpdateStep, PTL DEF Spec, UnmapRemovesAnnounced

-----------------------------------------------------------------------------
(***************************************************************************)
(* open and format keep where a name leads.                                *)
(***************************************************************************)
\* The target of an open or a format leads where src does.
Leads(c) ==
    /\ c.kind = "format" => c.src \in Devices /\ DeviceOf[c.target] = c.src
    /\ c.kind = "normalise" /\ c.src \in Targets => DeviceOf[c.target] = DeviceOf[c.src]

TargetsLead == \A p \in Procs :
    pc[p] \in {"update", "write", "replace"} /\ after[p] # "decide" => Leads(cmd[p])

\* Normalising a path does not change the device it leads to.
LEMMA NormalisedLeads ==
  ASSUME NEW t \in Targets, NEW seen \in SUBSET Devices
  PROVE  DeviceOf[Normalised(t, seen)] = DeviceOf[t]
  BY MapConstants, PicksLead DEF Normalised, Real, Targets

\* A process that gets hold of a mutator has one whose target leads right.
LEMMA ProceedLeads ==
  ASSUME ProcOK, WorldOK, NEW p \in Procs, Decide(p) \/ MountFails(p), pc'[p] = "update"
  PROVE  Leads(cmd'[p])
  <1> DEFINE c == cmd[p]
  <1>1. c \in Commands /\ snap[p] \in Maps /\ present \in SUBSET Devices
    BY DEF ProcOK, WorldOK
  <1>2. ~Finish(p, "idle")
    BY DEF Finish, ProcOK
  <1>3. ASSUME NEW d, Proceed(p, d)
        PROVE  cmd'[p] = d
    BY <1>3 DEF Proceed, ProcOK
  <1>4. CASE DecideMap(p)
    <2>1. PICK t : Proceed(p, [c EXCEPT !.target = t])
      BY <1>2, <1>4 DEF DecideMap
    <2> QED
      BY <1>1, <1>3, <1>4, <2>1 DEF DecideMap, Deciding, Leads, Commands
  <1>5. CASE DecideMapAgain(p)
    <2>1. PICK t : Proceed(p, [c EXCEPT !.old = NoName, !.target = t])
      BY <1>2, <1>5 DEF DecideMapAgain
    <2> QED
      BY <1>1, <1>3, <1>5, <2>1 DEF DecideMapAgain, Deciding, Leads, Commands
  <1>6. CASE DecideUnmap(p)
    BY <1>3, <1>6 DEF DecideUnmap, Deciding, Leads
  <1>7. ASSUME NEW t, NEW m, RemoveTargets(p, t, m)
        PROVE  Leads(cmd'[p])
    <2>1. PICK r, shown : Proceed(p, [c EXCEPT !.kind = "unmapid", !.src = r, !.names = shown])
      BY <1>2, <1>7 DEF RemoveTargets
    <2> QED
      BY <1>1, <1>3, <2>1 DEF Leads, Commands
  <1>8. CASE DecideUnmapId(p) \/ DecideUnmapAgain(p)
    BY <1>2, <1>7, <1>8 DEF DecideUnmapId, DecideUnmapAgain
  <1>9. CASE DecideOpen(p)
    <2>1. PICK n, s : Proceed(p, [c EXCEPT !.name = n, !.src = s,
                                           !.target = Normalised(s, present)])
      BY <1>2, <1>9 DEF DecideOpen
    <2>2. c.kind = "normalise"
      BY <1>9 DEF DecideOpen, Deciding
    <2>3. cmd'[p].kind = "normalise" /\ cmd'[p].src = s
          /\ cmd'[p].target = Normalised(s, present)
      BY <1>1, <1>3, <2>1, <2>2 DEF Commands
    <2> QED
      BY <1>1, <2>3, NormalisedLeads DEF Leads
  <1>10. CASE DecideFormat(p)
    <2> DEFINE record == snap[p][c.name]
               link == IF record = NoTarget THEN Preferred[c.src] ELSE record
    <2>1. /\ c.kind = "format" /\ c.src \in present
          /\ record # NoTarget => Real(record, present) = c.src
          /\ Proceed(p, [c EXCEPT !.target = link])
      BY <1>2, <1>10 DEF DecideFormat, Deciding
    <2>2. DeviceOf[link] = c.src
      BY <1>1, <2>1, MapConstants, PicksLead DEF Real, Maps, Commands
    <2>3. cmd'[p].kind = "format" /\ cmd'[p].src = c.src /\ cmd'[p].target = link
      BY <1>1, <1>3, <2>1 DEF Commands
    <2> QED
      BY <1>1, <2>1, <2>2, <2>3 DEF Leads
  <1>11. CASE MountFails(p)
    <2>1. PICK s : Proceed(p, [c EXCEPT !.kind = "restore", !.src = s])
      BY <1>11 DEF MountFails
    <2> QED
      BY <1>1, <1>3, <2>1 DEF Leads, Commands
  <1> QED
    BY <1>4, <1>5, <1>6, <1>8, <1>9, <1>10, <1>11 DEF Decide

\* A process gets its mutator by deciding, or by failing to mount.
LEMMA WhoUpdates ==
  ASSUME ProcOK, WorldOK, NEW p \in Procs, Start(p) \/ Step(p) \/ Fail(p),
         pc'[p] = "update"
  PROVE  Decide(p) \/ MountFails(p)
  <1>1. pc[p] \in {"decide", "mount"}
    BY OwnStep
  <1>2. ASSUME NEW next \in {"idle", "done"}, Finish(p, next)
        PROVE  FALSE
    BY <1>2 DEF Finish, ProcOK
  <1> QED
    BY <1>1, <1>2 DEF Step, Fail, Start, ReadMap, LockAndMutate, WriteTemp, Replace,
                      SyncDir, Mounted, Report, WriteFails, SyncDirFails, Kill

\* It keeps it through the write.
LEMMA LeadStep ==
  ASSUME SharedHome
  PROVE  RefineInv /\ TargetsLead /\ [Next]_vars => TargetsLead'
  <1> SUFFICES ASSUME RefineInv, TargetsLead, [Next]_vars
               PROVE  TargetsLead'
    OBVIOUS
  <1> USE DEF RefineInv, UpdateInv, SafeInv, TypeInv
  <1>1. ASSUME NEW p \in Procs, Start(p) \/ Step(p) \/ Fail(p), NEW q \in Procs,
               pc'[q] \in {"update", "write", "replace"}, after'[q] # "decide"
        PROVE  Leads(cmd'[q])
    <2>1. CASE q # p
      BY <1>1, <2>1, OthersSame DEF Same, TargetsLead
    <2>2. CASE q = p /\ pc'[p] = "update"
      BY <1>1, <2>2, WhoUpdates, ProceedLeads
    <2>3. CASE q = p /\ pc'[p] = "write"
      BY <1>1, <2>3, OwnStep DEF Began, Waiting, TargetsLead
    <2>4. CASE q = p /\ pc'[p] = "replace"
      BY <1>1, <2>4, OwnStep DEF WriteTemp, TargetsLead
    <2> QED
      BY <1>1, <2>1, <2>2, <2>3, <2>4
  <1>2. CASE PowerLoss
    BY <1>2 DEF PowerLoss, TargetsLead
  <1>3. CASE Hotplug \/ UNCHANGED vars
    BY <1>3 DEF Hotplug, vars, proc, TargetsLead
  <1> QED
    BY <1>1, <1>2, <1>3 DEF Next, TargetsLead

\* open and format leave every name that has a record with one for the same
\* device, although they decide from a snapshot that others may have changed.
THEOREM OpenAndFormatKeepDevices ==
  ASSUME SharedHome
  PROVE  Spec => NamesKeepDevice
  <1>1. ASSUME RefineInv, TargetsLead, [Next]_vars, NEW p \in Procs, Commits(p),
               cmd[p].kind \in {"normalise", "format"}, NEW n \in Names, Mapped(file.map, n)
        PROVE  Mapped(file'.map, n) /\ DeviceOf[file'.map[n]] = DeviceOf[file.map[n]]
    <2> DEFINE c == cmd[p]
               m == Migrate(file.map)
    <2>1. PICK seen \in SUBSET Devices : Accepts(c, m, seen) /\ file'.map = Apply(c, m, seen)
      BY <1>1, CommitApplies DEF RefineInv
    <2>2. c \in Commands /\ file.map \in Maps /\ m \in Maps
      BY <1>1, MigrateType DEF RefineInv, UpdateInv, SafeInv, TypeInv, ProcOK, WorldOK, Files
    <2>3. file.map[n] \in Targets /\ m[n] \in Targets /\ DeviceOf[m[n]] = DeviceOf[file.map[n]]
      BY <1>1, <2>2, MapConstants, PicksLead DEF Maps, Migrate, Mapped, Targets
    <2>4. file'.map[n] = IF n = c.name THEN c.target ELSE m[n]
      BY <1>1, <2>1 DEF Apply, Removed
    <2>5. CASE n = c.name
      <3>1. Leads(c)
        BY <1>1 DEF Commits, TargetsLead
      <3>2. c.target \in Targets
        BY <2>2 DEF Commands
      <3>3. CASE c.kind = "normalise"
        <4>1. m[n] = c.src
          BY <2>1, <2>5, <3>3 DEF Accepts, OpenAccepts
        <4> QED
          BY <2>3, <2>4, <2>5, <3>1, <3>2, <3>3, <4>1, MapConstants DEF Leads, Mapped
      <3>4. CASE c.kind = "format"
        <4>1. Real(m[n], seen) = c.src /\ c.src \in Devices
          BY <2>1, <2>3, <2>5, <3>1, <3>4, MapConstants
          DEF Accepts, FormatAccepts, Leads, Mapped
        <4>2. DeviceOf[m[n]] = c.src
          BY <2>3, <4>1, MapConstants DEF Real
        <4> QED
          BY <2>3, <2>4, <2>5, <3>1, <3>2, <3>4, <4>2, MapConstants DEF Leads, Mapped
      <3> QED
        BY <1>1, <3>3, <3>4
    <2>6. CASE n # c.name
      BY <2>3, <2>4, <2>6, MapConstants DEF Mapped
    <2> QED
      BY <2>5, <2>6
  <1>2. RefineInv /\ TargetsLead /\ [Next]_vars =>
          [\A p \in Procs :
             Commits(p) /\ cmd[p].kind \in {"normalise", "format"} =>
                \A n \in Names : Mapped(file.map, n) =>
                    /\ Mapped(file'.map, n)
                    /\ DeviceOf[file'.map[n]] = DeviceOf[file.map[n]]]_vars
    BY <1>1
  <1>3. Init => RefineInv /\ TargetsLead
    BY UpdateInit DEF Init, RefineInv, Waiting, TargetsLead
  <1>4. RefineInv /\ [Next]_vars => RefineInv'
    BY RefineStep
  <1>5. RefineInv /\ TargetsLead /\ [Next]_vars => TargetsLead'
    BY LeadStep
  <1> QED
    BY <1>2, <1>3, <1>4, <1>5, PTL DEF Spec, NamesKeepDevice
=============================================================================
