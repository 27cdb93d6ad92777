---------------------------- MODULE MountingProofs ----------------------------
(***************************************************************************)
(* Theorems about open and close, for any disks, mappers, mountpoints and  *)
(* retries, and any number of changes by others.                           *)
(***************************************************************************)
EXTENDS Mounting, TLAPS

-----------------------------------------------------------------------------
(***************************************************************************)
(* The inductive invariant of open.                                        *)
(***************************************************************************)
Chosen == {"select", "clear", "recheck", "look", "extras", "override", "mount", "prune", "pruning",
           "finish", "opened"}

\* What open is about to mount is there, as far as it can know.
TargetLive ==
    /\ pc \in {"mapper", "recycle", "unlock"} => target = Name
    /\ pc \in Chosen /\ moved \cap {Name, "disk"} = {} => Live(target)

\* What open is about to unmount is its own.
OwnListed ==
    /\ pc = "recycle" => \A q \in todo : mounts[q] = Name \/ q \in moved
    /\ pc = "clear" => mounts[spot] # Stick \/ spot \in moved
    /\ pc \in {"extras", "override", "pruning"} =>
         spot \notin todo /\ \A q \in todo : mounts[q] = target \/ q \in moved

\* The mount that open has found or made.
InPlace ==
    pc \in {"extras", "prune", "pruning", "finish", "opened"} /\ layout.fstab # "foreign"
       /\ spot \notin moved => mounts[spot] = target

Alone == pc \in {"finish", "opened"} /\ round = 0 => Targets(target) \subseteq {spot} \cup moved

OpenInv == TargetLive /\ OwnListed /\ InPlace /\ Alone

-----------------------------------------------------------------------------
(***************************************************************************)
(* The inductive invariant of close.                                       *)
(***************************************************************************)
UmountPCs == {"c_holders", "c_pid", "c_verify", "c_kill", "c_flush", "c_umount", "c_wait"}

\* The mountpoints that close still has before it.
Pending == IF pc \in UmountPCs THEN todo \cup {at} ELSE IF pc = "c_next" THEN todo ELSE {}

\* They are of the disk, or the usual one.
CloseListed == \A q \in Pending : mounts[q] # Stick \/ q \in moved \/ q = Home

\* Of a child mapper, they are its own.
ChildListed == stage = "child" => \A q \in Pending : mounts[q] \in {child, NoMount} \/ q \in moved

\* Children come after everything else, one after the other.
Staged ==
    /\ pc \in {"idle", "c_mapper", "c_source", "c_guess", "c_children"} \cup OpenPCs => stage # "child"
    /\ stage = "child" => child \notin children
    /\ children # {} =>
         pc = "c_child" \/ (stage = "child" /\ pc \in UmountPCs \cup {"c_next", "c_lock_child"})

\* Where a umount is stuck, close waits, or has gone on without an answer, or
\* has given up a child mapper.
HungAt ==
    /\ \A q \in hung : Stuck(q)
    /\ pc \in {"idle", "c_mapper", "c_source", "c_guess"} \cup OpenPCs => hung = {}
    /\ pc \in UmountPCs => at \notin todo
    /\ stage # "child" =>
         \A q \in hung : \/ pc = "c_wait" /\ q = at /\ ~retry
                         \/ q \notin Pending /\ (q \in moved \/ pc \in {"r_detach", "r_rescan"})
    /\ stage = "child" =>
         \A q \in hung : \/ q \in moved
                         \/ /\ mounts[q] \notin children
                            /\ mounts[q] = child /\ pc \in UmountPCs \cup {"c_next"} =>
                                 pc = "c_wait" /\ q = at /\ ~retry

\* What close has seen of the disk that it is about to detach.
Detaching ==
    /\ pc = "r_detach" => MountsOn(disk) \subseteq moved
    /\ pc \in {"r_recheck", "r_detach"} => blind \/ MappersOn(disk) \subseteq moved

\* The process that --force is about to kill is the one whose start time it has
\* read twice, unless the ID has changed hands since.
Verified == pc = "c_kill" /\ "pid" \notin moved => proc.id = start

CloseInv == CloseListed /\ ChildListed /\ Staged /\ HungAt /\ Detaching /\ Verified

-----------------------------------------------------------------------------
(***************************************************************************)
(* Type correctness.                                                       *)
(***************************************************************************)
LEMMA Names ==
  /\ Name \in MapperNames /\ Whole \in Places /\ Stick \notin MapperNames
  /\ Home \in Mountpoints /\ LabelDir \in Mountpoints /\ FstabDir \in Mountpoints
  /\ Closed \notin MapperNames \cup {Stick} /\ NoMount \notin MapperNames \cup {Stick}
  /\ Mountpoints \cap MapperNames = {}
  /\ "disk" \notin Mountpoints \cup MapperNames /\ "pid" \notin Mountpoints \cup MapperNames
  /\ \A d \in Devices : d \notin MapperNames \cup {Stick, Closed, NoMount}
  /\ \A l \in Layouts : l.mapped \in Places
  /\ AnyDevice \in Devices
  /\ MaxEvents \in Nat /\ Rounds \in Nat \ {0} /\ MaxTries \in Nat
<1>1. (CHOOSE n \in Nodes : TRUE) \in Nodes
  BY MountConstants
<1>2. AnyDevice \in Devices
  BY <1>1, MountConstants DEF AnyDevice, Devices
<1>3. \A l \in Layouts : l.mapped \in Places
  BY MountConstants
<1>. QED
  BY <1>2, <1>3, MountConstants, RoundsAssumption, MaxTriesAssumption DEF Devices

\* A place on the disk that is plugged in is a device.
LEMMA DevType ==
  ASSUME node \in Nodes, NEW p \in Places
  PROVE  Dev(p) \in Devices /\ Dev(p).node = node /\ Dev(p).place = p
  BY DEF Dev, Devices

\* The mounts without what was at one mountpoint.
LEMMA WithoutType ==
  ASSUME TypeOK, NEW q \in Mountpoints
  PROVE  /\ Without(q) \in [Mountpoints -> Sources \cup {NoMount}]
         /\ Without(q)[q] = NoMount
         /\ \A r \in Mountpoints : r # q => Without(q)[r] = mounts[r]
  BY DEF TypeOK, MountTableTypeOK, Without

\* The steps at which open ends.
OpenEnds ==
  \/ NotReady \/ Unclassified \/ NotRecycled \/ NotUnlocked \/ SelectBlocked
  \/ NotCleared \/ NotOverridden \/ NotMounted \/ OptionsFail \/ Opened

\* An open that ends changes nothing but what it remembers.
LEMMA OpenEnding ==
  ASSUME OpenEnds
  PROVE  EndOpen /\ UNCHANGED <<kernel, events>>
  BY DEF OpenEnds, NotReady, Unclassified, NotRecycled, NotUnlocked, SelectBlocked, NotCleared,
     NotOverridden, NotMounted, OptionsFail, Opened

\* The same, variable by variable.
LEMMA OpenEndingState ==
  ASSUME OpenEnds
  PROVE  /\ pc' = "idle" /\ todo' = {} /\ moved' = {}
         /\ UNCHANGED <<layout, node, mapper, mounts, proc, stalled, hung, events, at>>
         /\ named' = TRUE /\ arg' = Whole /\ dev' = AnyDevice /\ target' = AnyDevice /\ spot' = Home
         /\ round' = 0
<1>1. EndOpen /\ UNCHANGED <<kernel, events>>
  BY OpenEnding
<1>. QED  BY <1>1 DEF EndOpen, OpenReset, kernel

\* The steps of open that only look.
OpenLooks ==
  \/ Ready \/ Classify \/ MapperExists \/ MapperStale \/ NoMapper \/ SelectFree \/ SelectStale
  \/ Cleared \/ Look \/ SkipListed \/ AllRemoved \/ PruneLook \/ PruneGivesUp \/ Succeed

\* Those that unmount, mount, lock and unlock.
OpenActs == RecycleUnmount \/ Recycle \/ Unlock \/ Clear \/ UnmountListed \/ MountDevice

\* A step of open ends it, looks at the machine, or acts on it.
LEMMA OpenSteps ==
  OpenStep => OpenEnds \/ OpenLooks \/ OpenActs
  BY DEF OpenStep, OpenEnds, OpenLooks, OpenActs

\* open changes nothing while it looks.
LEMMA OpenLooking ==
  ASSUME OpenStart \/ OpenLooks
  PROVE  UNCHANGED <<layout, node, mapper, mounts, proc, stalled, hung, events, at>>
<1>1. UNCHANGED <<kernel, events, at>>
  BY DEF OpenStart, OpenLooks, Ready, Classify, MapperExists, MapperStale, NoMapper, SelectFree,
     SelectStale, Cleared, Look, SkipListed, AllRemoved, PruneLook, PruneGivesUp, Succeed
<1>. QED  BY <1>1 DEF kernel

\* open acts on mappers and mounts only.
LEMMA OpenActing ==
  ASSUME OpenActs
  PROVE  UNCHANGED <<layout, node, proc, stalled, hung, events, at, openLocals>>
  BY DEF OpenActs, RecycleUnmount, Recycle, Unlock, Clear, UnmountListed, MountDevice

\* No step of open changes the disk, the process or what hangs.
LEMMA OpenerKernel ==
  ASSUME OpenStart \/ OpenStep
  PROVE  UNCHANGED <<layout, node, proc, stalled, hung, events, at>>
  BY OpenSteps, OpenEndingState, OpenLooking, OpenActing

\* open leaves the mappers well typed.
LEMMA OpenerMapperType ==
  ASSUME TypeOK, OpenStart \/ OpenStep
  PROVE  mapper' \in [MapperNames -> Devices \cup {Closed}]
<1>1. CASE OpenStart \/ OpenLooks \/ OpenEnds
  BY <1>1, OpenLooking, OpenEndingState DEF TypeOK, MountTableTypeOK
<1>2. CASE Recycle \/ Unlock
  BY <1>2 DEF Recycle, Unlock, TypeOK, MountTableTypeOK, OpeningTypeOK
<1>3. CASE RecycleUnmount \/ Clear \/ UnmountListed \/ MountDevice
  BY <1>3 DEF RecycleUnmount, Clear, UnmountListed, MountDevice, TypeOK, MountTableTypeOK
<1>. QED  BY <1>1, <1>2, <1>3, OpenSteps DEF OpenActs

\* open leaves the mounts well typed.
LEMMA OpenerMountsType ==
  ASSUME TypeOK, OpenStart \/ OpenStep
  PROVE  mounts' \in [Mountpoints -> Sources \cup {NoMount}]
<1>0. todo \subseteq Mountpoints /\ spot \in Mountpoints
  BY DEF TypeOK, MountTableTypeOK, OpeningTypeOK
<1>1. CASE OpenStart \/ OpenLooks \/ OpenEnds
  BY <1>1, OpenLooking, OpenEndingState DEF TypeOK, MountTableTypeOK
<1>2. CASE RecycleUnmount \/ Clear \/ UnmountListed
  <2>1. \E q \in Mountpoints : mounts' = Without(q)
    BY <1>0, <1>2 DEF RecycleUnmount, Clear, UnmountListed
  <2>. QED  BY <2>1, WithoutType
<1>3. CASE MountDevice
  <2>1. MountSource \in Sources
    BY Names DEF MountSource, TypeOK, OpeningTypeOK, Sources
  <2>. QED  BY <1>3, <2>1 DEF MountDevice, TypeOK, MountTableTypeOK
<1>4. CASE Recycle \/ Unlock
  BY <1>4 DEF Recycle, Unlock, TypeOK, MountTableTypeOK
<1>. QED  BY <1>1, <1>2, <1>3, <1>4, OpenSteps DEF OpenActs

\* open keeps the types of its list and of what others have changed.
LEMMA OpenerProgressType ==
  ASSUME TypeOK, OpenStart \/ OpenStep
  PROVE  /\ todo' \subseteq Mountpoints
         /\ moved' \subseteq Movable
         /\ pc' \in {"idle"} \cup OpenPCs
<1>1. CASE OpenEnds
  BY <1>1, OpenEndingState
<1>2. CASE OpenStart \/ Ready \/ Classify \/ MapperExists \/ NoMapper \/ SelectFree \/ SelectStale
           \/ Cleared \/ AllRemoved \/ PruneGivesUp \/ Succeed
  <2>1. todo' = todo /\ moved' \subseteq moved
    BY <1>2 DEF OpenStart, Ready, Classify, MapperExists, NoMapper, SelectFree, SelectStale, Cleared,
       AllRemoved, PruneGivesUp, Succeed
  <2>2. pc' \in OpenPCs
    BY <1>2 DEF OpenStart, Ready, Classify, MapperExists, NoMapper, SelectFree, SelectStale, Cleared,
       AllRemoved, PruneGivesUp, Succeed, Go, OpenPCs
  <2>. QED  BY <2>1, <2>2 DEF TypeOK, MountTableTypeOK
<1>3. CASE MapperStale \/ Look \/ SkipListed \/ PruneLook
  <2>1. todo' \subseteq Mountpoints /\ moved' \subseteq moved
    BY <1>3 DEF MapperStale, Look, SkipListed, PruneLook, Targets, TypeOK, MountTableTypeOK
  <2>2. pc' \in OpenPCs
    BY <1>3 DEF MapperStale, Look, SkipListed, PruneLook, Go, OpenPCs
  <2>. QED  BY <2>1, <2>2 DEF TypeOK, MountTableTypeOK
<1>4. CASE OpenActs
  <2>1. todo' \subseteq todo /\ moved' \subseteq moved
    BY <1>4 DEF OpenActs, RecycleUnmount, Recycle, Unlock, Clear, UnmountListed, MountDevice
  <2>2. pc' \in OpenPCs
    BY <1>4 DEF OpenActs, RecycleUnmount, Recycle, Unlock, Clear, UnmountListed, MountDevice, Go, OpenPCs
  <2>. QED  BY <2>1, <2>2 DEF TypeOK, MountTableTypeOK
<1>. QED  BY <1>1, <1>2, <1>3, <1>4, OpenSteps DEF OpenLooks

\* open keeps the types of what it remembers.
LEMMA OpenerLocalsType ==
  ASSUME TypeOK, OpenStart \/ OpenStep
  PROVE  OpeningTypeOK'
<1>1. CASE OpenEnds
  BY <1>1, OpenEndingState, Names DEF OpeningTypeOK
<1>2. CASE OpenStart
  BY <1>2, Names DEF OpenStart, OpeningTypeOK, TypeOK, MountTableTypeOK
<1>3. CASE Ready
  <2>1. Dev(arg) \in Devices
    BY <1>3, DevType DEF Ready, Plugged, TypeOK, MountTableTypeOK, OpeningTypeOK
  <2>. QED  BY <1>3, <2>1 DEF Ready, OpeningTypeOK, TypeOK
<1>4. CASE Classify
  <2>1. Payloads(arg) \subseteq Places
    BY DEF Payloads, TypeOK, OpeningTypeOK
  <2>2. \A p \in Places : [dev EXCEPT !.place = p] \in Devices
    BY DEF TypeOK, OpeningTypeOK, Devices
  <2>3. PICK p \in Payloads(arg) :
          /\ dev' = [dev EXCEPT !.place = p]
          /\ target' = IF IsLuks(p) THEN Name ELSE [dev EXCEPT !.place = p]
    BY <1>4 DEF Classify
  <2>4. dev' \in Devices /\ target' \in Devices \cup {Name}
    BY <2>1, <2>2, <2>3
  <2>. QED  BY <1>4, <2>4 DEF Classify, OpeningTypeOK, TypeOK
<1>5. CASE SelectFree \/ SelectStale
  BY <1>5, Names DEF SelectFree, SelectStale, Preferred, OpeningTypeOK, TypeOK
<1>6. CASE PruneLook
  <2>1. round' \in 0 .. Rounds
    BY <1>6, Names DEF PruneLook, MoreRounds, OpeningTypeOK, TypeOK
  <2>. QED  BY <1>6, <2>1 DEF PruneLook, OpeningTypeOK, TypeOK
<1>7. CASE MapperExists \/ MapperStale \/ NoMapper \/ Cleared \/ Look \/ SkipListed \/ AllRemoved
           \/ PruneGivesUp \/ Succeed \/ OpenActs
  <2>1. UNCHANGED openLocals
    BY <1>7, OpenActing DEF MapperExists, MapperStale, NoMapper, Cleared, Look, SkipListed, AllRemoved,
       PruneGivesUp, Succeed
  <2>. QED  BY <2>1 DEF openLocals, OpeningTypeOK, TypeOK
<1>. QED  BY <1>1, <1>2, <1>3, <1>4, <1>5, <1>6, <1>7, OpenSteps DEF OpenLooks

\* open keeps the types.
LEMMA OpenerType ==
  ASSUME TypeOK, Opener
  PROVE  TypeOK'
<1>1. ClosingTypeOK'
  BY DEF Opener, closeLocals, TypeOK, ClosingTypeOK
<1>2. MountTableTypeOK'
  BY OpenerKernel, OpenerMapperType, OpenerMountsType, OpenerProgressType
  DEF Opener, TypeOK, MountTableTypeOK
<1>. QED  BY <1>1, <1>2, OpenerLocalsType, OpenerProgressType DEF Opener, TypeOK

\* How close ends, gives up a mountpoint, or waits for the kernel.
LEMMA EndCloseState ==
  ASSUME EndClose
  PROVE  /\ pc' = "idle" /\ at' = Home /\ todo' = {} /\ moved' = {} /\ hung' = {}
         /\ stage' = "mapper" /\ ClosingTypeOK'
<1>1. Name \in MapperNames /\ 0 \in 0 .. MaxTries /\ 0 \in 0 .. MaxEvents
  BY Names
<1>2. pc' = "idle" /\ at' = Home /\ todo' = {} /\ moved' = {} /\ hung' = {} /\ CloseReset
  BY DEF EndClose
<1>3. ClosingTypeOK'
  BY <1>1, <1>2 DEF CloseReset, ClosingTypeOK, Stages
<1>. QED  BY <1>2, <1>3 DEF CloseReset

\* A close that gives up ends, or goes on with the next child.
LEMMA GiveUpType ==
  ASSUME TypeOK, GiveUp
  PROVE  /\ ClosingTypeOK' /\ pc' \in {"idle", "c_child"} /\ todo' = {}
         /\ at' \in {at, Home} /\ moved' \in {moved, {}} /\ hung' \in {hung, {}}
<1>1. CASE EndClose
  BY <1>1, EndCloseState
<1>2. CASE UNCHANGED <<at, moved, hung, closeLocals>> /\ pc' = "c_child" /\ todo' = {}
  BY <1>2 DEF closeLocals, TypeOK, ClosingTypeOK
<1>. QED  BY <1>1, <1>2 DEF GiveUp, To

\* A close that begins to wait for the kernel keeps the types.
LEMMA AwaitType ==
  ASSUME TypeOK, NEW hangs \in BOOLEAN, AwaitKernel(hangs)
  PROVE  ClosingTypeOK' /\ pc' = "c_wait" /\ UNCHANGED <<at, todo, moved>>
  BY DEF AwaitKernel, RetryAfter, To, TypeOK, ClosingTypeOK

CloseWaits == UmountHangs \/ UmountBusy \/ UmountError \/ Expired

\* The steps by which close comes to wait, or gives up.
LEMMA CloseWaiting ==
  ASSUME TypeOK, CloseWaits
  PROVE  /\ ClosingTypeOK' /\ pc' \in {"idle", "c_child", "c_wait"} /\ todo' \subseteq todo
         /\ at' \in {at, Home} /\ moved' \in {moved, {}} /\ hung' \subseteq hung \cup {at}
         /\ UNCHANGED keeps
<1>1. UNCHANGED keeps
  BY DEF CloseWaits, UmountHangs, UmountBusy, UmountError, Expired
<1>2. CASE GiveUp
  BY <1>1, <1>2, GiveUpType
<1>3. CASE ~GiveUp
  <2>1. PICK hangs \in BOOLEAN : AwaitKernel(hangs)
    BY <1>3 DEF CloseWaits, UmountHangs, UmountBusy, UmountError, Expired
  <2>2. hung' \in {hung, hung \cup {at}}
    BY <1>3 DEF CloseWaits, UmountHangs, UmountBusy, UmountError, Expired
  <2>. QED  BY <1>1, <2>1, <2>2, AwaitType
<1>. QED  BY <1>2, <1>3

\* The steps of close that only look.
CloseLooks ==
  \/ CloseByName \/ CloseById \/ ListMapper \/ ListSource \/ ListGuess
  \/ NextMount \/ ListHolders \/ ReadStart \/ Verify \/ Flush \/ Released \/ ListChildren \/ NextChild
  \/ Rescue \/ FirstLook \/ LookForMounts \/ LookForMappers \/ Recheck

CloseEnds == Remaining \/ NotLocked \/ NoRescue

CloseActs == Kill \/ Umount \/ RetryUmount \/ LockChild \/ Lock \/ Detach \/ Rescan

\* A step of close looks, waits, ends it, or acts.
LEMMA CloseSteps ==
  CloseStart \/ CloseStep => CloseLooks \/ CloseWaits \/ CloseEnds \/ CloseActs
  BY DEF CloseStart, CloseStep, UnmountStep, CloseLooks, CloseWaits, CloseEnds, CloseActs

\* close changes nothing while it looks.
LEMMA CloseLooking ==
  ASSUME CloseLooks
  PROVE  UNCHANGED <<layout, node, mapper, mounts, proc, stalled, hung, events>>
<1>1. UNCHANGED <<kernel, events>>
  <2>1. CASE CloseByName \/ CloseById \/ ListMapper \/ ListSource \/ ListGuess
    BY <2>1 DEF CloseByName, CloseById, ListMapper, ListSource, ListGuess, List
  <2>2. CASE NextMount \/ ListHolders \/ ReadStart \/ Verify \/ Flush \/ Released
    BY <2>2 DEF NextMount, ListHolders, ReadStart, Verify, Flush, Released
  <2>3. CASE ListChildren \/ NextChild
    BY <2>3 DEF ListChildren, NextChild
  <2>4. CASE Rescue \/ FirstLook \/ LookForMounts \/ LookForMappers \/ Recheck
    BY <2>4 DEF Rescue, FirstLook, LookForMounts, LookForMappers, Recheck, Probe
  <2>. QED  BY <2>1, <2>2, <2>3, <2>4 DEF CloseLooks
<1>. QED  BY <1>1 DEF kernel

\* What ends a close: Remaining goes on when nothing is left.
LEMMA CloseEnding ==
  ASSUME CloseEnds
  PROVE  \/ EndClose /\ UNCHANGED keeps
         \/ /\ Remaining /\ pc' = "c_rescue" /\ disk # Absent
            /\ UNCHANGED <<kernel, events, at, todo, moved, force, byId, disk, stage, slow, blocked,
                           retry, tries, children, child, victim, start>>
            /\ blind' \in {blind, TRUE}
<1>1. CASE NotLocked \/ NoRescue
  BY <1>1 DEF NotLocked, NoRescue
<1>2. CASE Remaining
  BY <1>2 DEF Remaining, MapperProbe, To
<1>. QED  BY <1>1, <1>2 DEF CloseEnds

\* What close is going to unmount, from whichever source.
Lists == ListMapper \/ ListSource \/ ListGuess

\* What close lists for the next attempt to unmount.
LEMMA Listing ==
  ASSUME Lists
  PROVE  /\ pc \in {"c_mapper", "c_source", "c_guess"}
         /\ todo' \subseteq Mountpoints \cup {Home}
         /\ stage' \in {stage, "mapper", "source", "guess"}
         /\ moved' = moved \ Mountpoints
         /\ pc' \in {"c_source", "c_guess", "c_children", "c_next"}
         /\ UNCHANGED <<kernel, events, at, force, byId, disk, slow, blocked, retry, tries,
                        children, child, victim, start, blind>>
<1>1. CASE ListMapper
  BY <1>1 DEF ListMapper, List, To, Targets
<1>2. CASE ListSource
  BY <1>2 DEF ListSource, List, To, TargetsOfDisk, Targets
<1>3. CASE ListGuess
  BY <1>3 DEF ListGuess, List, To
<1>. QED  BY <1>1, <1>2, <1>3 DEF Lists

\* close leaves the machine well typed.
LEMMA CloserKernelType ==
  ASSUME TypeOK, CloseStart \/ CloseStep
  PROVE  /\ UNCHANGED <<layout, stalled, events>>
         /\ node' \in Nodes \cup {Absent}
         /\ mapper' \in [MapperNames -> Devices \cup {Closed}]
         /\ mounts' \in [Mountpoints -> Sources \cup {NoMount}]
         /\ proc' \in [id : 0 .. MaxEvents, uses : Mountpoints \cup {NoMount}]
         /\ hung' \subseteq Mountpoints
<1>0. at \in Mountpoints /\ hung \subseteq Mountpoints
  BY DEF TypeOK, MountTableTypeOK
<1>1. CASE CloseLooks
  BY <1>1, CloseLooking DEF TypeOK, MountTableTypeOK
<1>2. CASE CloseWaits
  <2>1. UNCHANGED <<layout, node, mapper, mounts, proc, stalled, events>>
    BY <1>2, CloseWaiting DEF keeps
  <2>2. hung' \subseteq Mountpoints
    BY <1>0, <1>2, CloseWaiting
  <2>. QED  BY <2>1, <2>2 DEF TypeOK, MountTableTypeOK
<1>3. CASE CloseEnds
  <2>1. UNCHANGED <<layout, node, mapper, mounts, proc, stalled, events>>
    BY <1>3, CloseEnding DEF keeps, kernel
  <2>2. hung' \in {hung, {}}
    BY <1>3, CloseEnding, EndCloseState DEF kernel
  <2>. QED  BY <1>0, <2>1, <2>2 DEF TypeOK, MountTableTypeOK
<1>4. CASE Kill
  <2>1. NoProc \in [id : 0 .. MaxEvents, uses : Mountpoints \cup {NoMount}]
    BY Names DEF NoProc
  <2>. QED  BY <1>4, <2>1 DEF Kill, TypeOK, MountTableTypeOK
<1>5. CASE Umount \/ RetryUmount
  <2>1. mounts' \in {mounts, Without(at)} /\ hung' \in {hung, hung \cup {at}}
    BY <1>5 DEF Umount, RetryUmount
  <2>2. mounts' \in [Mountpoints -> Sources \cup {NoMount}]
    BY <1>0, <2>1, WithoutType DEF TypeOK, MountTableTypeOK
  <2>. QED  BY <1>0, <1>5, <2>1, <2>2 DEF Umount, RetryUmount, TypeOK, MountTableTypeOK
<1>6. CASE LockChild \/ Lock
  <2>1. child \in MapperNames /\ Name \in MapperNames
    BY Names DEF TypeOK, ClosingTypeOK
  <2>2. mapper' \in [MapperNames -> Devices \cup {Closed}]
    BY <1>6, <2>1 DEF LockChild, Lock, TypeOK, MountTableTypeOK
  <2>. QED  BY <1>6, <2>2 DEF LockChild, Lock, TypeOK, MountTableTypeOK
<1>7. CASE Detach
  BY <1>7 DEF Detach, TypeOK, MountTableTypeOK
<1>8. CASE Rescan
  <2>1. node' \in Nodes \cup {Absent}
    BY <1>8 DEF Rescan, FreeNodes, TypeOK, MountTableTypeOK
  <2>. QED  BY <1>8, <2>1, EndCloseState DEF Rescan, TypeOK, MountTableTypeOK
<1>. QED  BY <1>1, <1>2, <1>3, <1>4, <1>5, <1>6, <1>7, <1>8, CloseSteps DEF CloseActs

\* close keeps the types of its lists.
LEMMA CloserProgressType ==
  ASSUME TypeOK, CloseStart \/ CloseStep
  PROVE  /\ at' \in Mountpoints
         /\ todo' \subseteq Mountpoints
         /\ moved' \subseteq Movable
         /\ pc' \in {"idle"} \cup ClosePCs
<1>0. /\ at \in Mountpoints /\ todo \subseteq Mountpoints /\ Home \in Mountpoints
      /\ moved \subseteq Movable /\ Mountpoints \subseteq Movable
  BY Names DEF TypeOK, MountTableTypeOK, Movable
<1>a. \A s : Targets(s) \subseteq Mountpoints
  BY DEF Targets
<1>b. \A p : TargetsOfDisk(p) \subseteq Mountpoints
  BY <1>a DEF TargetsOfDisk
<1>1. CASE CloseByName \/ CloseById
  <2>1. pc' \in ClosePCs
    BY <1>1 DEF CloseByName, CloseById, To, ClosePCs
  <2>. QED  BY <1>0, <1>b, <1>1, <2>1 DEF CloseByName, CloseById
<1>2. CASE ListMapper \/ ListSource \/ ListGuess
  <2>1. pc' \in ClosePCs
    BY <1>2, Listing DEF ClosePCs, Lists
  <2>. QED  BY <1>0, <1>2, <2>1, Listing DEF Lists
<1>3. CASE NextMount
  <2>1. pc' \in ClosePCs
    BY <1>3 DEF NextMount, To, ClosePCs
  <2>. QED  BY <1>0, <1>3, <2>1 DEF NextMount
<1>4. CASE ListHolders \/ ReadStart \/ Verify \/ Flush \/ Released \/ ListChildren
  <2>1. pc' \in ClosePCs
    BY <1>4 DEF ListHolders, ReadStart, Verify, Flush, Released, ListChildren, To, ClosePCs
  <2>2. UNCHANGED <<at, todo>> /\ moved' \subseteq moved \cup {at}
    BY <1>4 DEF ListHolders, ReadStart, Verify, Flush, Released, ListChildren
  <2>. QED  BY <1>0, <2>1, <2>2
<1>5. CASE NextChild
  <2>1. pc' \in ClosePCs
    BY <1>5 DEF NextChild, To, ClosePCs
  <2>. QED  BY <1>0, <1>a, <1>5, <2>1 DEF NextChild
<1>6. CASE Rescue \/ FirstLook \/ LookForMounts \/ LookForMappers \/ Recheck
  <2>1. pc' \in ClosePCs
    BY <1>6 DEF Rescue, FirstLook, LookForMounts, LookForMappers, Recheck, Probe, To, ClosePCs
  <2>2. UNCHANGED <<at, todo>> /\ moved' \subseteq moved
    BY <1>6 DEF Rescue, FirstLook, LookForMounts, LookForMappers, Recheck, Probe
  <2>. QED  BY <1>0, <2>1, <2>2
<1>7. CASE CloseWaits
  <2>1. pc' \in {"idle"} \cup ClosePCs
    BY <1>7, CloseWaiting DEF ClosePCs
  <2>. QED  BY <1>0, <1>7, <2>1, CloseWaiting
<1>8. CASE CloseEnds
  <2>1. CASE EndClose
    BY <1>0, <2>1, EndCloseState
  <2>2. CASE pc' = "c_rescue" /\ UNCHANGED <<at, todo, moved>>
    BY <1>0, <2>2 DEF ClosePCs
  <2>. QED  BY <1>8, <2>1, <2>2, CloseEnding
<1>9. CASE Kill \/ Umount \/ RetryUmount \/ LockChild \/ Lock \/ Detach
  <2>1. pc' \in ClosePCs
    BY <1>9 DEF Kill, Umount, RetryUmount, LockChild, Lock, Detach, To, ClosePCs
  <2>2. UNCHANGED <<at, todo, moved>>
    BY <1>9 DEF Kill, Umount, RetryUmount, LockChild, Lock, Detach
  <2>. QED  BY <1>0, <2>1, <2>2
<1>10. CASE Rescan
  BY <1>0, <1>10, EndCloseState DEF Rescan
<1>. QED
  BY <1>1, <1>2, <1>3, <1>4, <1>5, <1>6, <1>7, <1>8, <1>9, <1>10, CloseSteps DEF CloseLooks, CloseActs

\* close keeps the types of what it remembers.
LEMMA CloserLocalsType ==
  ASSUME TypeOK, CloseStart \/ CloseStep
  PROVE  ClosingTypeOK'
<1>0. /\ node \in Nodes \cup {Absent} /\ layout.mapped \in Places
      /\ proc.id \in 0 .. MaxEvents /\ 0 \in 0 .. MaxEvents
  BY Names DEF TypeOK, MountTableTypeOK
<1>1. CASE CloseByName \/ CloseById
  BY <1>0, <1>1 DEF CloseByName, CloseById, TypeOK, ClosingTypeOK, Stages
<1>2. CASE ListMapper \/ ListSource \/ ListGuess
  <2>1. stage' \in Stages
    BY <1>2, Listing DEF Lists, Stages, TypeOK, ClosingTypeOK
  <2>. QED  BY <1>2, <2>1, Listing DEF Lists, TypeOK, ClosingTypeOK
<1>3. CASE NextMount
  <2>1. 0 \in 0 .. MaxTries
    BY Names
  <2>. QED  BY <1>3, <2>1 DEF NextMount, TypeOK, ClosingTypeOK
<1>4. CASE ListHolders
  BY <1>0, <1>4 DEF ListHolders, TypeOK, ClosingTypeOK
<1>5. CASE ReadStart \/ Kill
  BY <1>0, <1>5 DEF ReadStart, Kill, TypeOK, ClosingTypeOK
<1>6. CASE Flush
  <2>1. Stuck(at) \in BOOLEAN
    BY DEF Stuck, TypeOK, MountTableTypeOK
  <2>2. slow' \subseteq Mountpoints /\ blocked' \in BOOLEAN
    BY <1>6, <2>1 DEF Flush, TypeOK, MountTableTypeOK, ClosingTypeOK
  <2>. QED  BY <1>6, <2>2 DEF Flush, TypeOK, ClosingTypeOK
<1>7. CASE RetryUmount
  <2>1. tries' \in 0 .. MaxTries
    BY <1>7, Names DEF RetryUmount, TypeOK, ClosingTypeOK
  <2>2. retry' \in BOOLEAN
    BY <1>7 DEF RetryUmount, RetryAfter
  <2>. QED  BY <1>7, <2>1, <2>2 DEF RetryUmount, TypeOK, ClosingTypeOK
<1>8. CASE ListChildren
  <2>1. children' \subseteq MapperNames /\ blind' \in BOOLEAN
    BY <1>8 DEF ListChildren, MapperProbe, TypeOK, ClosingTypeOK
  <2>. QED  BY <1>8, <2>1 DEF ListChildren, TypeOK, ClosingTypeOK
<1>9. CASE NextChild
  <2>1. children' \subseteq MapperNames /\ child' \in MapperNames /\ stage' \in Stages
    BY <1>9 DEF NextChild, TypeOK, ClosingTypeOK, Stages
  <2>. QED  BY <1>9, <2>1 DEF NextChild, TypeOK, ClosingTypeOK
<1>10. CASE Rescue \/ FirstLook \/ LookForMounts \/ LookForMappers \/ Recheck
  <2>1. blind' \in BOOLEAN
    BY <1>10 DEF Rescue, FirstLook, LookForMounts, LookForMappers, Recheck, MapperProbe, TypeOK,
       ClosingTypeOK
  <2>2. UNCHANGED <<force, byId, disk, stage, slow, blocked, retry, tries, children, child, victim, start>>
    BY <1>10 DEF Rescue, FirstLook, LookForMounts, LookForMappers, Recheck, Probe
  <2>. QED  BY <2>1, <2>2 DEF TypeOK, ClosingTypeOK
<1>11. CASE CloseWaits
  BY <1>11, CloseWaiting
<1>12. CASE CloseEnds \/ Rescan
  <2>1. CASE EndClose
    BY <2>1, EndCloseState
  <2>2. CASE CloseEnds /\ ~EndClose
    BY <2>2, CloseEnding DEF TypeOK, ClosingTypeOK
  <2>. QED  BY <1>12, <2>1, <2>2 DEF Rescan
<1>13. CASE Umount \/ Verify \/ Released \/ LockChild \/ Lock \/ Detach
  <2>1. UNCHANGED closeLocals
    BY <1>13 DEF Umount, Verify, Released, LockChild, Lock, Detach
  <2>. QED  BY <2>1 DEF closeLocals, TypeOK, ClosingTypeOK
<1>. QED
  BY <1>1, <1>2, <1>3, <1>4, <1>5, <1>6, <1>7, <1>8, <1>9, <1>10, <1>11, <1>12, <1>13, CloseSteps
  DEF CloseLooks, CloseActs

\* close keeps the types.
LEMMA CloserType ==
  ASSUME TypeOK, Closer
  PROVE  TypeOK'
<1>1. OpeningTypeOK'
  BY DEF Closer, openLocals, TypeOK, OpeningTypeOK
<1>2. MountTableTypeOK'
  BY CloserKernelType, CloserProgressType DEF Closer, TypeOK, MountTableTypeOK
<1>. QED  BY <1>1, <1>2, CloserLocalsType, CloserProgressType DEF Closer, TypeOK

\* What others change, and what close and open keep of it in mind.
LEMMA OthersKernelType ==
  ASSUME TypeOK, Others
  PROVE  MountTableTypeOK' /\ UNCHANGED <<layout, pc, at, todo>>
<1>0. /\ MaxEvents \in Nat /\ "disk" \in Movable /\ "pid" \in Movable
      /\ Mountpoints \subseteq Movable /\ MapperNames \subseteq Movable
  BY Names DEF Movable
<1>1. ASSUME NEW what \in SUBSET Movable, Event(what)
      PROVE  /\ events' \in 0 .. MaxEvents
             /\ moved' \subseteq Movable
             /\ UNCHANGED <<layout, pc, at, todo>>
  BY <1>0, <1>1 DEF Event, TypeOK, MountTableTypeOK
<1>2. CASE Unplug \/ Plug
  <2>1. node' \in Nodes \cup {Absent}
    BY <1>2 DEF Unplug, Plug, FreeNodes
  <2>2. Event({"disk"}) /\ UNCHANGED <<mapper, mounts, proc, stalled, hung>>
    BY <1>2 DEF Unplug, Plug
  <2>. QED  BY <1>0, <1>1, <2>1, <2>2 DEF TypeOK, MountTableTypeOK
<1>3. CASE Automount
  <2>1. PICK s \in Sources, q \in Mountpoints : mounts' = [mounts EXCEPT ![q] = s] /\ Event({q})
    BY <1>3 DEF Automount
  <2>2. mounts' \in [Mountpoints -> Sources \cup {NoMount}]
    BY <2>1 DEF TypeOK, MountTableTypeOK
  <2>. QED  BY <1>0, <1>1, <1>3, <2>1, <2>2 DEF Automount, TypeOK, MountTableTypeOK
<1>4. CASE OthersUnmount
  <2>1. PICK q \in Mountpoints : mounts' = Without(q) /\ Event({q})
    BY <1>4 DEF OthersUnmount
  <2>. QED  BY <1>0, <1>1, <1>4, <2>1, WithoutType DEF OthersUnmount, TypeOK, MountTableTypeOK
<1>5. CASE OthersUnlock
  <2>1. PICK m \in MapperNames, p \in Places : mapper' = [mapper EXCEPT ![m] = Dev(p)] /\ Event({m})
    BY <1>5 DEF OthersUnlock
  <2>2. Dev(p) \in Devices
    BY <1>5, DevType DEF OthersUnlock, Plugged, TypeOK, MountTableTypeOK
  <2>3. mapper' \in [MapperNames -> Devices \cup {Closed}]
    BY <2>1, <2>2 DEF TypeOK, MountTableTypeOK
  <2>. QED  BY <1>0, <1>1, <1>5, <2>1, <2>3 DEF OthersUnlock, TypeOK, MountTableTypeOK
<1>6. CASE OthersLock
  <2>1. PICK m \in MapperNames : mapper' = [mapper EXCEPT ![m] = Closed] /\ Event({m})
    BY <1>6 DEF OthersLock
  <2>2. mapper' \in [MapperNames -> Devices \cup {Closed}]
    BY <2>1 DEF TypeOK, MountTableTypeOK
  <2>. QED  BY <1>0, <1>1, <1>6, <2>1, <2>2 DEF OthersLock, TypeOK, MountTableTypeOK
<1>7. CASE Stall
  BY <1>0, <1>1, <1>7 DEF Stall, TypeOK, MountTableTypeOK
<1>8. CASE Recover
  <2>1. PICK gone \in SUBSET hung :
          /\ mounts' = [q \in Mountpoints |-> IF q \in gone THEN NoMount ELSE mounts[q]]
          /\ moved' = IF pc = "idle" THEN moved ELSE moved \cup gone
    BY <1>8 DEF Recover
  <2>2. mounts' \in [Mountpoints -> Sources \cup {NoMount}]
    BY <1>0, <2>1 DEF TypeOK, MountTableTypeOK
  <2>3. moved' \subseteq Movable
    BY <1>0, <2>1 DEF TypeOK, MountTableTypeOK
  <2>. QED  BY <1>8, <2>2, <2>3 DEF Recover, TypeOK, MountTableTypeOK
<1>9. CASE Spawn \/ Exit
  <2>1. Event({"pid"}) /\ UNCHANGED <<node, mapper, mounts, stalled, hung>>
    BY <1>9 DEF Spawn, Exit
  <2>2. proc' \in [id : 0 .. MaxEvents, uses : Mountpoints \cup {NoMount}]
    <3>1. events + 1 \in 0 .. MaxEvents
      BY <1>0, <2>1 DEF Event, TypeOK, MountTableTypeOK
    <3>2. CASE Spawn
      <4>1. PICK q \in Mountpoints \cup {NoMount} : proc' = [id |-> events + 1, uses |-> q]
        BY <3>2 DEF Spawn
      <4>. QED  BY <3>1, <4>1
    <3>3. CASE Exit
      BY <1>0, <3>3 DEF Exit, NoProc
    <3>. QED  BY <1>9, <3>2, <3>3
  <2>. QED  BY <1>0, <1>1, <2>1, <2>2 DEF TypeOK, MountTableTypeOK
<1>. QED  BY <1>2, <1>3, <1>4, <1>5, <1>6, <1>7, <1>8, <1>9 DEF Others

\* Others keep the types.
LEMMA OthersType ==
  ASSUME TypeOK, Others, UNCHANGED <<openLocals, closeLocals>>
  PROVE  TypeOK'
<1>1. OpeningTypeOK' /\ ClosingTypeOK'
  BY DEF openLocals, closeLocals, TypeOK, OpeningTypeOK, ClosingTypeOK
<1>. QED  BY <1>1, OthersKernelType DEF TypeOK

\* Every step keeps the types.
LEMMA TypeStep ==
  ASSUME TypeOK, [Next]_vars
  PROVE  TypeOK'
<1>1. CASE UNCHANGED vars
  <2>1. OpeningTypeOK' /\ ClosingTypeOK'
    BY <1>1 DEF vars, openLocals, closeLocals, TypeOK, OpeningTypeOK, ClosingTypeOK
  <2>2. MountTableTypeOK'
    BY <1>1 DEF vars, shared, kernel, TypeOK, MountTableTypeOK
  <2>. QED  BY <1>1, <2>1, <2>2 DEF vars, shared, TypeOK
<1>. QED  BY <1>1, OpenerType, CloserType, OthersType DEF Next

\* Types hold at first.
LEMMA InitType ==
  ASSUME Init
  PROVE  TypeOK
<1>0. /\ 0 \in 0 .. MaxEvents /\ 0 \in 0 .. MaxTries /\ 0 \in 0 .. Rounds
      /\ (CHOOSE n \in Nodes : TRUE) \in Nodes /\ Home \in Mountpoints
  BY Names, MountConstants
<1>1. MountTableTypeOK
  BY <1>0 DEF Init, MountTableInit, MountTableTypeOK, NoProc
<1>2. OpeningTypeOK
  BY <1>0, Names DEF Init, OpeningInit, OpeningTypeOK
<1>3. ClosingTypeOK
  BY <1>0, Names DEF Init, ClosingInit, ClosingTypeOK, Stages
<1>. QED  BY <1>1, <1>2, <1>3 DEF Init, MountTableInit, TypeOK

(* Type correctness of the mount table and of open and close, among others *)
(* that every device at work is one of the disk, and that close retries    *)
(* only so often.                                                          *)
THEOREM TypeCorrect == Spec => []TypeOK
  BY InitType, TypeStep, PTL DEF Spec

-----------------------------------------------------------------------------
(***************************************************************************)
(* Open keeps its invariant.                                               *)
(***************************************************************************)
\* Whatever others change while a command works is marked.
LEMMA OthersMark ==
  ASSUME TypeOK, Others, pc # "idle"
  PROVE  /\ moved \subseteq moved'
         /\ node' # node => "disk" \in moved'
         /\ proc' # proc => "pid" \in moved'
         /\ \A m \in MapperNames : mapper'[m] # mapper[m] => m \in moved'
         /\ \A q \in Mountpoints : mounts'[q] # mounts[q] => q \in moved'
         /\ UNCHANGED <<layout, pc, at, todo>>
<1>1. ASSUME NEW what, Event(what)
      PROVE  moved' = moved \cup what /\ UNCHANGED <<layout, pc, at, todo>>
  BY <1>1 DEF Event
<1>2. CASE Unplug \/ Plug
  BY <1>1, <1>2 DEF Unplug, Plug
<1>3. CASE Automount
  <2>1. PICK s \in Sources, q \in Mountpoints : mounts' = [mounts EXCEPT ![q] = s] /\ Event({q})
    BY <1>3 DEF Automount
  <2>. QED  BY <1>1, <1>3, <2>1 DEF Automount, TypeOK, MountTableTypeOK
<1>4. CASE OthersUnmount
  <2>1. PICK q \in Mountpoints : mounts' = Without(q) /\ Event({q})
    BY <1>4 DEF OthersUnmount
  <2>. QED  BY <1>1, <1>4, <2>1, WithoutType DEF OthersUnmount
<1>5. CASE OthersUnlock \/ OthersLock
  <2>1. PICK m \in MapperNames : (\E d : mapper' = [mapper EXCEPT ![m] = d]) /\ Event({m})
    BY <1>5 DEF OthersUnlock, OthersLock
  <2>. QED  BY <1>1, <1>5, <2>1 DEF OthersUnlock, OthersLock, TypeOK, MountTableTypeOK
<1>6. CASE Stall \/ Spawn \/ Exit
  BY <1>1, <1>6 DEF Stall, Spawn, Exit
<1>7. CASE Recover
  <2>1. PICK gone \in SUBSET hung :
          /\ mounts' = [q \in Mountpoints |-> IF q \in gone THEN NoMount ELSE mounts[q]]
          /\ moved' = moved \cup gone
    BY <1>7 DEF Recover
  <2>. QED  BY <1>7, <2>1 DEF Recover
<1>. QED  BY <1>2, <1>3, <1>4, <1>5, <1>6, <1>7 DEF Others

\* What others do during open is in moved, which every part of OpenInv excepts.
LEMMA OpenInvOthers ==
  ASSUME TypeOK, OpenInv, Others, UNCHANGED openLocals
  PROVE  OpenInv'
<1>0. UNCHANGED <<layout, pc, at, todo, named, arg, dev, target, spot, round>>
  BY OthersKernelType DEF openLocals
<1>1. CASE pc = "idle"
  BY <1>0, <1>1 DEF OpenInv, TargetLive, OwnListed, InPlace, Alone, Chosen
<1>2. CASE pc # "idle"
  <2>1. /\ Name \in MapperNames /\ target \in Devices \cup {Name} /\ spot \in Mountpoints
        /\ todo \subseteq Mountpoints
    BY Names DEF TypeOK, MountTableTypeOK, OpeningTypeOK
  <2>2. TargetLive'
    <3>1. ASSUME pc \in Chosen, moved' \cap {Name, "disk"} = {}
          PROVE  Live(target)'
      <4>1. moved \cap {Name, "disk"} = {} /\ node' = node /\ mapper'[Name] = mapper[Name]
        BY <1>2, <2>1, <3>1, OthersMark
      <4>2. Live(target) /\ target' = target
        BY <1>0, <3>1, <4>1 DEF OpenInv, TargetLive
      <4>3. target \in MapperNames => target = Name
        BY <2>1, Names
      <4>. QED  BY <4>1, <4>2, <4>3 DEF Live
    <3>. QED  BY <1>0, <3>1 DEF OpenInv, TargetLive
  <2>3. OwnListed'
    BY <1>0, <1>2, <2>1, OthersMark DEF OpenInv, OwnListed
  <2>4. InPlace'
    BY <1>0, <1>2, <2>1, OthersMark DEF OpenInv, InPlace
  <2>5. Alone'
    BY <1>0, <1>2, <2>1, OthersMark DEF OpenInv, Alone, Targets
  <2>. QED  BY <2>2, <2>3, <2>4, <2>5 DEF OpenInv
<1>. QED  BY <1>1, <1>2

\* What open has chosen stays what it was while open leaves the disk, its
\* mapper and its choice alone.
LEMMA TargetLiveStays ==
  ASSUME TypeOK, TargetLive, pc \in Chosen, UNCHANGED <<node, mapper, target>>,
         moved \cap {Name, "disk"} \subseteq moved', pc' \notin {"mapper", "recycle", "unlock"}
  PROVE  TargetLive'
  BY DEF TargetLive, Live

\* open's target is over the disk that is there.
LEMMA TargetLiveOpen ==
  ASSUME TypeOK, OpenInv, OpenStart \/ OpenStep
  PROVE  TargetLive'
<1>0. /\ Name \in MapperNames /\ target \in Devices \cup {Name} /\ spot \in Mountpoints
      /\ dev \in Devices /\ TargetLive /\ moved \cap {Name, "disk"} \subseteq moved \ Mountpoints
      /\ Name \notin Mountpoints /\ "disk" \notin Mountpoints /\ Preferred \in Mountpoints
      /\ mapper \in [MapperNames -> Devices \cup {Closed}]
  BY Names DEF TypeOK, MountTableTypeOK, OpeningTypeOK, OpenInv, Preferred
<1>1. CASE OpenEnds \/ OpenStart \/ Ready
  <2>1. pc' \in {"idle", "wait", "classify"}
    BY <1>1, OpenEndingState DEF OpenStart, Ready, Go
  <2>. QED  BY <2>1 DEF TargetLive, Chosen
<1>2. CASE Classify
  <2>1. PICK p \in Payloads(arg) :
          /\ target' = IF IsLuks(p) THEN Name ELSE [dev EXCEPT !.place = p]
          /\ pc' = IF IsLuks(p) THEN "mapper" ELSE "select"
    BY <1>2 DEF Classify, Go
  <2>2. p \in Places
    BY DEF Payloads, TypeOK, OpeningTypeOK
  <2>3. dev.node = node /\ node' = node
    BY <1>2, OpenLooking DEF Classify, OpenLooks
  <2>4. [dev EXCEPT !.place = p] \in Devices /\ [dev EXCEPT !.place = p].node = node
    BY <1>0, <2>2, <2>3 DEF Devices
  <2>5. CASE IsLuks(p)
    BY <2>1, <2>5 DEF TargetLive, Chosen
  <2>6. CASE ~IsLuks(p)
    BY <2>1, <2>3, <2>4, <2>6 DEF TargetLive, Live
  <2>. QED  BY <2>5, <2>6
<1>3. CASE MapperExists
  <2>1. mapper[Name] # Closed /\ mapper[Name].node = node
    BY <1>3 DEF MapperExists, Stale, Dev
  <2>2. target' = Name /\ pc' = "select" /\ UNCHANGED <<node, mapper>>
    BY <1>0, <1>3 DEF MapperExists, TargetLive, Go, openLocals, kernel
  <2>. QED  BY <1>0, <2>1, <2>2 DEF TargetLive, Live
<1>4. CASE MapperStale \/ NoMapper \/ RecycleUnmount \/ Recycle
  <2>1. target' = Name /\ pc' \in {"recycle", "unlock"}
    BY <1>0, <1>4 DEF MapperStale, NoMapper, RecycleUnmount, Recycle, TargetLive, Go, openLocals
  <2>. QED  BY <2>1 DEF TargetLive, Chosen
<1>5. CASE Unlock
  <2>1. target' = Name /\ pc' = "select" /\ node' = node /\ dev.node = node
        /\ mapper' = [mapper EXCEPT ![Name] = dev]
    BY <1>0, <1>5 DEF Unlock, CanOpenMapper, TargetLive, Go, openLocals
  <2>2. mapper'[Name] = dev /\ dev # Closed
    BY <1>0, <2>1, Names
  <2>. QED  BY <1>0, <2>1, <2>2 DEF TargetLive, Live
<1>6. CASE SelectFree \/ SelectStale \/ Cleared \/ Look \/ SkipListed \/ AllRemoved
           \/ PruneLook \/ PruneGivesUp \/ Succeed
  <2>1. pc \in Chosen
    BY <1>6 DEF SelectFree, SelectStale, Cleared, Look, SkipListed, AllRemoved, PruneLook, PruneGivesUp,
       Succeed, Chosen
  <2>2. pc' \notin {"mapper", "recycle", "unlock"}
    BY <1>6 DEF SelectFree, SelectStale, Cleared, Look, SkipListed, AllRemoved, PruneLook, PruneGivesUp,
       Succeed, Go
  <2>3. target' = target /\ moved \ Mountpoints \subseteq moved'
    BY <1>0, <1>6 DEF SelectFree, SelectStale, Cleared, Look, SkipListed, AllRemoved, PruneLook,
       PruneGivesUp, Succeed, openLocals
  <2>. QED  BY <1>0, <1>6, <2>1, <2>2, <2>3, OpenLooking, TargetLiveStays DEF OpenLooks
<1>7. CASE Clear \/ UnmountListed \/ MountDevice
  <2>1. pc \in Chosen /\ pc' \notin {"mapper", "recycle", "unlock"}
    BY <1>7 DEF Clear, UnmountListed, MountDevice, Chosen, Go
  <2>2. UNCHANGED <<node, mapper, target>> /\ moved \ Mountpoints \subseteq moved'
    BY <1>0, <1>7 DEF Clear, UnmountListed, MountDevice, openLocals
  <2>. QED  BY <1>0, <2>1, <2>2, TargetLiveStays
<1>. QED  BY <1>1, <1>2, <1>3, <1>4, <1>5, <1>6, <1>7, OpenSteps DEF OpenLooks, OpenActs

\* What open is about to unmount is its own.
LEMMA OwnListedOpen ==
  ASSUME TypeOK, OpenInv, OpenStart \/ OpenStep
  PROVE  OwnListed'
<1>0. todo \subseteq Mountpoints /\ spot \in Mountpoints /\ OwnListed /\ TargetLive
      /\ mounts \in [Mountpoints -> Sources \cup {NoMount}]
  BY DEF OpenInv, TypeOK, MountTableTypeOK, OpeningTypeOK
<1>1. CASE OpenEnds \/ OpenStart \/ Ready \/ Classify \/ MapperExists \/ NoMapper \/ Recycle \/ Unlock
           \/ SelectFree \/ Clear \/ Cleared \/ AllRemoved \/ MountDevice \/ PruneGivesUp \/ Succeed
  <2>1. pc' \notin {"recycle", "clear", "extras", "override", "pruning"}
    BY <1>1, OpenEndingState DEF OpenStart, Ready, Classify, MapperExists, NoMapper, Recycle, Unlock,
       SelectFree, Clear, Cleared, AllRemoved, MountDevice, PruneGivesUp, Succeed, Go
  <2>. QED  BY <2>1 DEF OwnListed
<1>2. CASE MapperStale
  <2>1. todo' = Targets(Name) /\ pc' = "recycle" /\ mounts' = mounts
    BY <1>2 DEF MapperStale, Go, kernel
  <2>. QED  BY <2>1 DEF OwnListed, Targets
<1>3. CASE SelectStale
  <2>1. mounts[Preferred] # Stick
    BY <1>3 DEF SelectStale, Displaceable, Present
  <2>2. spot' = Preferred /\ pc' = "clear" /\ mounts' = mounts
    BY <1>3 DEF SelectStale, Go, kernel
  <2>. QED  BY <2>1, <2>2 DEF OwnListed
<1>4. CASE Look \/ PruneLook
  <2>1. /\ todo' = Targets(target) \ {spot} /\ UNCHANGED <<mounts, spot, target>>
        /\ pc' \notin {"recycle", "clear"}
    BY <1>4 DEF Look, PruneLook, Go, kernel, openLocals
  <2>. QED  BY <2>1 DEF OwnListed, Targets
<1>5. CASE RecycleUnmount \/ UnmountListed
  <2>1. PICK q \in todo : mounts' = Without(q) /\ todo' = todo \ {q}
    BY <1>5 DEF RecycleUnmount, UnmountListed
  <2>2. \A r \in todo' : mounts'[r] = mounts[r]
    BY <1>0, <2>1, WithoutType
  <2>3. UNCHANGED <<pc, moved, spot, target>> /\ pc # "clear"
    BY <1>5 DEF RecycleUnmount, UnmountListed, openLocals
  <2>. QED  BY <1>0, <2>1, <2>2, <2>3 DEF OwnListed
<1>6. CASE SkipListed
  <2>1. /\ todo' \subseteq todo /\ UNCHANGED <<mounts, pc, moved, spot, target>>
        /\ pc \notin {"recycle", "clear"}
    BY <1>6 DEF SkipListed, kernel, openLocals
  <2>. QED  BY <1>0, <2>1 DEF OwnListed
<1>. QED  BY <1>1, <1>2, <1>3, <1>4, <1>5, <1>6, OpenSteps DEF OpenLooks, OpenActs

\* What open found or put at its mountpoint is there.
LEMMA InPlaceOpen ==
  ASSUME TypeOK, OpenInv, OpenStart \/ OpenStep
  PROVE  InPlace'
<1>0. todo \subseteq Mountpoints /\ spot \in Mountpoints /\ OwnListed /\ InPlace
      /\ mounts \in [Mountpoints -> Sources \cup {NoMount}] /\ layout' = layout
  BY OpenerKernel DEF OpenInv, TypeOK, MountTableTypeOK, OpeningTypeOK
<1>1. CASE OpenEnds \/ OpenStart \/ Ready \/ Classify \/ MapperExists \/ MapperStale \/ NoMapper
           \/ RecycleUnmount \/ Recycle \/ Unlock \/ SelectFree \/ SelectStale \/ Clear \/ Cleared
  <2>1. pc' \notin {"extras", "prune", "pruning", "finish", "opened"}
    BY <1>1, OpenEndingState DEF OpenStart, Ready, Classify, MapperExists, MapperStale, NoMapper,
       RecycleUnmount, Recycle, Unlock, SelectFree, SelectStale, Clear, Cleared, Go
  <2>. QED  BY <2>1 DEF InPlace
<1>2. CASE Look
  <2>1. UNCHANGED <<mounts, spot, target>>
    BY <1>2 DEF Look, kernel, openLocals
  <2>2. pc' \in {"mount", "extras", "override"} /\ (pc' = "extras" => mounts[spot] = target)
    BY <1>2 DEF Look, Go, Targets
  <2>. QED  BY <2>1, <2>2 DEF InPlace
<1>3. CASE UnmountListed
  <2>1. PICK q \in todo : mounts' = Without(q)
    BY <1>3 DEF UnmountListed
  <2>2. UNCHANGED <<pc, moved, spot, target>> /\ q # spot
    BY <1>0, <1>3 DEF UnmountListed, openLocals, OwnListed
  <2>3. mounts'[spot] = mounts[spot]
    BY <1>0, <2>1, <2>2, WithoutType
  <2>. QED  BY <1>0, <2>2, <2>3 DEF InPlace
<1>4. CASE SkipListed \/ PruneLook \/ PruneGivesUp \/ Succeed
  <2>1. UNCHANGED <<mounts, spot, target>> /\ (spot \in moved => spot \in moved')
    BY <1>0, <1>4 DEF SkipListed, PruneLook, PruneGivesUp, Succeed, kernel, openLocals
  <2>2. pc \in {"extras", "prune", "pruning", "finish", "opened"}
    BY <1>4 DEF SkipListed, PruneLook, PruneGivesUp, Succeed
  <2>. QED  BY <1>0, <2>1, <2>2 DEF InPlace
<1>5. CASE AllRemoved
  <2>1. UNCHANGED <<mounts, spot, target, moved>>
    BY <1>5 DEF AllRemoved, kernel, openLocals
  <2>2. pc' = "mount" \/ pc \in {"extras", "pruning"}
    BY <1>5 DEF AllRemoved, Go
  <2>. QED  BY <1>0, <2>1, <2>2 DEF InPlace
<1>6. CASE MountDevice
  <2>1. mounts'[spot] = MountSource /\ UNCHANGED <<spot, target>>
    BY <1>0, <1>6 DEF MountDevice, openLocals
  <2>. QED  BY <1>0, <2>1 DEF InPlace, MountSource
<1>. QED  BY <1>1, <1>2, <1>3, <1>4, <1>5, <1>6, OpenSteps DEF OpenLooks, OpenActs

\* At the end of open its target is mounted at its mountpoint only.
LEMMA AloneOpen ==
  ASSUME TypeOK, OpenInv, OpenStart \/ OpenStep
  PROVE  Alone'
<1>1. CASE PruneLook
  <2>1. /\ todo' = Targets(target) \ {spot} /\ UNCHANGED <<mounts, spot, target>>
        /\ pc' = (IF todo' = {} THEN "finish" ELSE "pruning")
    BY <1>1 DEF PruneLook, Go, kernel
  <2>. QED  BY <2>1 DEF Alone, Targets
<1>2. CASE PruneGivesUp
  <2>1. round' = round /\ round # 0
    BY <1>2, Names DEF PruneGivesUp, MoreRounds, openLocals, TypeOK, OpeningTypeOK
  <2>. QED  BY <2>1 DEF Alone
<1>3. CASE Succeed
  BY <1>3 DEF Succeed, Alone, OpenInv, Targets, kernel, openLocals
<1>4. CASE OpenEnds \/ OpenStart \/ OpenActs \/ Ready \/ Classify \/ MapperExists \/ MapperStale
           \/ NoMapper \/ SelectFree \/ SelectStale \/ Cleared \/ Look \/ SkipListed \/ AllRemoved
  <2>1. pc' \notin {"finish", "opened"}
    BY <1>4, OpenEndingState DEF OpenStart, OpenActs, RecycleUnmount, Recycle, Unlock, Clear,
       UnmountListed, MountDevice, Ready, Classify, MapperExists, MapperStale,
       NoMapper, SelectFree, SelectStale, Cleared, Look, SkipListed, AllRemoved, Go
  <2>. QED  BY <2>1 DEF Alone
<1>. QED  BY <1>1, <1>2, <1>3, <1>4, OpenSteps DEF OpenLooks

\* Every step keeps the invariant of open.
LEMMA OpenInvStep ==
  ASSUME TypeOK, OpenInv, [Next]_vars
  PROVE  OpenInv'
<1>1. CASE Opener
  BY <1>1, TargetLiveOpen, OwnListedOpen, InPlaceOpen, AloneOpen DEF Opener, OpenInv
<1>2. CASE Closer
  <2>1. pc' \in {"idle"} \cup ClosePCs
    BY <1>2, CloserProgressType DEF Closer
  <2>. QED  BY <2>1 DEF ClosePCs, OpenInv, TargetLive, OwnListed, InPlace, Alone, Chosen
<1>3. CASE Others /\ UNCHANGED <<openLocals, closeLocals>>
  BY <1>3, OpenInvOthers
<1>4. CASE UNCHANGED vars
  BY <1>4 DEF vars, shared, kernel, openLocals, OpenInv, TargetLive, OwnListed, InPlace, Alone, Live, Targets
<1>. QED  BY <1>1, <1>2, <1>3, <1>4 DEF Next

\* The invariant of open holds at all times.
THEOREM OpenInvariant == Spec => []OpenInv
<1>1. Init => OpenInv
  BY DEF Init, MountTableInit, OpenInv, TargetLive, OwnListed, InPlace, Alone, Chosen
<1>. QED  BY <1>1, TypeCorrect, OpenInvStep, PTL DEF Spec

(* open reports success only with the device, or its mapper, mounted where *)
(* it says and over the disk that is plugged in, unless someone has        *)
(* changed just that since it looked.                                      *)
THEOREM OpensTheDisk == Spec => []OpenedLive
<1>1. OpenInv => OpenedLive
  BY DEF OpenInv, TargetLive, InPlace, OpenedLive, Chosen
<1>. QED  BY <1>1, OpenInvariant, PTL

(* The mount that open reports is the only one of the device when it gave  *)
(* up no duplicate, but for those made since it looked last.               *)
THEOREM OpensOnce == Spec => []OnePlace
<1>1. OpenInv => OnePlace
  BY DEF OpenInv, Alone, OnePlace
<1>. QED  BY <1>1, OpenInvariant, PTL

-----------------------------------------------------------------------------
(***************************************************************************)
(* Close keeps its invariant.                                              *)
(***************************************************************************)
\* Except while close waits for it, what is stuck is known to be uncertain, or is
\* of no child mapper that is still to be closed.
LEMMA HungKnown ==
  ASSUME HungAt, pc \notin {"c_wait", "r_detach", "r_rescan"}
  PROVE  /\ stage # "child" => \A q \in hung : q \in moved /\ q \notin Pending
         /\ stage = "child" => \A q \in hung : q \in moved \/ mounts[q] \notin children
  BY DEF HungAt

\* close retries no umount beside one that is stuck.
LEMMA RetrySafe ==
  ASSUME TypeOK, CloseInv, pc = "c_wait", retry, at \in hung
  PROVE  stage = "child" /\ at \in moved
<1>1. at \in Pending /\ Stuck(at)
  BY DEF CloseInv, HungAt, Pending, UmountPCs
<1>2. stage = "child"
  BY <1>1 DEF CloseInv, HungAt
<1>3. at \notin moved => mounts[at] = child
  BY <1>1, <1>2 DEF CloseInv, ChildListed, Stuck
<1>. QED  BY <1>2, <1>3 DEF CloseInv, HungAt, UmountPCs

\* A close that has ended waits for nothing.
LEMMA CloseInvEnd ==
  ASSUME EndClose
  PROVE  CloseInv'
<1>1. pc' = "idle" /\ hung' = {} /\ stage' = "mapper" /\ children' = {}
  BY DEF EndClose, CloseReset
<1>. QED
  BY <1>1 DEF CloseInv, CloseListed, ChildListed, Staged, HungAt, Detaching, Verified, Pending,
     UmountPCs, ClosePCs, OpenPCs

\* What is stuck stays as it is until the kernel recovers.
LEMMA OthersHung ==
  ASSUME TypeOK, HungAt, Others
  PROVE  hung' \subseteq hung /\ \A q \in hung' : mounts'[q] = mounts[q] /\ Stuck(q)'
<1>0. hung \subseteq Mountpoints /\ mounts \in [Mountpoints -> Sources \cup {NoMount}]
      /\ \A q \in hung : stalled /\ mounts[q] \notin {Stick, NoMount}
  BY DEF TypeOK, MountTableTypeOK, HungAt, Stuck
<1>1. CASE Recover
  BY <1>1 DEF Recover
<1>2. CASE Unplug \/ Plug \/ OthersUnlock \/ OthersLock \/ Spawn \/ Exit
  BY <1>0, <1>2 DEF Unplug, Plug, OthersUnlock, OthersLock, Spawn, Exit, Stuck
<1>3. CASE Stall
  BY <1>0, <1>3 DEF Stall, Stuck
<1>4. CASE Automount
  <2>1. PICK s \in Sources, q \in Mountpoints :
          mounts[q] = NoMount /\ mounts' = [mounts EXCEPT ![q] = s]
    BY <1>4 DEF Automount
  <2>2. \A r \in hung : mounts'[r] = mounts[r]
    BY <1>0, <2>1
  <2>. QED  BY <1>0, <1>4, <2>2 DEF Automount, Stuck
<1>5. CASE OthersUnmount
  <2>1. PICK q \in Mountpoints : CanUmount(q) /\ mounts' = Without(q)
    BY <1>5 DEF OthersUnmount
  <2>2. q \notin hung
    BY <2>1 DEF CanUmount, HungAt
  <2>3. \A r \in hung : mounts'[r] = mounts[r]
    BY <1>0, <2>1, <2>2, WithoutType
  <2>. QED  BY <1>0, <1>5, <2>3 DEF OthersUnmount, Stuck
<1>. QED  BY <1>1, <1>2, <1>3, <1>4, <1>5 DEF Others

\* Others can neither mount nor unmount where a umount hangs.
LEMMA CloseInvOthers ==
  ASSUME TypeOK, CloseInv, Others, UNCHANGED closeLocals
  PROVE  CloseInv'
<1>0. /\ UNCHANGED <<layout, pc, at, todo, disk, stage, retry, children, child, blind, start>>
      /\ todo \subseteq Mountpoints /\ at \in Mountpoints /\ hung \subseteq Mountpoints
      /\ hung' \subseteq hung /\ \A q \in hung' : mounts'[q] = mounts[q] /\ Stuck(q)'
  BY OthersKernelType, OthersHung DEF closeLocals, TypeOK, MountTableTypeOK, CloseInv
<1>1. pc # "idle" => moved \subseteq moved'
  BY OthersMark
<1>2. Pending' = Pending /\ Pending \subseteq Mountpoints
  BY <1>0 DEF Pending
<1>3. Pending # {} => pc # "idle"
  BY DEF Pending, UmountPCs
<1>4. CloseListed' /\ ChildListed'
  BY <1>0, <1>2, <1>3, OthersMark DEF CloseInv, CloseListed, ChildListed
<1>5. Staged'
  BY <1>0 DEF CloseInv, Staged
<1>6. HungAt'
  <2>1. pc = "idle" => hung = {}
    BY DEF CloseInv, HungAt
  <2>. QED  BY <1>0, <1>1, <1>2, <2>1 DEF CloseInv, HungAt
<1>7. Verified'
  BY <1>0, <1>1, OthersMark DEF CloseInv, Verified
<1>8. Detaching'
  <2>1. pc = "r_detach" => (MountsOn(disk) \subseteq moved)'
    BY <1>0, OthersMark DEF CloseInv, Detaching, MountsOn
  <2>2. pc \in {"r_recheck", "r_detach"} => (blind \/ MappersOn(disk) \subseteq moved)'
    BY <1>0, OthersMark DEF CloseInv, Detaching, MappersOn
  <2>. QED  BY <1>0, <2>1, <2>2 DEF Detaching
<1>. QED  BY <1>4, <1>5, <1>6, <1>7, <1>8 DEF CloseInv

\* open runs only while no close does.
LEMMA CloseInvOpener ==
  ASSUME TypeOK, CloseInv, Opener
  PROVE  CloseInv'
<1>1. pc \in {"idle"} \cup OpenPCs
  BY DEF Opener, OpenStart, OpenStep, Ready, NotReady, Classify, Unclassified, MapperExists, MapperStale,
     NoMapper, RecycleUnmount, NotRecycled, Recycle, Unlock, NotUnlocked, SelectFree, SelectStale,
     SelectBlocked, Clear, Cleared, NotCleared, Look, UnmountListed, SkipListed, NotOverridden,
     AllRemoved, MountDevice, NotMounted, PruneLook, PruneGivesUp, Succeed, OptionsFail, Opened, OpenPCs
<1>2. pc' \in {"idle"} \cup OpenPCs /\ UNCHANGED <<hung, stage, child, children>>
  BY OpenerProgressType, OpenerKernel DEF Opener, closeLocals
<1>3. stage # "child" /\ hung = {} /\ children = {}
  <2>1. stage # "child" /\ hung = {}
    BY <1>1 DEF CloseInv, Staged, HungAt
  <2>2. pc # "c_child"
    BY <1>1 DEF OpenPCs
  <2>. QED  BY <2>1, <2>2 DEF CloseInv, Staged
<1>. QED
  BY <1>2, <1>3 DEF CloseInv, CloseListed, ChildListed, Staged, HungAt, Detaching, Verified, Pending,
     UmountPCs, OpenPCs

-----------------------------------------------------------------------------
\* The first lists.
LEMMA CloseInvBegin ==
  ASSUME TypeOK, CloseInv, CloseByName \/ CloseById \/ Lists
  PROVE  CloseInv'
<1>0. /\ pc \in {"idle", "c_mapper", "c_source", "c_guess"}
      /\ pc' \in {"c_mapper", "c_source", "c_guess", "c_children", "c_next"}
      /\ stage' \in {stage, "mapper", "source", "guess", "id"}
      /\ children' = children /\ mounts' = mounts /\ hung' = hung
  BY Listing, CloseLooking DEF CloseByName, CloseById, To, Lists, CloseLooks
<1>1. stage # "child" /\ stage' # "child"
  BY <1>0 DEF CloseInv, Staged
<1>2. hung' = {} /\ children' = {}
  BY <1>0, <1>1 DEF CloseInv, Staged, HungAt
<1>3. node \in Nodes => \A p \in Places : \A q \in TargetsOfDisk(p) : mounts[q] # Stick
  <2>1. ASSUME node \in Nodes, NEW p \in Places, NEW q \in TargetsOfDisk(p)
        PROVE  mounts[q] # Stick
    <3>1. PICK c \in Places : mounts[q] = Dev(c)
      BY DEF TargetsOfDisk, Targets
    <3>. QED  BY <2>1, <3>1, DevType, Names
  <2>. QED  BY <2>1
<1>4. Plugged => node \in Nodes
  BY DEF Plugged, TypeOK, MountTableTypeOK
<1>5. pc' = "c_next" => \A q \in todo' : mounts[q] # Stick \/ q = Home
  <2>1. CASE CloseByName
    BY <2>1 DEF CloseByName, To
  <2>2. CASE CloseById
    <3>1. byId' \in Places /\ todo' = TargetsOfDisk(byId') /\ Plugged
      BY <2>2 DEF CloseById
    <3>. QED  BY <1>3, <1>4, <3>1
  <2>3. CASE ListMapper
    <3>1. todo' = Targets(Name)
      BY <2>3 DEF ListMapper, List
    <3>. QED  BY <3>1, Names DEF Targets
  <2>4. CASE ListSource
    <3>1. todo' = IF Plugged THEN TargetsOfDisk(layout.mapped) ELSE {}
      BY <2>4 DEF ListSource, List
    <3>2. layout.mapped \in Places
      BY Names DEF TypeOK, MountTableTypeOK
    <3>. QED  BY <1>3, <1>4, <3>1, <3>2
  <2>5. CASE ListGuess
    BY <2>5 DEF ListGuess, List
  <2>. QED  BY <2>1, <2>2, <2>3, <2>4, <2>5 DEF Lists
<1>6. CloseListed'
  BY <1>0, <1>5 DEF CloseListed, Pending, UmountPCs
<1>. QED
  BY <1>0, <1>1, <1>2, <1>6 DEF CloseInv, ChildListed, Staged, HungAt, Detaching, Verified, UmountPCs

\* Going from one mountpoint, or one step, to the next.
LEMMA CloseInvWork ==
  ASSUME TypeOK, CloseInv, NextMount \/ ListHolders \/ ReadStart \/ Verify \/ Kill \/ Flush \/ Umount \/ Released
  PROVE  CloseInv'
<1>0. /\ todo \subseteq Mountpoints /\ at \in Mountpoints /\ hung \subseteq Mountpoints
      /\ child \in MapperNames
  BY DEF TypeOK, MountTableTypeOK, ClosingTypeOK
<1>1. UNCHANGED <<stalled, hung, disk, stage, children, child>>
  BY DEF NextMount, ListHolders, ReadStart, Verify, Kill, Flush, Umount, Released, kernel, closeLocals
<1>2. /\ pc \in UmountPCs \cup {"c_next"}
      /\ pc' \in (UmountPCs \ {"c_wait"}) \cup {"c_next", "c_lock_child", "c_children"}
  BY DEF NextMount, ListHolders, ReadStart, Verify, Kill, Flush, Umount, Released, To, UmountPCs
<1>3. /\ pc' = "c_lock_child" => stage = "child"
      /\ pc' = "c_children" => stage # "child"
  BY DEF NextMount, ListHolders, ReadStart, Verify, Kill, Flush, Umount, Released, To
<1>4. Pending' \subseteq Pending
  BY DEF NextMount, ListHolders, ReadStart, Verify, Kill, Flush, Umount, Released, To, UmountPCs, Pending
<1>5. \A q \in Mountpoints : mounts'[q] = mounts[q] \/ mounts'[q] = NoMount
  <2>1. CASE Umount
    BY <1>0, <2>1, WithoutType DEF Umount
  <2>2. CASE ~Umount
    BY <2>2 DEF NextMount, ListHolders, ReadStart, Verify, Kill, Flush, Released, kernel
  <2>. QED  BY <2>1, <2>2
<1>6. \A q \in hung : mounts'[q] = mounts[q]
  <2>1. CASE Umount
    <3>1. at \notin hung
      BY <2>1 DEF Umount, CanUmount, CloseInv, HungAt
    <3>. QED  BY <1>0, <2>1, <3>1, WithoutType DEF Umount
  <2>2. CASE ~Umount
    BY <2>2 DEF NextMount, ListHolders, ReadStart, Verify, Kill, Flush, Released, kernel
  <2>. QED  BY <2>1, <2>2
<1>7. Pending \subseteq Mountpoints
  BY <1>0 DEF Pending
<1>8. \A q \in Mountpoints : q \in moved => q \in moved'
  <2>1. moved \ {"pid"} \subseteq moved'
    BY DEF NextMount, ListHolders, ReadStart, Verify, Kill, Flush, Umount, Released
  <2>. QED  BY <2>1, Names
<1>9. CloseListed' /\ ChildListed'
  BY <1>1, <1>4, <1>5, <1>7, <1>8, Names DEF CloseInv, CloseListed, ChildListed
<1>10. Staged'
  <2>1. children # {} => stage = "child"
    BY <1>2 DEF CloseInv, Staged, UmountPCs
  <2>. QED  BY <1>1, <1>2, <1>3, <2>1 DEF CloseInv, Staged, UmountPCs, OpenPCs
<1>11. pc = "c_wait" /\ at \in hung => at \in moved' /\ at \notin Pending'
  <2>1. ASSUME pc = "c_wait", at \in hung
        PROVE  Released /\ mounts[at] # NoMount /\ at \notin todo
    BY <2>1 DEF NextMount, ListHolders, ReadStart, Verify, Kill, Flush, Umount, CloseInv, HungAt, Stuck,
       UmountPCs
  <2>2. Released => pc' = "c_next" /\ todo' = todo
                    /\ moved' = IF mounts[at] = NoMount THEN moved ELSE moved \cup {at}
    BY DEF Released, To
  <2>. QED  BY <2>1, <2>2 DEF Pending, UmountPCs
<1>12. HungAt'
  <2>1. \A q \in hung : Stuck(q)'
    BY <1>1, <1>6 DEF CloseInv, HungAt, Stuck
  <2>2. pc' \in UmountPCs => at' \notin todo'
    BY DEF NextMount, ListHolders, ReadStart, Verify, Kill, Flush, Umount, Released, To, CloseInv, HungAt,
       UmountPCs
  <2>3. stage # "child" => \A q \in hung : q \in moved' /\ q \notin Pending'
    BY <1>0, <1>2, <1>4, <1>8, <1>11 DEF CloseInv, HungAt, UmountPCs
  <2>4. stage = "child" =>
          \A q \in hung : q \in moved' \/ (mounts[q] \notin children /\ mounts[q] # child)
    BY <1>0, <1>2, <1>8, <1>11 DEF CloseInv, HungAt
  <2>5. pc' \notin {"idle", "c_mapper", "c_source", "c_guess"} \cup OpenPCs
    BY <1>2 DEF UmountPCs, OpenPCs
  <2>. QED  BY <1>1, <1>6, <2>1, <2>2, <2>3, <2>4, <2>5 DEF HungAt
<1>13. Detaching'
  BY <1>2 DEF Detaching, UmountPCs
<1>14. Verified'
  BY DEF NextMount, ListHolders, ReadStart, Verify, StillThere, Kill, Flush, Umount, Released, To, kernel,
     closeLocals, Verified
<1>. QED  BY <1>9, <1>10, <1>12, <1>13, <1>14 DEF CloseInv

\* A child mapper that stays open.
LEMMA CloseInvGiveUp ==
  ASSUME TypeOK, CloseInv, GiveUp, pc \in UmountPCs, UNCHANGED keeps
  PROVE  CloseInv'
<1>1. CASE EndClose
  BY <1>1, CloseInvEnd
<1>2. CASE ~EndClose
  <2>1. /\ stage = "child" /\ pc' = "c_child"
        /\ UNCHANGED <<mounts, stalled, at, moved, hung, stage, children, child, disk>>
    BY <1>2 DEF GiveUp, To, keeps, closeLocals
  <2>2. HungAt'
    BY <2>1 DEF CloseInv, HungAt, Stuck, UmountPCs, OpenPCs
  <2>. QED
    BY <2>1, <2>2 DEF CloseInv, CloseListed, ChildListed, Staged, Detaching, Verified, Pending,
       UmountPCs, OpenPCs
<1>. QED  BY <1>1, <1>2

\* The mount that close works on, if it is stuck, is of the child mapper.
LEMMA StuckChild ==
  ASSUME TypeOK, CloseInv, pc \in UmountPCs, stage = "child", Stuck(at), at \notin moved
  PROVE  mounts[at] = child /\ child \notin children
  BY DEF CloseInv, ChildListed, Staged, Pending, Stuck

\* close waits for the one umount that hangs.
LEMMA CloseInvWait ==
  ASSUME TypeOK, CloseInv, UmountHangs \/ UmountBusy \/ UmountError, ~GiveUp
  PROVE  CloseInv'
<1>0. pc = "c_umount" /\ pc \in UmountPCs /\ pc # "c_wait"
  BY DEF UmountHangs, UmountBusy, UmountError, UmountPCs
<1>1. /\ pc' = "c_wait" /\ UNCHANGED <<mounts, stalled, at, todo, moved, stage, children, child>>
      /\ \/ Stuck(at) /\ hung' = hung \cup {at} /\ ~retry'
         \/ hung' = hung
  BY DEF UmountHangs, UmountBusy, UmountError, AwaitKernel, RetryAfter, To, keeps
<1>2. stage # "child" => \A q \in hung : q \in moved /\ q \notin Pending
  BY <1>0, HungKnown DEF CloseInv
<1>3. stage = "child" =>
        \A q \in hung : q \in moved \/ (mounts[q] \notin children /\ mounts[q] # child)
  BY <1>0 DEF CloseInv, HungAt
<1>4. stage = "child" /\ Stuck(at) /\ at \notin moved => mounts[at] = child /\ child \notin children
  BY <1>0, StuckChild
<1>5. Pending' = Pending
  BY <1>0, <1>1 DEF Pending, UmountPCs
<1>6. HungAt'
  <2>1. \A q \in hung' : Stuck(q)'
    BY <1>1 DEF CloseInv, HungAt, Stuck
  <2>2. at' \notin todo' /\ pc' \notin OpenPCs
    BY <1>0, <1>1 DEF CloseInv, HungAt, OpenPCs
  <2>3. CASE hung' = hung
    BY <1>1, <1>2, <1>3, <1>5, <2>1, <2>2, <2>3 DEF HungAt
  <2>4. CASE Stuck(at) /\ hung' = hung \cup {at} /\ ~retry'
    BY <1>1, <1>2, <1>3, <1>4, <1>5, <2>1, <2>2, <2>4 DEF HungAt
  <2>. QED  BY <1>1, <2>3, <2>4
<1>7. CloseListed' /\ ChildListed'
  BY <1>1, <1>5 DEF CloseInv, CloseListed, ChildListed
<1>8. Staged'
  BY <1>0, <1>1 DEF CloseInv, Staged, UmountPCs, OpenPCs
<1>9. Detaching' /\ Verified'
  BY <1>1 DEF Detaching, Verified
<1>. QED  BY <1>6, <1>7, <1>8, <1>9 DEF CloseInv

\* A retry begins only when the umount before it has come back.
LEMMA CloseInvRetry ==
  ASSUME TypeOK, CloseInv, RetryUmount
  PROVE  CloseInv'
<1>0. pc = "c_wait" /\ pc \in UmountPCs /\ retry /\ at \in Mountpoints /\ todo \subseteq Mountpoints
      /\ hung \subseteq Mountpoints
  BY DEF RetryUmount, UmountPCs, TypeOK, MountTableTypeOK
<1>1. /\ UNCHANGED <<pc, stalled, at, todo, moved, stage, children, child>>
      /\ \/ Stuck(at) /\ mounts' = mounts /\ hung' = hung \cup {at} /\ ~retry'
         \/ ~Stuck(at) /\ mounts' \in {mounts, Without(at)} /\ hung' = hung
  BY DEF RetryUmount, RetryAfter, CanUmount
<1>2. at \in hung => Stuck(at)
  BY DEF CloseInv, HungAt
<1>3. \A q \in Mountpoints : mounts'[q] = mounts[q] \/ mounts'[q] = NoMount
  BY <1>0, <1>1, WithoutType
<1>4. \A q \in hung' : mounts'[q] = mounts[q]
  BY <1>0, <1>1, <1>2, WithoutType
<1>5. stage = "child" =>
        \A q \in hung : q \in moved \/ (mounts[q] \notin children /\ mounts[q] # child)
  BY <1>0 DEF CloseInv, HungAt
<1>6. stage = "child" /\ Stuck(at) /\ at \notin moved => mounts[at] = child /\ child \notin children
  BY <1>0, StuckChild
<1>7. stage # "child" => \A q \in hung : q \in moved /\ q \notin Pending
  BY <1>0 DEF CloseInv, HungAt
<1>8. Pending' = Pending /\ Pending \subseteq Mountpoints
  BY <1>0, <1>1 DEF Pending
<1>9. HungAt'
  <2>1. \A q \in hung' : Stuck(q)'
    <3>1. \A q \in hung' : Stuck(q)
      BY <1>1 DEF CloseInv, HungAt
    <3>. QED  BY <1>1, <1>4, <3>1 DEF Stuck
  <2>2. at' \notin todo' /\ pc' = "c_wait" /\ pc' \notin OpenPCs
    BY <1>0, <1>1 DEF CloseInv, HungAt, OpenPCs
  <2>3. CASE hung' = hung
    BY <1>1, <1>4, <1>5, <1>7, <1>8, <2>1, <2>2, <2>3 DEF HungAt
  <2>4. CASE Stuck(at) /\ hung' = hung \cup {at} /\ ~retry'
    BY <1>0, <1>1, <1>4, <1>5, <1>6, <1>7, <1>8, <2>1, <2>2, <2>4 DEF HungAt
  <2>. QED  BY <1>1, <2>3, <2>4
<1>10. CloseListed' /\ ChildListed'
  BY <1>1, <1>3, <1>8, Names DEF CloseInv, CloseListed, ChildListed
<1>11. Staged'
  BY <1>1 DEF CloseInv, Staged
<1>12. Detaching' /\ Verified'
  BY <1>0, <1>1 DEF Detaching, Verified
<1>. QED  BY <1>9, <1>10, <1>11, <1>12 DEF CloseInv

-----------------------------------------------------------------------------
\* The mappers.
LEMMA CloseInvMappers ==
  ASSUME TypeOK, CloseInv, ListChildren \/ LockChild \/ Lock \/ (Remaining /\ ~EndClose)
  PROVE  CloseInv'
<1>1. /\ pc \in {"c_children", "c_lock_child", "c_lock", "c_remaining"}
      /\ pc' \in {"c_child", "c_lock", "c_remaining", "c_rescue"}
      /\ UNCHANGED <<mounts, stalled, hung, at, moved, stage, child>>
  BY DEF ListChildren, LockChild, Lock, Remaining, To, kernel, closeLocals
<1>2. HungAt'
  <2>1. children' \subseteq children \/ stage # "child"
    BY DEF ListChildren, LockChild, Lock, Remaining, closeLocals, CloseInv, Staged
  <2>2. \A q \in hung' : Stuck(q)'
    BY <1>1 DEF CloseInv, HungAt, Stuck
  <2>3. stage # "child" => \A q \in hung : q \in moved
    BY <1>1, HungKnown DEF CloseInv
  <2>4. stage = "child" => \A q \in hung : q \in moved \/ mounts[q] \notin children
    BY <1>1, HungKnown DEF CloseInv
  <2>5. Pending' = {} /\ pc' \notin UmountPCs \cup {"c_next", "c_wait", "idle"} \cup OpenPCs
    BY <1>1 DEF Pending, UmountPCs, OpenPCs
  <2>. QED  BY <1>1, <2>1, <2>2, <2>3, <2>4, <2>5 DEF HungAt
<1>3. Staged'
  <2>1. CASE ListChildren
    <3>1. stage # "child" /\ (pc' = "c_child" \/ children' = {})
      BY <2>1 DEF ListChildren, To, CloseInv, Staged, UmountPCs
    <3>. QED  BY <1>1, <3>1 DEF Staged
  <2>2. CASE ~ListChildren
    <3>1. children' = children /\ (pc' = "c_child" \/ children = {})
      BY <2>2 DEF LockChild, Lock, Remaining, To, closeLocals, CloseInv, Staged, UmountPCs
    <3>. QED  BY <1>1, <3>1 DEF CloseInv, Staged, UmountPCs, OpenPCs
  <2>. QED  BY <2>1, <2>2
<1>. QED
  BY <1>1, <1>2, <1>3 DEF CloseInv, CloseListed, ChildListed, Detaching, Verified, Pending, UmountPCs

\* The next child mapper is one that was not given up.
LEMMA CloseInvNextChild ==
  ASSUME TypeOK, CloseInv, NextChild
  PROVE  CloseInv'
<1>1. pc = "c_child" /\ UNCHANGED <<mounts, stalled, hung, at>>
  BY DEF NextChild, kernel
<1>2. stage # "child" => \A q \in hung : q \in moved
  BY <1>1, HungKnown DEF CloseInv
<1>3. CASE children = {}
  <2>1. pc' \in {"c_lock", "c_remaining"} /\ UNCHANGED <<child, children, stage, moved>>
    BY <1>3 DEF NextChild, To
  <2>2. HungAt'
    BY <1>1, <1>2, <2>1 DEF CloseInv, HungAt, Stuck, Pending, UmountPCs, OpenPCs
  <2>. QED
    BY <1>3, <2>1, <2>2 DEF CloseInv, CloseListed, ChildListed, Staged, Detaching, Verified, Pending,
       UmountPCs, OpenPCs
<1>4. CASE children # {}
  <2>1. PICK m \in children :
          /\ child' = m /\ children' = children \ {m} /\ stage' = "child"
          /\ todo' = Targets(m) /\ moved' = moved \ (Mountpoints \ hung) /\ pc' = "c_next"
    BY <1>4 DEF NextChild, To
  <2>2. m # Stick
    BY Names DEF TypeOK, ClosingTypeOK
  <2>3. CloseListed' /\ ChildListed'
    BY <1>1, <2>1, <2>2 DEF CloseListed, ChildListed, Pending, Targets, UmountPCs
  <2>4. HungAt'
    <3>1. \A q \in hung : q \in moved \/ mounts[q] \notin children
      BY <1>2 DEF CloseInv, HungAt
    <3>2. \A q \in hung' : Stuck(q)'
      BY <1>1 DEF CloseInv, HungAt, Stuck
    <3>3. \A q \in hung' : q \in moved' \/ (mounts'[q] \notin children' /\ mounts'[q] # child')
      BY <1>1, <2>1, <3>1
    <3>. QED  BY <2>1, <3>2, <3>3 DEF HungAt, UmountPCs, OpenPCs
  <2>5. Staged'
    BY <2>1 DEF Staged, UmountPCs, OpenPCs
  <2>. QED  BY <2>1, <2>3, <2>4, <2>5 DEF CloseInv, Detaching, Verified
<1>. QED  BY <1>3, <1>4

\* The looks before the disk is detached, and the detaching.
LEMMA CloseInvRescue ==
  ASSUME TypeOK, CloseInv, Rescue \/ FirstLook \/ LookForMounts \/ LookForMappers \/ Recheck \/ Detach
  PROVE  CloseInv'
<1>0. hung \subseteq Mountpoints /\ Mountpoints \cap MapperNames = {}
  BY Names DEF TypeOK, MountTableTypeOK
<1>1. /\ pc \in {"c_rescue", "r_first", "r_look", "r_mappers", "r_recheck", "r_detach"}
      /\ pc' \in {"r_first", "r_look", "r_mappers", "r_recheck", "r_detach", "r_rescan"}
  BY DEF Rescue, FirstLook, LookForMounts, LookForMappers, Recheck, Detach, Probe, To
<1>2. UNCHANGED <<mapper, mounts, stalled, hung, disk, stage, child, children>>
  BY DEF Rescue, FirstLook, LookForMounts, LookForMappers, Recheck, Detach, Probe, kernel, closeLocals
<1>3. children = {}
  BY <1>1 DEF CloseInv, Staged, UmountPCs
<1>4. HungAt'
  <2>1. \A q \in hung' : Stuck(q)'
    BY <1>2 DEF CloseInv, HungAt, Stuck
  <2>2. stage # "child" => \A q \in hung : q \in moved' \/ pc' \in {"r_detach", "r_rescan"}
    <3>1. CASE Recheck \/ Detach
      BY <3>1 DEF Recheck, Detach, Probe, To
    <3>2. CASE Rescue \/ FirstLook \/ LookForMounts \/ LookForMappers
      <4>1. stage # "child" => \A q \in hung : q \in moved
        BY <3>2, HungKnown DEF CloseInv, Rescue, FirstLook, LookForMounts, LookForMappers, Probe
      <4>2. moved \ MapperNames \subseteq moved'
        BY <3>2 DEF Rescue, FirstLook, LookForMounts, LookForMappers
      <4>. QED  BY <1>0, <4>1, <4>2
    <3>. QED  BY <3>1, <3>2
  <2>3. Pending' = {} /\ pc' \notin UmountPCs \cup {"c_next", "c_wait", "idle"} \cup OpenPCs
    BY <1>1 DEF Pending, UmountPCs, OpenPCs
  <2>. QED  BY <1>1, <1>2, <1>3, <2>1, <2>2, <2>3 DEF HungAt
<1>5. Detaching'
  <2>1. CASE pc' \notin {"r_recheck", "r_detach"}
    BY <2>1 DEF Detaching
  <2>2. CASE LookForMappers
    <3>1. blind' \/ MappersOn(disk) = {}
      BY <2>2 DEF LookForMappers, MapperProbe
    <3>2. pc' = "r_recheck"
      BY <2>2 DEF LookForMappers, Probe, To
    <3>3. MappersOn(disk)' = MappersOn(disk)
      BY <1>2 DEF MappersOn
    <3>. QED  BY <3>1, <3>2, <3>3 DEF Detaching
  <2>3. CASE Recheck
    <3>1. MountsOn(disk)' = {} /\ MappersOn(disk)' = MappersOn(disk)
      BY <1>2, <2>3 DEF Recheck, IdleAgain, MountsOn, MappersOn
    <3>2. pc = "r_recheck" /\ blind' = blind /\ moved' = moved \ Mountpoints
      BY <2>3 DEF Recheck, Probe
    <3>3. MappersOn(disk) \subseteq MapperNames
      BY DEF MappersOn
    <3>. QED  BY <1>0, <3>1, <3>2, <3>3 DEF CloseInv, Detaching
  <2>4. CASE Rescue \/ FirstLook \/ LookForMounts \/ Detach
    BY <2>1, <2>4 DEF Rescue, FirstLook, LookForMounts, Detach, Probe, To
  <2>. QED  BY <2>2, <2>3, <2>4
<1>. QED
  BY <1>1, <1>2, <1>3, <1>4, <1>5 DEF CloseInv, CloseListed, ChildListed, Staged, Verified, Pending,
     UmountPCs, OpenPCs

\* Every step of close keeps its invariant.
LEMMA CloseInvCloser ==
  ASSUME TypeOK, CloseInv, Closer
  PROVE  CloseInv'
<1>1. CASE EndClose
  BY <1>1, CloseInvEnd
<1>2. CASE NotLocked \/ NoRescue \/ Rescan
  BY <1>2, CloseInvEnd DEF NotLocked, NoRescue, Rescan
<1>3. CASE UmountHangs \/ UmountBusy \/ UmountError \/ Expired
  <2>1. pc \in UmountPCs /\ UNCHANGED keeps
    BY <1>3 DEF UmountHangs, UmountBusy, UmountError, Expired, UmountPCs
  <2>2. Expired => GiveUp
    BY DEF Expired
  <2>. QED  BY <1>3, <2>1, <2>2, CloseInvGiveUp, CloseInvWait
<1>. QED
  BY <1>1, <1>2, <1>3, CloseInvBegin, CloseInvWork, CloseInvRetry, CloseInvMappers, CloseInvNextChild,
     CloseInvRescue, CloseSteps
  DEF Closer, CloseLooks, CloseWaits, CloseEnds, CloseActs, Lists

\* Every step keeps the invariant of close.
LEMMA CloseInvStep ==
  ASSUME TypeOK, CloseInv, [Next]_vars
  PROVE  CloseInv'
<1>1. CASE UNCHANGED vars
  BY <1>1 DEF vars, shared, kernel, closeLocals, CloseInv, CloseListed, ChildListed, Staged, HungAt,
     Detaching, Verified, Pending, Stuck, MountsOn, MappersOn
<1>. QED  BY <1>1, CloseInvOpener, CloseInvCloser, CloseInvOthers DEF Next

\* The invariant of close holds at all times.
THEOREM CloseInvariant == Spec => []CloseInv
<1>1. Init => CloseInv
  BY DEF Init, MountTableInit, ClosingInit, CloseInv, CloseListed, ChildListed, Staged, HungAt, Verified,
     Detaching, Pending, UmountPCs
<1>. QED  BY <1>1, TypeCorrect, CloseInvStep, PTL DEF Spec

-----------------------------------------------------------------------------
(***************************************************************************)
(* What no step does.                                                      *)
(***************************************************************************)
\* The steps of a command that take a mount away.
LEMMA OpenUnmounts ==
  ASSUME TypeOK, OpenInv, Opener, NEW q \in Mountpoints, mounts[q] = Stick, mounts'[q] # Stick
  PROVE  q \in moved'
<1>0. /\ Name # Stick /\ NoMount # Stick /\ target # Stick
      /\ todo \subseteq Mountpoints /\ spot \in Mountpoints
      /\ mounts \in [Mountpoints -> Sources \cup {NoMount}]
  BY Names DEF TypeOK, MountTableTypeOK, OpeningTypeOK
<1>1. CASE RecycleUnmount \/ UnmountListed
  <2>1. PICK r \in todo : mounts' = Without(r) /\ moved' = moved
    BY <1>1 DEF RecycleUnmount, UnmountListed
  <2>2. q = r
    BY <1>0, <2>1, WithoutType
  <2>3. mounts[r] \in {Name, target} \/ r \in moved
    BY <1>1 DEF RecycleUnmount, UnmountListed, OpenInv, OwnListed
  <2>. QED  BY <1>0, <2>1, <2>2, <2>3
<1>2. CASE Clear
  <2>1. mounts' = Without(spot) /\ moved' = moved /\ (mounts[spot] # Stick \/ spot \in moved)
    BY <1>2 DEF Clear, OpenInv, OwnListed
  <2>. QED  BY <1>0, <2>1, WithoutType
<1>3. CASE MountDevice
  BY <1>0, <1>3 DEF MountDevice
<1>4. CASE OpenStart \/ OpenEnds \/ OpenLooks \/ Recycle \/ Unlock
  BY <1>4, OpenEndingState, OpenLooking DEF Recycle, Unlock
<1>. QED  BY <1>1, <1>2, <1>3, <1>4, OpenSteps DEF Opener, OpenActs

\* The steps of close that change mounts, kill, or count a retry.
LEMMA CloseChanges ==
  ASSUME TypeOK, Closer
  PROVE  /\ mounts' = mounts \/ ((Umount \/ RetryUmount) /\ mounts' \in {mounts, Without(at)})
         /\ proc' = proc \/ Kill
         /\ tries' \in {tries, 0} \/ RetryUmount
<1>1. CASE EndClose /\ UNCHANGED keeps
  BY <1>1 DEF EndClose, CloseReset, keeps
<1>2. CASE NotLocked \/ NoRescue \/ (Remaining /\ EndClose)
  BY <1>1, <1>2 DEF NotLocked, NoRescue, Remaining, kernel, keeps, EndClose, CloseReset
<1>3. CASE Rescan
  BY <1>3 DEF Rescan, EndClose, CloseReset
<1>4. CASE CloseWaits
  <2>1. UNCHANGED keeps
    BY <1>4, CloseWaiting
  <2>2. tries' \in {tries, 0}
    BY <1>4 DEF CloseWaits, UmountHangs, UmountBusy, UmountError, Expired, GiveUp, AwaitKernel, EndClose,
       CloseReset, closeLocals
  <2>. QED  BY <2>1, <2>2 DEF keeps
<1>5. CASE CloseLooks
  <2>1. tries' \in {tries, 0}
    <3>1. CASE Lists
      BY <3>1, Listing
    <3>2. CASE CloseByName \/ CloseById \/ NextMount \/ ListHolders \/ ReadStart \/ Verify \/ Flush \/ Released
      BY <3>2 DEF CloseByName, CloseById, NextMount, ListHolders, ReadStart, Verify, Flush, Released, closeLocals
    <3>3. CASE ListChildren \/ NextChild \/ Rescue \/ FirstLook \/ LookForMounts \/ LookForMappers
               \/ Recheck
      BY <3>3 DEF ListChildren, NextChild, Rescue, FirstLook, LookForMounts, LookForMappers, Recheck, Probe
    <3>. QED  BY <1>5, <3>1, <3>2, <3>3 DEF CloseLooks, Lists
  <2>. QED  BY <1>5, <2>1, CloseLooking
<1>6. CASE Remaining /\ ~EndClose
  BY <1>6 DEF Remaining, kernel
<1>7. CASE Kill \/ Umount \/ RetryUmount \/ LockChild \/ Lock \/ Detach
  BY <1>7 DEF Kill, Umount, RetryUmount, LockChild, Lock, Detach, closeLocals
<1>. QED
  BY <1>2, <1>3, <1>4, <1>5, <1>6, <1>7, CloseSteps DEF Closer, CloseEnds, CloseActs

(* Of what is not its own, a command unmounts only what it finds at the    *)
(* usual mountpoint (close) and what came there after it had looked.       *)
THEOREM KeepsForeignMounts == Spec => ForeignMountsKept
<1>1. ASSUME TypeOK, OpenInv, CloseInv, [Next]_vars, NEW q \in Mountpoints, pc \in OpenPCs \cup ClosePCs,
             mounts[q] = Stick, mounts'[q] # Stick
      PROVE  q \in moved' \/ (pc \in ClosePCs /\ q = Home)
  <2>1. CASE Opener
    BY <1>1, <2>1, OpenUnmounts
  <2>2. CASE Closer
    <3>1. /\ Umount \/ RetryUmount
          /\ mounts' = Without(at)
      BY <1>1, <2>2, CloseChanges
    <3>2. at \in Mountpoints /\ moved' = moved
      BY <1>1, <3>1 DEF Umount, RetryUmount, TypeOK, MountTableTypeOK
    <3>3. q = at
      BY <1>1, <3>1, <3>2, WithoutType
    <3>4. pc \in UmountPCs /\ pc \in ClosePCs /\ at \in Pending
      BY <3>1 DEF Umount, RetryUmount, UmountPCs, ClosePCs, Pending
    <3>. QED  BY <1>1, <3>2, <3>3, <3>4 DEF CloseInv, CloseListed
  <2>3. CASE Others
    <3>1. pc # "idle"
      BY <1>1 DEF OpenPCs, ClosePCs
    <3>. QED  BY <1>1, <2>3, <3>1, OthersMark
  <2>4. CASE UNCHANGED vars
    BY <1>1, <2>4 DEF vars, shared, kernel
  <2>. QED  BY <1>1, <2>1, <2>2, <2>3, <2>4 DEF Next
<1>2. TypeOK /\ OpenInv /\ CloseInv /\ [Next]_vars =>
        [\A q \in Mountpoints :
           (pc \in OpenPCs \cup ClosePCs) /\ mounts[q] = Stick /\ mounts'[q] # Stick =>
             \/ q \in moved'
             \/ pc \in ClosePCs /\ q = Home]_vars
  BY <1>1
<1>. QED  BY <1>2, TypeCorrect, OpenInvariant, CloseInvariant, PTL DEF Spec, ForeignMountsKept

(* close retries no umount beside one of its own that has not come back,   *)
(* but for a child mapper whose mountpoint others have taken meanwhile.    *)
THEOREM RetriesAlone == Spec => NoOverlappingUmount
<1>1. ASSUME TypeOK, CloseInv, [Next]_vars, tries' > tries, at \in hung
      PROVE  stage = "child" /\ at \in moved
  <2>1. tries \in Nat
    BY <1>1, Names DEF TypeOK, ClosingTypeOK
  <2>2. tries' \notin {tries, 0}
    BY <1>1, <2>1
  <2>3. CASE RetryUmount
    BY <1>1, <2>3, RetrySafe DEF RetryUmount
  <2>4. CASE ~RetryUmount
    <3>1. CASE Closer
      BY <1>1, <2>2, <2>4, <3>1, CloseChanges
    <3>2. CASE UNCHANGED closeLocals
      BY <2>2, <3>2 DEF closeLocals
    <3>. QED  BY <1>1, <3>1, <3>2 DEF Next, Opener, vars
  <2>. QED  BY <2>3, <2>4
<1>2. TypeOK /\ CloseInv /\ [Next]_vars =>
        [tries' > tries /\ at \in hung => stage = "child" /\ at \in moved]_vars
  BY <1>1
<1>. QED  BY <1>2, TypeCorrect, CloseInvariant, PTL DEF Spec, NoOverlappingUmount

(* --force kills the process that was found using the mount, unless its    *)
(* ID has changed hands before its start time was first read, or after it  *)
(* was read again.                                                         *)
THEOREM KillsOnlyHolder == Spec => KillsHolder
<1>1. CloseInv => [pc = "c_kill" /\ proc' # proc /\ pc' = "c_flush" /\ start = victim
                     /\ "pid" \notin moved => proc.id = victim]_vars
  BY DEF CloseInv, Verified
<1>. QED  BY <1>1, CloseInvariant, PTL DEF KillsHolder

(* close detaches a disk only when nothing of it is mounted or unlocked,   *)
(* but for what has been since its last look, or what lsblk did not tell   *)
(* in time.                                                                *)
THEOREM DetachesIdleDisk == Spec => DetachesIdle
<1>1. CloseInv =>
        [pc = "r_detach" /\ node' # node /\ pc' = "r_rescan" =>
           /\ MountsOn(disk) \subseteq moved
           /\ blind \/ MappersOn(disk) \subseteq moved]_vars
  BY DEF CloseInv, Detaching
<1>. QED  BY <1>1, CloseInvariant, PTL DEF DetachesIdle
=============================================================================
