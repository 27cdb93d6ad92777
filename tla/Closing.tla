------------------------------- MODULE Closing -------------------------------
(***************************************************************************)
(* close <name> and close #N, with or without --force: unmount what is     *)
(* mounted from the mapper, or else from the disk, or else at the usual    *)
(* mountpoint; close the LUKS mappers; and with --force, after the kernel  *)
(* got stuck, detach the disk and have the bus scanned again.  Every umount *)
(* may fail or hang: the command waits for the kernel and retries, but     *)
(* never beside a umount that has not come back.                           *)
(***************************************************************************)
EXTENDS MountTable

CONSTANT MaxTries   \* how often umount is retried within the 30 seconds

ASSUME MaxTriesAssumption == MaxTries \in Nat

VARIABLES
    force,     \* --force
    byId,      \* the place of an ID without a mapping, or NoPlace
    disk,      \* the node of the whole disk to detach, or Absent
    stage,     \* where todo comes from
    slow,      \* mountpoints whose flush has timed out
    blocked,   \* a flush has timed out or the kernel has been waited for
    retry,     \* umount may be retried
    tries,     \* how often it has been
    children,  \* mappers on the disk that are still to be closed
    child,     \* the one at work on
    victim,    \* the process listed as the holder of a mount
    start,     \* the process whose start time was read
    blind      \* lsblk has not answered when asked for mappers

NoPlace == "none"

closeLocals == <<force, byId, disk, stage, slow, blocked, retry, tries, children,
                 child, victim, start, blind>>

ClosePCs == {"c_mapper", "c_source", "c_guess", "c_next", "c_holders", "c_pid",
             "c_verify", "c_kill", "c_flush", "c_umount", "c_wait", "c_children", "c_child",
             "c_lock_child", "c_lock", "c_remaining", "c_rescue", "r_first", "r_look",
             "r_mappers", "r_recheck", "r_detach", "r_rescan"}

Stages == {"mapper", "source", "guess", "child", "id"}

ClosingTypeOK ==
    /\ force \in BOOLEAN /\ blocked \in BOOLEAN /\ retry \in BOOLEAN /\ blind \in BOOLEAN
    /\ byId \in Places \cup {NoPlace}
    /\ disk \in Nodes \cup {Absent}
    /\ stage \in Stages
    /\ slow \subseteq Mountpoints
    /\ tries \in 0 .. MaxTries
    /\ children \subseteq MapperNames /\ child \in MapperNames
    /\ victim \in 0 .. MaxEvents /\ start \in 0 .. MaxEvents

ClosingInit ==
    /\ force = FALSE /\ byId = NoPlace /\ disk = Absent /\ stage = "mapper"
    /\ slow = {} /\ blocked = FALSE /\ retry = FALSE /\ tries = 0
    /\ children = {} /\ child = Name /\ victim = 0 /\ start = 0 /\ blind = FALSE

CloseReset ==
    /\ force' = FALSE /\ byId' = NoPlace /\ disk' = Absent /\ stage' = "mapper"
    /\ slow' = {} /\ blocked' = FALSE /\ retry' = FALSE /\ tries' = 0
    /\ children' = {} /\ child' = Name /\ victim' = 0 /\ start' = 0 /\ blind' = FALSE

EndClose ==
    /\ CloseReset
    /\ pc' = "idle" /\ at' = Home /\ todo' = {} /\ moved' = {} /\ hung' = {}

keeps == <<layout, node, mapper, mounts, proc, stalled, events>>

To(next) == pc' = next

ByName == byId = NoPlace

\* The place that the command is about.
Here == IF ByName THEN layout.mapped ELSE byId

\* The mapping is resolved once for the detaching at the end, if it is a disk.
CloseByName ==
    /\ pc = "idle"
    /\ force' \in BOOLEAN
    /\ disk' = IF layout.mapped = Whole THEN node ELSE Absent
    /\ To("c_mapper")
    /\ UNCHANGED <<kernel, events, at, todo, moved, byId, stage, slow, blocked, retry,
                   tries, children, child, victim, start, blind>>

\* An ID without a mapping: everything mounted from it is to go.
CloseById ==
    /\ pc = "idle" /\ Plugged
    /\ force' \in BOOLEAN
    /\ byId' \in Places \ {layout.mapped}
    /\ disk' = IF byId' = Whole THEN node ELSE Absent
    /\ stage' = "id"
    /\ todo' = TargetsOfDisk(byId')
    /\ moved' = {}
    /\ To("c_next")
    /\ UNCHANGED <<kernel, events, at, slow, blocked, retry, tries, children, child,
                   victim, start, blind>>

CloseStart == CloseByName \/ CloseById

-----------------------------------------------------------------------------
\* What to unmount: of three sources, the first that has anything.
List(found, where, otherwise) ==
    /\ todo' = found
    /\ stage' = IF found = {} THEN stage ELSE where
    /\ moved' = moved \ Mountpoints
    /\ To(IF found = {} THEN otherwise ELSE "c_next")
    /\ UNCHANGED <<kernel, events, at, force, byId, disk, slow, blocked, retry, tries,
                   children, child, victim, start, blind>>

ListMapper == pc = "c_mapper" /\ List(Targets(Name), "mapper", "c_source")

ListSource ==
    /\ pc = "c_source"
    /\ List(IF Plugged THEN TargetsOfDisk(layout.mapped) ELSE {}, "source", "c_guess")

ListGuess ==
    /\ pc = "c_guess"
    /\ List(IF mounts[Home] = NoMount THEN {} ELSE {Home}, "guess", "c_children")

-----------------------------------------------------------------------------
(***************************************************************************)
(* _try_unmount.                                                           *)
(***************************************************************************)
\* _mount_is_active: findmnt for at most 2 seconds; no answer counts as none.
SeemsFree(q) == mounts[q] = NoMount \/ Stuck(q)

\* The next mountpoint, or what comes after the last.
NextMount ==
    /\ pc = "c_next"
    /\ \/ \E q \in todo :
            /\ at' = q
            /\ todo' = todo \ {q}
            /\ \/ SeemsFree(q) /\ To("c_next")
               \/ mounts[q] # NoMount /\ To("c_holders")
       \/ /\ todo = {} /\ UNCHANGED <<at, todo>>
          /\ To(IF stage = "child" THEN "c_lock_child" ELSE "c_children")
    /\ retry' = FALSE /\ tries' = 0
    /\ UNCHANGED <<kernel, events, moved, force, byId, disk, stage, slow, blocked,
                   children, child, victim, start, blind>>

\* fuser lists the processes; without --force they are only shown.
ListHolders ==
    /\ pc = "c_holders"
    /\ victim' = IF force /\ Held(at) THEN proc.id ELSE 0
    /\ To(IF force /\ Held(at) THEN "c_pid" ELSE "c_flush")
    /\ UNCHANGED <<kernel, events, at, todo, moved, force, byId, disk, stage, slow, blocked,
                   retry, tries, children, child, start, blind>>

\* The start time of whoever has the process ID now; nobody, no kill.
ReadStart ==
    /\ pc = "c_pid"
    /\ start' = proc.id
    /\ To(IF proc = NoProc THEN "c_flush" ELSE "c_verify")
    /\ UNCHANGED <<kernel, events, at, todo, moved, force, byId, disk, stage, slow, blocked,
                   retry, tries, children, child, victim, blind>>

\* Mutant: the process ID is killed whoever has it.
Anyone == TRUE

\* The start time is read again, before kill is run with the privilege for it.
StillThere == proc.id = start

Verify ==
    /\ pc = "c_verify"
    /\ To(IF StillThere THEN "c_kill" ELSE "c_flush")
    /\ moved' = moved \ {"pid"}
    /\ UNCHANGED <<kernel, events, at, todo, closeLocals>>

\* kill -9: whoever has the process ID by then.
Kill ==
    /\ pc = "c_kill"
    /\ proc' = NoProc
    /\ victim' = 0 /\ start' = 0
    /\ To("c_flush")
    /\ UNCHANGED <<layout, node, mapper, mounts, stalled, hung, events, at, todo, moved,
                   force, byId, disk, stage, slow, blocked, retry, tries, children, child, blind>>

\* _flush_mount: it times out if the disk is stuck.
Flush ==
    /\ pc = "c_flush"
    /\ slow' = IF Stuck(at) THEN slow \cup {at} ELSE slow
    /\ blocked' = (blocked \/ Stuck(at))
    /\ To("c_umount")
    /\ UNCHANGED <<kernel, events, at, todo, moved, force, byId, disk, stage, retry, tries,
                   children, child, victim, start, blind>>

Umount ==
    /\ pc = "c_umount" /\ CanUmount(at)
    /\ mounts' = Without(at)
    /\ To("c_next")
    /\ UNCHANGED <<layout, node, mapper, proc, stalled, hung, events, at, todo, moved, closeLocals>>

\* Mutant: umount is retried beside one that hangs.
RetryAfterHang(hangs) == TRUE

\* The umount has not come back: it may still be at work.
RetryAfter(hangs) == ~hangs

\* busy or timed out, with no process to blame: the kernel is waited for.
AwaitKernel(hangs) ==
    /\ blocked' = TRUE
    /\ retry' = RetryAfter(hangs)
    /\ To("c_wait")
    /\ UNCHANGED <<at, todo, moved, force, byId, disk, stage, slow, tries, children, child,
                   victim, start, blind>>

\* Close aborted; or this child mapper stays open.
GiveUp ==
    \/ stage # "child" /\ EndClose
    \/ /\ stage = "child"
       /\ To("c_child") /\ todo' = {}
       /\ UNCHANGED <<at, moved, hung, closeLocals>>

UmountHangs ==
    /\ pc = "c_umount" /\ Stuck(at)
    /\ \/ Held(at) /\ GiveUp
       \/ ~Held(at) /\ AwaitKernel(TRUE) /\ hung' = hung \cup {at}
    /\ UNCHANGED keeps

UmountBusy ==
    /\ pc = "c_umount" /\ UmountFails(at)
    /\ \/ Held(at) /\ GiveUp
       \/ ~Held(at) /\ AwaitKernel(FALSE) /\ UNCHANGED hung
    /\ UNCHANGED keeps

\* Any other error, after which only a slow flush is a reason to wait.
UmountError ==
    /\ pc = "c_umount"
    /\ \/ (Held(at) \/ at \notin slow) /\ GiveUp
       \/ ~Held(at) /\ at \in slow /\ AwaitKernel(FALSE) /\ UNCHANGED hung
    /\ UNCHANGED keeps

\* _wait_for_kernel_release: the mount is gone, or findmnt gives no answer.
Released ==
    /\ pc = "c_wait" /\ SeemsFree(at)
    /\ moved' = IF mounts[at] = NoMount THEN moved ELSE moved \cup {at}
    /\ To("c_next")
    /\ UNCHANGED <<kernel, events, at, todo, closeLocals>>

RetryUmount ==
    /\ pc = "c_wait" /\ mounts[at] # NoMount
    /\ retry /\ tries < MaxTries
    /\ tries' = tries + 1
    /\ mounts' = IF CanUmount(at) THEN Without(at) ELSE mounts
    /\ hung' = IF Stuck(at) THEN hung \cup {at} ELSE hung
    /\ retry' = RetryAfter(Stuck(at))
    /\ UNCHANGED <<layout, node, mapper, proc, stalled, events, pc, at, todo, moved, force, byId,
                   disk, stage, slow, blocked, children, child, victim, start, blind>>

\* Mutant: the wait has no end.
WaitForEver == FALSE

Expired ==
    /\ pc = "c_wait" /\ mounts[at] # NoMount
    /\ GiveUp
    /\ UNCHANGED keeps

-----------------------------------------------------------------------------
(***************************************************************************)
(* The mappers.                                                            *)
(***************************************************************************)
\* lsblk for at most 3 seconds; no answer counts as no mappers.
MapperProbe(n, found) ==
    \/ found = MappersOn(n) /\ UNCHANGED blind
    \/ stalled /\ found = {} /\ blind' = TRUE

\* All mappers on the disk, but for the one that is closed last.
ListChildren ==
    /\ pc = "c_children"
    /\ \/ /\ Here = Whole /\ Plugged
          /\ \E ms \in SUBSET MapperNames :
               /\ MapperProbe(node, ms)
               /\ children' = IF ByName THEN ms \ {Name} ELSE ms
          /\ To("c_child")
       \/ /\ Here # Whole \/ ~Plugged
          /\ UNCHANGED <<children, blind>>
          /\ To(IF ByName THEN "c_lock" ELSE "c_remaining")
    /\ UNCHANGED <<kernel, events, at, todo, moved, force, byId, disk, stage, slow, blocked, retry,
                   tries, child, victim, start>>

NextChild ==
    /\ pc = "c_child"
    /\ \/ \E m \in children :
            /\ child' = m /\ children' = children \ {m}
            /\ stage' = "child"
            /\ todo' = Targets(m)
            /\ moved' = moved \ (Mountpoints \ hung)
            /\ To("c_next")
       \/ /\ children = {}
          /\ UNCHANGED <<child, children, stage, todo, moved>>
          /\ To(IF ByName THEN "c_lock" ELSE "c_remaining")
    /\ UNCHANGED <<kernel, events, at, force, byId, disk, slow, blocked, retry, tries,
                   victim, start, blind>>

\* A mapper that cannot be closed stays.
LockChild ==
    /\ pc = "c_lock_child"
    /\ \/ CanCloseMapper(child) /\ mapper' = [mapper EXCEPT ![child] = Closed]
       \/ UNCHANGED mapper
    /\ To("c_child")
    /\ UNCHANGED <<layout, node, mounts, proc, stalled, hung, events, at, todo, moved, closeLocals>>

\* Of an ID, no mapper may remain (as far as lsblk says).
Remaining ==
    /\ pc = "c_remaining"
    /\ \/ disk = Absent /\ EndClose /\ UNCHANGED keeps
       \/ /\ disk # Absent
          /\ \E ms \in SUBSET MapperNames : MapperProbe(disk, ms) /\ ms = {}
          /\ To("c_rescue")
          /\ UNCHANGED <<kernel, events, at, todo, moved, force, byId, disk, stage, slow, blocked,
                         retry, tries, children, child, victim, start>>
       \/ disk # Absent /\ MappersOn(disk) # {} /\ EndClose /\ UNCHANGED keeps

\* The mapper of the name, if there is one.
Lock ==
    /\ pc = "c_lock"
    /\ \/ mapper[Name] = Closed /\ UNCHANGED mapper
       \/ CanCloseMapper(Name) /\ mapper' = [mapper EXCEPT ![Name] = Closed]
    /\ To("c_rescue")
    /\ UNCHANGED <<layout, node, mounts, proc, stalled, hung, events, at, todo, moved, closeLocals>>

NotLocked == pc = "c_lock" /\ mapper[Name] # Closed /\ EndClose /\ UNCHANGED keeps

-----------------------------------------------------------------------------
(***************************************************************************)
(* Detaching a disk whose filesystem has been stuck, and rescanning.  Each *)
(* probe is one step: the rest of the machine goes on between them.        *)
(***************************************************************************)
MountsOn(n) == {q \in Mountpoints : mounts[q] \in Devices /\ mounts[q].node = n}

\* A probe of what is in use on the disk lets the command go on.
Probe(step, next) ==
    /\ pc = step
    /\ To(next)
    /\ UNCHANGED <<kernel, events, at, todo, force, byId, disk, stage, slow, blocked,
                   retry, tries, children, child, victim, start>>

\* By name, mappers and mounts are probed once more than for an ID.
Rescue ==
    /\ force /\ blocked /\ disk # Absent
    /\ \/ ByName /\ Probe("c_rescue", "r_first") /\ MapperProbe(disk, {})
       \/ ~ByName /\ Probe("c_rescue", "r_look") /\ UNCHANGED blind
    /\ moved' = moved \ MapperNames

FirstLook == Probe("r_first", "r_look") /\ MountsOn(disk) = {} /\ UNCHANGED <<moved, blind>>

LookForMounts == Probe("r_look", "r_mappers") /\ MountsOn(disk) = {} /\ UNCHANGED <<moved, blind>>

LookForMappers ==
    /\ Probe("r_mappers", "r_recheck")
    /\ MapperProbe(disk, {})
    /\ moved' = moved \ MapperNames

\* Mutant: no second look.
IdleBlindly == TRUE

IdleAgain == MountsOn(disk) = {}

Recheck ==
    /\ Probe("r_recheck", "r_detach")
    /\ IdleAgain
    /\ moved' = moved \ Mountpoints
    /\ UNCHANGED blind

\* tee 1 into .../device/delete.
Detach ==
    /\ pc = "r_detach" /\ node = disk
    /\ node' = Absent
    /\ To("r_rescan")
    /\ UNCHANGED <<layout, mapper, mounts, proc, stalled, hung, events, at, todo, moved, closeLocals>>

\* Something is in use, the disk is gone, or the detaching fails.
NoRescue ==
    /\ pc \in {"c_rescue", "r_first", "r_look", "r_mappers", "r_recheck", "r_detach"}
    /\ \/ pc # "c_rescue" \/ ~force \/ ~blocked \/ disk = Absent
       \/ MappersOn(disk) # {}
    /\ EndClose
    /\ UNCHANGED keeps

\* The bus is rescanned: the disk comes back, or does not.
Rescan ==
    /\ pc = "r_rescan"
    /\ node' \in IF Plugged THEN {node} ELSE FreeNodes \cup {Absent}
    /\ EndClose
    /\ UNCHANGED <<layout, mapper, mounts, proc, stalled, events>>

UnmountStep ==
    \/ NextMount \/ ListHolders \/ ReadStart \/ Verify \/ Kill \/ Flush
    \/ Umount \/ UmountHangs \/ UmountBusy \/ UmountError
    \/ Released \/ RetryUmount \/ Expired

CloseStep ==
    \/ ListMapper \/ ListSource \/ ListGuess \/ UnmountStep
    \/ ListChildren \/ NextChild \/ LockChild \/ Remaining \/ Lock \/ NotLocked
    \/ Rescue \/ FirstLook \/ LookForMounts \/ LookForMappers \/ Recheck
    \/ Detach \/ NoRescue \/ Rescan
=============================================================================
