------------------------------ MODULE MapStore ------------------------------
(***************************************************************************)
(* The mapping file and the diskmgr processes that change it.  A command   *)
(* reads the map once (read_luks_map), decides what to do from that        *)
(* snapshot, and later changes the file (update_luks_map): under the lock, *)
(* read, apply the mutator, write and fsync a temporary file, replace the  *)
(* map file with it, fsync the directory.  The lock is a flock on a file   *)
(* in the HOME of the process, so it excludes processes of the same HOME.  *)
(***************************************************************************)
EXTENDS MapOps, Naturals, FiniteSets

CONSTANTS
    Procs,        \* diskmgr processes
    Homes,        \* home directories
    HomeOf,       \* process -> its Path.home()
    NoProc,       \* "nobody holds the lock"
    InitialMaps,  \* what diskmap.tsv may hold at the start
    MaxCommands   \* bound: commands started in a behaviour

ASSUME StoreConstants ==
    /\ HomeOf \in [Procs -> Homes]
    /\ NoProc \notin Procs \cup Commands
    /\ Names # {} /\ Links # {}
    /\ InitialMaps \subseteq Maps
    /\ MaxCommands \in Nat

VARIABLES
    file,      \* the map file: its mapping, and whether its data is on disk
    pending,   \* the map files a power loss may leave behind
    torn,      \* a power loss left a map file whose data was never synced
    present,   \* the devices plugged in
    lock,      \* home -> the process that holds its diskmap.lock
    pc,        \* process -> where it is
    after,     \* process -> where it goes once its write is finished
    cmd,       \* process -> its command
    snap,      \* process -> the mapping it decides from (self.mappings)
    base,      \* process -> the mapping it read under the lock
    new,       \* process -> the mapping it is writing
    temp,      \* process -> its temporary file: absent, written or fsynced
    started    \* commands started so far

vars == <<file, pending, torn, present, lock, pc, after, cmd, snap, base, new,
          temp, started>>

store == <<file, pending, torn>>
proc  == <<pc, after, cmd, snap, base, new, temp>>

PCs == {"idle", "read", "decide", "update", "write", "replace", "dirsync", "mount", "done"}

Files == [map : Maps, synced : BOOLEAN]

NoMap == [n \in Names |-> NoTarget]
NoCommand == [kind |-> "unmap", name |-> CHOOSE n \in Names : TRUE, old |-> NoName,
              target |-> CHOOSE t \in Links : TRUE, src |-> NoTarget, names |-> {}]

TypeOK ==
    /\ file \in Files
    /\ pending \subseteq Files /\ file \in pending
    /\ torn \in BOOLEAN
    /\ present \subseteq Devices
    /\ lock \in [Homes -> Procs \cup {NoProc}]
    /\ pc \in [Procs -> PCs]
    /\ after \in [Procs -> {"idle", "decide", "mount", "done"}]
    /\ cmd \in [Procs -> Commands]
    /\ snap \in [Procs -> Maps] /\ base \in [Procs -> Maps] /\ new \in [Procs -> Maps]
    /\ temp \in [Procs -> {"none", "written", "fsynced"}]
    /\ started \in Nat

Init ==
    /\ \E m \in InitialMaps : file = [map |-> m, synced |-> TRUE]
    /\ pending = {file}
    /\ torn = FALSE
    /\ present \in SUBSET Devices
    /\ lock = [h \in Homes |-> NoProc]
    /\ pc = [p \in Procs |-> "idle"]
    /\ after = [p \in Procs |-> "idle"]
    /\ cmd = [p \in Procs |-> NoCommand]
    /\ snap = [p \in Procs |-> NoMap]
    /\ base = [p \in Procs |-> NoMap]
    /\ new = [p \in Procs |-> NoMap]
    /\ temp = [p \in Procs |-> "none"]
    /\ started = 0

-----------------------------------------------------------------------------
(***************************************************************************)
(* How a process moves on.                                                 *)
(***************************************************************************)
\* Mutant: the lock is taken shared (LOCK_SH).
FreeShared(p) == TRUE

Free(p) == lock[HomeOf[p]] = NoProc

\* Mutant: the lock is not released.
StillLocked(p) == lock

Unlocked(p) == [lock EXCEPT ![HomeOf[p]] = NoProc]

\* The map file can be parsed: no record is torn and every raw one resolves.
Parses == ~torn /\ Readable(file.map, present)

\* The command of p is over ("done": it will report success); what it held in
\* memory is gone.
Finish(p, next) ==
    /\ pc' = [pc EXCEPT ![p] = next]
    /\ after' = [after EXCEPT ![p] = "idle"]
    /\ cmd' = [cmd EXCEPT ![p] = NoCommand]
    /\ snap' = [snap EXCEPT ![p] = NoMap]
    /\ base' = [base EXCEPT ![p] = NoMap]
    /\ new' = [new EXCEPT ![p] = NoMap]
    /\ temp' = [temp EXCEPT ![p] = "none"]

\* p holds the lock and is about to write m over the mapping it read.
BeginWrite(p, m, next) ==
    /\ lock' = [lock EXCEPT ![HomeOf[p]] = p]
    /\ base' = [base EXCEPT ![p] = file.map]
    /\ new' = [new EXCEPT ![p] = m]
    /\ pc' = [pc EXCEPT ![p] = "write"]
    /\ after' = [after EXCEPT ![p] = next]
    /\ UNCHANGED <<cmd, temp>>

\* p has worked out its mutator from the snapshot.
Proceed(p, c) ==
    /\ cmd' = [cmd EXCEPT ![p] = c]
    /\ pc' = [pc EXCEPT ![p] = "update"]
    /\ after' = [after EXCEPT ![p] = "idle"]
    /\ snap' = [snap EXCEPT ![p] = NoMap]
    /\ UNCHANGED <<base, new, temp>>

-----------------------------------------------------------------------------
\* What a user may type: names, and #N for a device the last list showed.
\* format has by then found the device of its argument and the name to use.
Typed ==
    {c \in Commands :
        /\ c.kind # "restore"
        /\ c.target = NoCommand.target /\ c.names = {}
        /\ c.src \in Devices \cup {NoTarget}
        /\ c.kind = "map" => (c.old = NoName <=> c.src # NoTarget)
        /\ c.kind # "map" => c.old = NoName
        /\ c.kind = "unmap" => c.src = NoTarget
        /\ c.kind = "unmapid" => c.src # NoTarget
        /\ c.kind = "format" => c.src # NoTarget
        /\ c.kind = "unmapid" \/ (c.kind = "normalise" /\ c.src # NoTarget)
              => c.name = NoCommand.name}

Start(p) ==
    /\ pc[p] = "idle" /\ started < MaxCommands
    /\ \E c \in Typed : cmd' = [cmd EXCEPT ![p] = c]
    /\ pc' = [pc EXCEPT ![p] = "read"]
    /\ started' = started + 1
    /\ UNCHANGED <<store, present, lock, after, snap, base, new, temp>>

\* read_luks_map: read under the lock; an old file is first written back.
ReadMap(p) ==
    /\ pc[p] = "read" /\ Free(p)
    /\ \/ /\ ~Parses
          /\ Finish(p, "idle")
          /\ UNCHANGED lock
       \/ /\ Parses /\ Migrate(file.map) = file.map
          /\ snap' = [snap EXCEPT ![p] = file.map]
          /\ pc' = [pc EXCEPT ![p] = "decide"]
          /\ UNCHANGED <<lock, after, cmd, base, new, temp>>
       \/ /\ Parses /\ Migrate(file.map) # file.map
          /\ BeginWrite(p, Migrate(file.map), "decide")
          /\ snap' = [snap EXCEPT ![p] = Migrate(file.map)]
    /\ UNCHANGED <<store, present, started>>

-----------------------------------------------------------------------------
(***************************************************************************)
(* From the snapshot to the mutator.                                       *)
(***************************************************************************)
Deciding(p, kind) == pc[p] = "decide" /\ cmd[p].kind = kind

Rest == <<store, present, lock, started>>

\* Mutant: the target is not validated.
DecideMapUnvalidated(p) ==
    /\ Deciding(p, "map")
    /\ cmd[p].old # NoName => Mapped(snap[p], cmd[p].old)
    /\ Proceed(p, [cmd[p] EXCEPT !.target = Normalised(IF cmd[p].old = NoName
                      THEN cmd[p].src ELSE snap[p][cmd[p].old], present)])
    /\ UNCHANGED Rest

\* do_map.  The target is the record of the old name or the device of the ID.
\* It is normalised, and must then be a by-id link.
DecideMap(p) ==
    /\ Deciding(p, "map")
    /\ cmd[p].old # NoName => Mapped(snap[p], cmd[p].old)
    /\ LET t == Normalised(IF cmd[p].old = NoName THEN cmd[p].src
                                                  ELSE snap[p][cmd[p].old], present)
       IN  \/ t \in Links /\ Proceed(p, [cmd[p] EXCEPT !.target = t])
           \/ t \notin Links /\ Finish(p, "idle")
    /\ UNCHANGED Rest

\* The typed name has no record: resolve_target reads the map once more, and a
\* record another process has added since makes this a new mapping.
DecideMapAgain(p) ==
    /\ Deciding(p, "map")
    /\ cmd[p].old # NoName /\ ~Mapped(snap[p], cmd[p].old)
    /\ Free(p)
    /\ LET m == Migrate(file.map)
           found == Parses /\ Mapped(m, cmd[p].old)
       IN  \/ /\ found
              /\ Proceed(p, [cmd[p] EXCEPT !.old = NoName,
                                           !.target = Normalised(m[cmd[p].old], present)])
           \/ ~found /\ Finish(p, "idle")
    /\ UNCHANGED Rest

\* do_unmap by name.
DecideUnmap(p) ==
    /\ Deciding(p, "unmap")
    /\ Mapped(snap[p], cmd[p].name)
    /\ Proceed(p, cmd[p])
    /\ UNCHANGED Rest

\* do_unmap by ID, from path t and mapping m: the records to remove are the
\* ones that lead where t leads.
RemoveTargets(p, t, m) ==
    LET r == Real(t, present)
        shown == NamesOf(m, r, present)
    IN  \/ /\ shown # {}
           /\ Proceed(p, [cmd[p] EXCEPT !.kind = "unmapid", !.src = r, !.names = shown])
        \/ shown = {} /\ Finish(p, "idle")

DecideUnmapId(p) ==
    /\ Deciding(p, "unmapid")
    /\ RemoveTargets(p, cmd[p].src, snap[p])
    /\ UNCHANGED Rest

\* A typed name without a record goes through resolve_target, which reads again.
DecideUnmapAgain(p) ==
    /\ Deciding(p, "unmap")
    /\ ~Mapped(snap[p], cmd[p].name)
    /\ Free(p)
    /\ LET m == Migrate(file.map)
           found == Parses /\ Mapped(m, cmd[p].name)
       IN  \/ found /\ RemoveTargets(p, m[cmd[p].name], m)
           \/ ~found /\ Finish(p, "idle")
    /\ UNCHANGED Rest

\* do_open: a path that is not the preferred link of its device is rewritten in
\* the record that names it.  By ID, the path is the device node and the record
\* is one that leads to it, if there is one.
DecideOpen(p) ==
    /\ Deciding(p, "normalise")
    /\ LET c == cmd[p]
           byName == c.src = NoTarget
           named == IF byName THEN {n \in {c.name} : Mapped(snap[p], n)}
                              ELSE NamesOf(snap[p], c.src, present)
           Src(n) == IF byName THEN snap[p][n] ELSE c.src
           stale == {n \in named : Normalised(Src(n), present) # Src(n)}
       IN  \/ \E n \in stale :
                 Proceed(p, [c EXCEPT !.name = n, !.src = Src(n),
                                      !.target = Normalised(Src(n), present)])
           \/ stale = {} /\ Finish(p, "idle")
    /\ UNCHANGED Rest

\* do_format: a name with a record must have it lead to the device, and keeps
\* it; a name without one gets the preferred link of the device.
DecideFormat(p) ==
    /\ Deciding(p, "format")
    /\ LET record == snap[p][cmd[p].name]
           dev == cmd[p].src
           link == IF record = NoTarget THEN Preferred[dev] ELSE record
           legal == dev \in present /\ (record # NoTarget => Real(record, present) = dev)
       IN  \/ legal /\ Proceed(p, [cmd[p] EXCEPT !.target = link])
           \/ ~legal /\ Finish(p, "idle")
    /\ UNCHANGED Rest

Decide(p) ==
    \/ DecideMap(p) \/ DecideMapAgain(p)
    \/ DecideUnmap(p) \/ DecideUnmapId(p) \/ DecideUnmapAgain(p)
    \/ DecideOpen(p) \/ DecideFormat(p)

-----------------------------------------------------------------------------
(***************************************************************************)
(* update_luks_map and _write_map_unlocked.                                *)
(***************************************************************************)
\* Where a command goes once its write is finished.
Onward(c) == IF c.kind = "format" THEN "mount"
             ELSE IF c.kind = "restore" THEN "idle" ELSE "done"

\* Mutant: a failed format puts the whole map back, not its record.
LockAndMutateRestoringAll(p) ==
    /\ pc[p] = "update" /\ Free(p)
    /\ LET m == Migrate(file.map)
           c == cmd[p]
           n == IF c.kind = "restore" THEN base[p] ELSE Apply(c, m, present)
       IN  IF Parses /\ Accepts(c, m, present)
           THEN BeginWrite(p, n, Onward(c)) /\ UNCHANGED snap
           ELSE Finish(p, "idle") /\ UNCHANGED lock
    /\ UNCHANGED <<store, present, started>>

\* Under the lock: read the map and apply the mutator, or report its error.
LockAndMutate(p) ==
    /\ pc[p] = "update" /\ Free(p)
    /\ LET m == Migrate(file.map)
           c == cmd[p]
           legal == Parses /\ Accepts(c, m, present)
       IN  \/ legal /\ BeginWrite(p, Apply(c, m, present), Onward(c)) /\ UNCHANGED snap
           \/ ~legal /\ Finish(p, "idle") /\ UNCHANGED lock
    /\ UNCHANGED <<store, present, started>>

\* Mutant: the temporary file is not fsynced.
WriteTempUnsynced(p) ==
    /\ pc[p] = "write"
    /\ temp' = [temp EXCEPT ![p] = "written"]
    /\ pc' = [pc EXCEPT ![p] = "replace"]
    /\ UNCHANGED <<store, present, lock, started, after, cmd, snap, base, new>>

\* Write the temporary file and fsync it.
WriteTemp(p) ==
    /\ pc[p] = "write"
    /\ temp' = [temp EXCEPT ![p] = "fsynced"]
    /\ pc' = [pc EXCEPT ![p] = "replace"]
    /\ UNCHANGED <<store, present, lock, started, after, cmd, snap, base, new>>

\* Writing, fsync or replace fails, or the user interrupts: the temporary file
\* is unlinked, the lock released, and the map file is as it was.
WriteFails(p) ==
    /\ pc[p] \in {"write", "replace"}
    /\ lock' = Unlocked(p)
    /\ Finish(p, "idle")
    /\ UNCHANGED <<store, present, started>>

\* os.replace: the new file is what every process sees from now on.
Replace(p) ==
    /\ pc[p] = "replace"
    /\ file' = [map |-> new[p], synced |-> temp[p] = "fsynced"]
    /\ pending' = pending \cup {file'}
    /\ temp' = [temp EXCEPT ![p] = "none"]
    /\ pc' = [pc EXCEPT ![p] = "dirsync"]
    /\ UNCHANGED <<torn, present, lock, started, after, cmd, snap, base, new>>

\* Mutant: the directory is not synced.
SyncDirSkipped(p) ==
    /\ pc[p] = "dirsync"
    /\ lock' = Unlocked(p)
    /\ \/ after[p] \in {"idle", "done"} /\ Finish(p, after[p])
       \/ /\ after[p] \in {"decide", "mount"}
          /\ pc' = [pc EXCEPT ![p] = after[p]]
          /\ UNCHANGED <<after, cmd, snap, base, new, temp>>
    /\ UNCHANGED <<file, pending, torn, present, started>>

\* fsync of the directory, then the lock is released.
SyncDir(p) ==
    /\ pc[p] = "dirsync"
    /\ pending' = {file}
    /\ lock' = Unlocked(p)
    /\ \/ after[p] \in {"idle", "done"} /\ Finish(p, after[p])
       \/ /\ after[p] \in {"decide", "mount"}
          /\ pc' = [pc EXCEPT ![p] = after[p]]
          /\ UNCHANGED <<after, cmd, snap, base, new, temp>>
    /\ UNCHANGED <<file, torn, present, started>>

\* The directory cannot be opened or synced: an error is reported although the
\* file has been replaced.
SyncDirFails(p) ==
    /\ pc[p] = "dirsync"
    /\ lock' = Unlocked(p)
    /\ Finish(p, "idle")
    /\ UNCHANGED <<store, present, started>>

\* do_format after save_mapping: mount and chown succeed, or they fail and the
\* cleanup puts back, with another update, what save_mapping found.
Mounted(p) ==
    /\ pc[p] = "mount"
    /\ Finish(p, "done")
    /\ UNCHANGED Rest

MountFails(p) ==
    /\ pc[p] = "mount"
    /\ Proceed(p, [cmd[p] EXCEPT !.kind = "restore",
                                 !.src = Migrate(base[p])[cmd[p].name]])
    /\ UNCHANGED Rest

\* The command reports success.
Report(p) ==
    /\ pc[p] = "done"
    /\ Finish(p, "idle")
    /\ UNCHANGED Rest

-----------------------------------------------------------------------------
(***************************************************************************)
(* The environment.                                                        *)
(***************************************************************************)
\* The process is killed: the kernel drops its flock, its temporary file stays.
Kill(p) ==
    /\ pc[p] # "idle"
    /\ lock' = IF lock[HomeOf[p]] = p THEN Unlocked(p) ELSE lock
    /\ Finish(p, "idle")
    /\ UNCHANGED <<store, present, started>>

\* Power is lost: every process is gone, and the directory entry is any of those
\* that may have reached the disk.  Data that was never synced is torn.
PowerLoss ==
    /\ \E f \in pending : /\ file' = [f EXCEPT !.synced = TRUE]
                           /\ pending' = {file'}
                           /\ torn' = (torn \/ ~f.synced)
    /\ lock' = [h \in Homes |-> NoProc]
    /\ pc' = [p \in Procs |-> "idle"]
    /\ after' = [p \in Procs |-> "idle"]
    /\ cmd' = [p \in Procs |-> NoCommand]
    /\ snap' = [p \in Procs |-> NoMap]
    /\ base' = [p \in Procs |-> NoMap]
    /\ new' = [p \in Procs |-> NoMap]
    /\ temp' = [p \in Procs |-> "none"]
    /\ UNCHANGED <<present, started>>

\* A device is plugged in or pulled out.
Hotplug ==
    /\ \E d \in Devices : present' = IF d \in present THEN present \ {d}
                                                     ELSE present \cup {d}
    /\ UNCHANGED <<store, lock, proc, started>>

-----------------------------------------------------------------------------
\* What a process does on its own once a command has been typed.
Step(p) ==
    \/ ReadMap(p) \/ Decide(p) \/ LockAndMutate(p)
    \/ WriteTemp(p) \/ Replace(p) \/ SyncDir(p) \/ Mounted(p) \/ Report(p)

\* What may happen to it instead.
Fail(p) == WriteFails(p) \/ SyncDirFails(p) \/ MountFails(p) \/ Kill(p)

Next ==
    \/ \E p \in Procs : Start(p) \/ Step(p) \/ Fail(p)
    \/ PowerLoss
    \/ Hotplug

Spec == Init /\ [][Next]_vars

\* The kernel runs every process; nobody has to type, and nothing has to fail.
FairSpec == Spec /\ \A p \in Procs : WF_vars(Step(p))

-----------------------------------------------------------------------------
(***************************************************************************)
(* Properties.                                                             *)
(***************************************************************************)
\* p is between reading the map under the lock and replacing the file.
Writing(p) == pc[p] \in {"write", "replace"}

\* p puts the result of its mutator in place in this step.
Commits(p) == pc[p] = "replace" /\ pc'[p] = "dirsync" /\ after[p] # "decide"

\* No lost update: what a process is about to write was computed from the map
\* that is still in the file, so it overwrites no change of another process
\* (update_luks_map holds the lock from the read to the replace).
NoLostUpdate == \A p \in Procs : Writing(p) => base[p] = file.map

\* A power loss at any moment leaves a complete map file: whatever the directory
\* may point to has its data on disk (fsync before os.replace).
NeverTorn == ~torn /\ \A f \in pending : f.synced

\* A command that goes on after its write, or reports success, can no longer
\* lose it to a power loss (fsync of the directory before the lock is released).
AckedDurable ==
    [][\A p \in Procs :
         pc[p] = "dirsync" /\ pc'[p] \in {"decide", "mount", "done"}
            => pending' = {file'}]_vars

\* map never takes a name that has a record when it is written, however late
\* that record appeared, and touches no record but its old and new name.
MapTakesFreeName ==
    [][\A p \in Procs :
         Commits(p) /\ cmd[p].kind = "map" =>
            /\ cmd[p].name # cmd[p].old => ~Mapped(file.map, cmd[p].name)
            /\ \A n \in Names \ {cmd[p].name, cmd[p].old} :
                 file'.map[n] = Migrate(file.map)[n]]_vars

\* unmap by ID removes exactly the records it announces, or nothing: a record
\* that joined or left the device in between makes it fail.
UnmapRemovesAnnounced ==
    [][\A p \in Procs :
         Commits(p) /\ cmd[p].kind = "unmapid" =>
            {n \in Names : Mapped(file.map, n) /\ ~Mapped(file'.map, n)} = cmd[p].names]_vars

\* open and format never make an existing name lead to another device, although
\* they decide from a snapshot that others may have changed.
NamesKeepDevice ==
    [][\A p \in Procs :
         Commits(p) /\ cmd[p].kind \in {"normalise", "format"} =>
            \A n \in Names : Mapped(file.map, n) =>
                /\ Mapped(file'.map, n)
                /\ DeviceOf[file'.map[n]] = DeviceOf[file.map[n]]]_vars

\* A rename moves a record: the new name leads where the old one led.  The code
\* checks only that the old name still has a record.
RenameKeepsDevice ==
    [][\A p \in Procs :
         Commits(p) /\ cmd[p].kind = "map" /\ cmd[p].old # NoName =>
            DeviceOf[file'.map[cmd[p].name]] = DeviceOf[file.map[cmd[p].old]]]_vars

\* While a single command has been typed, nothing changes concurrently, so open
\* is not told that its mapping did.  By ID, open compares the record with the
\* device node, which no record is.
OpenSeesNoConflict ==
    \A p \in Procs :
        pc[p] = "update" /\ cmd[p].kind = "normalise" /\ started = 1
            => Accepts(cmd[p], Migrate(file.map), present)

\* Every typed command ends, whoever else holds the lock in between and whatever
\* fails on the way.
CommandsEnd == \A p \in Procs : pc[p] # "idle" ~> pc[p] = "idle"

\* The file implements the atomic map: a command that has worked out its mutator
\* is a request, which takes effect when the file is replaced.
Requests == [p \in Procs |->
    IF pc[p] \in {"update", "write", "replace"} /\ after[p] # "decide"
    THEN cmd[p] ELSE NoProc]

Atomic == INSTANCE AtomicMap WITH map <- file.map,
                                  survivors <- {f.map : f \in pending},
                                  request <- Requests,
                                  Clients <- Procs,
                                  NoRequest <- NoProc
ImplementsAtomicMap == Atomic!Spec
=============================================================================
