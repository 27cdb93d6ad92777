----------------------------- MODULE MountTable -----------------------------
(***************************************************************************)
(* What open and close work on: one disk of the user, another disk (a      *)
(* stick), the LUKS mappers, the mount table, a process that uses a mount, *)
(* and everything else on the machine that changes them: the user's hand,  *)
(* the automounter of the desktop, another diskmgr, the kernel.            *)
(***************************************************************************)
EXTENDS Naturals, FiniteSets

CONSTANTS
    Nodes,        \* kernel names that the disk may get when it is plugged in
    Places,       \* the disk itself and its partitions
    Whole,        \* the place that is the disk itself
    Layouts,      \* what may be on the disk, in the map and in /etc/fstab
    MapperNames,  \* names below /dev/mapper
    Name,         \* the mapping that the user opens and closes
    Stick,        \* a filesystem on another disk, always plugged in
    Mountpoints,
    Home,         \* /media/$USER/<Name>
    LabelDir,     \* where the automounter mounts, named after the label
    FstabDir,     \* the mountpoint of the entry in /etc/fstab, if there is one
    MaxEvents,    \* bound on what the rest of the machine does
    Absent, Closed, NoMount

\* Besides their types: names of different kinds of things are different.
ASSUME MountConstants ==
    /\ Whole \in Places
    /\ Name \in MapperNames
    /\ {Home, LabelDir, FstabDir} \subseteq Mountpoints
    /\ Layouts \subseteq [payload : [Places -> {"luks", "headless", "fs", "none"}],
                          mapped : Places, header : BOOLEAN,
                          fstab : {"none", "own", "foreign"}]
    /\ MaxEvents \in Nat /\ Nodes # {}
    /\ Mountpoints \cap MapperNames = {}
    /\ {"disk", "pid"} \cap (Mountpoints \cup MapperNames) = {}
    /\ [node : Nodes, place : Places] \cap (MapperNames \cup {Stick, Closed, NoMount}) = {}
    /\ Absent \notin Nodes /\ Stick \notin MapperNames
    /\ {Closed, NoMount} \cap (MapperNames \cup {Stick}) = {}

\* A block device is a place on the disk under the name of one plugging-in.
Devices == [node : Nodes, place : Places]
Sources == Devices \cup MapperNames \cup {Stick}

\* What others may change: "pid" stands for who has the process ID.
Movable == Mountpoints \cup MapperNames \cup {"disk", "pid"}

VARIABLES
    layout,   \* what is on the disk; it never changes
    node,     \* the node that the persistent path of the disk leads to
    mapper,   \* mapper name -> the device below it
    mounts,   \* mountpoint -> what is mounted there
    proc,     \* the process behind one process ID: its number, the mount it uses
    stalled,  \* I/O of the disk is stuck in the kernel
    hung,     \* mountpoints that a umount of the command is stuck in
    events,   \* what the rest of the machine has done so far
    pc,       \* next step of the command in progress
    at,       \* the mountpoint it works on
    todo,     \* mountpoints that it still has to unmount
    moved     \* what the command does not know of: what others have changed since it
              \* looked, and mounts that findmnt did not tell of in time

kernel == <<layout, node, mapper, mounts, proc, stalled, hung>>
shared == <<kernel, events, pc, at, todo, moved>>

NoProc == [id |-> 0, uses |-> NoMount]

MountTableTypeOK ==
    /\ layout \in Layouts
    /\ node \in Nodes \cup {Absent}
    /\ mapper \in [MapperNames -> Devices \cup {Closed}]
    /\ mounts \in [Mountpoints -> Sources \cup {NoMount}]
    /\ hung \subseteq Mountpoints
    /\ proc \in [id : 0 .. MaxEvents, uses : Mountpoints \cup {NoMount}]
    /\ stalled \in BOOLEAN
    /\ events \in 0 .. MaxEvents
    /\ at \in Mountpoints
    /\ todo \subseteq Mountpoints
    /\ moved \subseteq Movable

MountTableInit ==
    /\ layout \in Layouts
    /\ node = CHOOSE n \in Nodes : TRUE
    /\ mapper = [m \in MapperNames |-> Closed]
    /\ mounts = [q \in Mountpoints |-> NoMount]
    /\ proc = NoProc
    /\ stalled = FALSE /\ hung = {}
    /\ events = 0
    /\ pc = "idle" /\ at = Home /\ todo = {} /\ moved = {}

-----------------------------------------------------------------------------
Plugged == node # Absent
Dev(p) == [node |-> node, place |-> p]

\* The path /dev/... of a source exists: a mapper outlives its disk.
Present(s) ==
    \/ s = Stick
    \/ s \in Devices /\ s.node = node
    \/ s \in MapperNames /\ mapper[s] # Closed

\* There is a disk below it.
Live(s) ==
    \/ s = Stick
    \/ s \in Devices /\ s.node = node
    \/ s \in MapperNames /\ mapper[s] # Closed /\ mapper[s].node = node

\* find_mount_targets.
Targets(s) == {q \in Mountpoints : mounts[q] = s}

\* _collect_mount_targets_for_device: the device, with its partitions if it is
\* a whole disk (mounts of mappers are not among them).
TargetsOfDisk(p) ==
    UNION {Targets(Dev(c)) : c \in IF p = Whole THEN Places ELSE {p}}

\* _collect_child_crypt_mappers_for_disk.
MappersOn(n) == {m \in MapperNames : mapper[m] # Closed /\ mapper[m].node = n}

\* The filesystem of what can be mounted.
Mountable(s) ==
    /\ Live(s)
    /\ s \in Devices => layout.payload[s.place] = "fs"
    /\ s \in MapperNames => layout.payload[mapper[s].place] \in {"luks", "headless"}

Held(q) == proc.id # 0 /\ proc.uses = q
Stuck(q) == stalled /\ mounts[q] \notin {Stick, NoMount}

\* What the program umount may do: succeed, fail at once, or (neither) hang.
CanUmount(q) == mounts[q] # NoMount /\ ~Held(q) /\ ~Stuck(q)
UmountFails(q) == ~Stuck(q) /\ (mounts[q] = NoMount \/ Held(q))
Without(q) == [mounts EXCEPT ![q] = NoMount]

\* dm-crypt takes a device for itself, and cryptsetup closes no mapper in use.
CanOpenMapper(m, d) ==
    /\ mapper[m] = Closed /\ d.node = node /\ Targets(d) = {}
    /\ \A o \in MapperNames : mapper[o] # d
CanCloseMapper(m) == mapper[m] # Closed /\ Targets(m) = {}

-----------------------------------------------------------------------------
(***************************************************************************)
(* The rest of the machine.                                                *)
(***************************************************************************)
Event(what) ==
    /\ events < MaxEvents /\ events' = events + 1
    /\ moved' = IF pc = "idle" THEN moved ELSE moved \cup what
    /\ UNCHANGED <<layout, pc, at, todo>>

Unplug ==
    /\ Plugged
    /\ node' = Absent
    /\ Event({"disk"})
    /\ UNCHANGED <<mapper, mounts, proc, stalled, hung>>

\* The kernel does not give out the name of a node that is still referenced.
FreeNodes == {n \in Nodes : /\ MappersOn(n) = {}
                            /\ \A q \in Mountpoints :
                                 mounts[q] \in Devices => mounts[q].node # n}

Plug ==
    /\ ~Plugged
    /\ node' \in FreeNodes
    /\ Event({"disk"})
    /\ UNCHANGED <<mapper, mounts, proc, stalled, hung>>

Automount ==
    /\ \E s \in {s \in Sources : Mountable(s)}, q \in Mountpoints :
         /\ mounts[q] = NoMount
         /\ q \in {LabelDir, Home}
         /\ s \in Devices => \A m \in MapperNames : mapper[m] # s
         /\ mounts' = [mounts EXCEPT ![q] = s]
         /\ Event({q})
    /\ UNCHANGED <<node, mapper, proc, stalled, hung>>

OthersUnmount ==
    /\ \E q \in Mountpoints :
         /\ CanUmount(q)
         /\ mounts' = Without(q)
         /\ Event({q})
    /\ UNCHANGED <<node, mapper, proc, stalled, hung>>

OthersUnlock ==
    /\ Plugged
    /\ \E m \in MapperNames, p \in Places :
         /\ layout.payload[p] = "luks" /\ CanOpenMapper(m, Dev(p))
         /\ mapper' = [mapper EXCEPT ![m] = Dev(p)]
         /\ Event({m})
    /\ UNCHANGED <<node, mounts, proc, stalled, hung>>

OthersLock ==
    /\ \E m \in MapperNames :
         /\ CanCloseMapper(m)
         /\ mapper' = [mapper EXCEPT ![m] = Closed]
         /\ Event({m})
    /\ UNCHANGED <<node, mounts, proc, stalled, hung>>

\* Writeback gets stuck.
Stall ==
    /\ ~stalled /\ stalled' = TRUE
    /\ Event({})
    /\ UNCHANGED <<node, mapper, mounts, proc, hung>>

\* It comes to an end, and with it the programs that were stuck in it.
Recover ==
    /\ stalled /\ stalled' = FALSE
    /\ \E gone \in SUBSET {q \in hung : mounts[q] # NoMount /\ ~Held(q)} :
         /\ mounts' = [q \in Mountpoints |-> IF q \in gone THEN NoMount ELSE mounts[q]]
         /\ moved' = IF pc = "idle" THEN moved ELSE moved \cup gone
    /\ hung' = {}
    /\ UNCHANGED <<layout, node, mapper, proc, events, pc, at, todo>>

\* A process that uses a mount, or none, gets the process ID; if another had
\* it, that one has ended.
Spawn ==
    /\ \E q \in Mountpoints \cup {NoMount} :
         /\ q # NoMount => mounts[q] # NoMount
         /\ proc' = [id |-> events + 1, uses |-> q]
    /\ Event({"pid"})
    /\ UNCHANGED <<node, mapper, mounts, stalled, hung>>

Exit ==
    /\ proc # NoProc
    /\ proc' = NoProc
    /\ Event({"pid"})
    /\ UNCHANGED <<node, mapper, mounts, stalled, hung>>

Others ==
    \/ Unplug \/ Plug \/ Automount \/ OthersUnmount \/ OthersUnlock
    \/ OthersLock \/ Stall \/ Recover \/ Spawn \/ Exit
=============================================================================
