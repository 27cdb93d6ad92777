------------------------------ MODULE Mounting ------------------------------
(***************************************************************************)
(* open and close commands one after the other, on a machine where others  *)
(* mount, unmount, unlock, plug and unplug at any moment.                  *)
(***************************************************************************)
EXTENDS Opening, Closing

vars == <<shared, openLocals, closeLocals>>

TypeOK ==
    /\ MountTableTypeOK /\ OpeningTypeOK /\ ClosingTypeOK
    /\ pc \in {"idle"} \cup OpenPCs \cup ClosePCs

Init == MountTableInit /\ OpeningInit /\ ClosingInit

Opener == (OpenStart \/ OpenStep) /\ UNCHANGED closeLocals
Closer == (CloseStart \/ CloseStep) /\ UNCHANGED openLocals

Next ==
    \/ Opener
    \/ Closer
    \/ Others /\ UNCHANGED <<openLocals, closeLocals>>

Spec == Init /\ [][Next]_vars

\* A command that has begun goes on while no I/O is stuck.  A program that is
\* stuck in the kernel holds it up for as long as that lasts, whatever limit it
\* was given, and nobody promises that the kernel recovers.
FairSpec ==
    /\ Spec
    /\ WF_vars(OpenStep /\ ~stalled /\ UNCHANGED closeLocals)
    /\ WF_vars(CloseStep /\ ~stalled /\ UNCHANGED openLocals)

-----------------------------------------------------------------------------
\* open reports success only with the device, or its mapper, mounted where it
\* says, over the disk that is plugged in, unless someone has changed just
\* that since it looked.  (Where the label in fstab means another disk, that
\* one is mounted instead.)
OpenedLive ==
    pc = "opened" /\ layout.fstab # "foreign" /\ moved \cap {spot, Name, "disk"} = {} =>
        mounts[spot] = target /\ Live(target)

\* The mount that open reports is the only one of the device when it gave up
\* no duplicate, but for those made since it looked last.
OnePlace ==
    pc = "opened" /\ round = 0 => Targets(target) \subseteq {spot} \cup moved

\* Of what is not its own, a command unmounts only what it finds at the usual
\* mountpoint (close) and what came there after it had looked.
ForeignMountsKept ==
    [][\A q \in Mountpoints :
         (pc \in OpenPCs \cup ClosePCs) /\ mounts[q] = Stick /\ mounts'[q] # Stick =>
             \/ q \in moved'
             \/ pc \in ClosePCs /\ q = Home]_vars

\* close retries no umount beside one of its own that has not come back, unless
\* that one was started when others had mounted another mapper there since the
\* first had been listed.
NoOverlappingUmount ==
    [][tries' > tries /\ at \in hung => stage = "child" /\ at \in moved]_vars

\* --force kills the process that was found using the mount, unless its ID has
\* changed hands before its start time was first read, or after it was read
\* again, while the kill waits for its privilege.
KillsHolder ==
    [][pc = "c_kill" /\ proc' # proc /\ pc' = "c_flush" /\ start = victim
          /\ "pid" \notin moved => proc.id = victim]_vars

\* close detaches a disk only when nothing of it is mounted or unlocked, but
\* for what has been since its last look, or what lsblk did not tell in time.
DetachesIdle ==
    [][pc = "r_detach" /\ node' # node /\ pc' = "r_rescan" =>
         /\ MountsOn(disk) \subseteq moved
         /\ blind \/ MappersOn(disk) \subseteq moved]_vars

\* Every open and close ends once the kernel is no longer stuck, also when a
\* mount never becomes free, and whatever the stuck programs have left behind.
CommandsEnd ==
    <>[]~stalled => (pc \in OpenPCs \cup ClosePCs ~> pc = "idle")
=============================================================================
