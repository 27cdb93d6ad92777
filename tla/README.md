# diskmgr in TLA+

Specifications of [diskmgr](../src/README.md), a shell that gives disks friendly
names, opens and closes (encrypted) filesystems, and formats, erases, clones and
checks disks. What makes it hard is not in any one function: several diskmgr
processes, a desktop automounter, the kernel and the user's hands act on the same
disks at the same time, every step runs an external program that may fail, hang or
be killed, and a mistake destroys data.

The modules are translations of the Python source, at the lines that `PROJECT.json`
names for each definition. TLC checks them on small instances; TLAPS proves the safety
properties of every component for all instances.

| module | what it is |
|---|---|
| `MapOps` | the mapping of names to devices and the mutators of the commands, as operators |
| `AtomicMap` | what the mapping file promises: every command takes effect at one instant or not at all |
| `MapStore` | the mapping file and the processes that change it; implements `AtomicMap` |
| `MapStoreProofs` | its theorems, the refinement among them |
| `Guard` | what stands between a destructive command and the device |
| `GuardProofs` | its theorems |
| `Clone` | clone after the guard: ddrescue, its mapfile, resuming |
| `CloneProofs` | its theorems |
| `MountTable` | what open and close work on: a disk with its places, mappers, mounts, a process, and everybody else |
| `Opening`, `Closing` | the commands open and close |
| `Mounting` | the two on one machine, and what they promise |
| `MountingProofs` | its theorems |
| `Fstab` | /etc/fstab as a list of lines, and diskmgr's edits of it, as operators |
| `Relabel` | the commands label and remount |
| `RelabelProofs` | its theorems, and what the edits of `Fstab` keep and remove |
| `Partitions` | create, remove, erase and convert on the partitions of a disk |
| `PartitionsProofs` | its theorems |
| `VolumeState` | a disk or partition that is encrypted, formatted, used and erased; everybody else |
| `Formatting`, `LuksKeys`, `SecureErase` | format after the guard, the luks commands, nuke and entropise |
| `Volume` | these three, one command after the other on one volume |
| `VolumeProofs` | its theorems |
| `MC...` | the instances TLC checks |

A definition whose comment begins with "Mutant" or "A plausible slip" is no part of the
specification: it is a bug the code might have had, kept to show that a property would
have found it.

## The system

### Components

**Mapping file** (`mappings.py`, `commands/mapping.py`; open in `mounting.py`, format
in `provisioning.py`). State: `diskmap.tsv`, name to `/dev/disk/by-id` path; a lock
file in the user's home; in each process the copy read last. Operations:
`read_luks_map`, `update_luks_map(mutator)`, and the mutators of map (new name or
rename), unmap (by name or by ID), open (normalise a path), format (record, and put
back on failure). Hard: a command decides on a snapshot and writes later, other
processes write in between; the write must survive failures, kills and power loss.
Correct if no update is lost, the file is never torn, an acknowledged update stays,
and no command does to the map of *now* what was only right for the map of *then*.

**Guard of destructive commands** (`safety.py`; callers in `block.py`,
`provisioning.py`, `luks.py`). State: a preflight record (identity, signatures,
active use), an flock on the device held by a privileged helper. Operations: root-disk
check, preflight, typed confirmation of the device identity, revalidation, release.
Hard: the user takes a minute to type while disks come and go; locks are advisory;
every probe can fail; there are dozens of early returns. Correct if what is written
is what was shown and confirmed, two processes never write to the same disk, format
keeps to its policy, and locks come back.

**Clone** (`block.py:301-506`, `rawio.py:22-75`). State: a ddrescue mapfile and a
metadata file for each pair of disk identities, in the user's state directory.
Operations: bind the pair, pass 1, retry pass, sync, verdict. Hard: interruption and
power loss at any point and resuming afterwards. Correct if "Cloning complete" means a
twin, and a clone that was interrupted can go on.

**Mounting** (`mounting.py:28-1466`, `mounts.py`). State: mounts, device-mapper nodes,
mountpoint directories; nothing of its own. Operations: open (resolve, unlock, discard a
stale mapper, mount at a preferred place, prune the automounter's mounts), close
(find and kill holders, unmount, wait for the kernel and retry, close the mapper, and as
a rescue delete the disk from the kernel and rescan the bus). Hard: an automounter that mounts while open
does; devices that vanish; umounts that hang in the kernel. Correct if open never
mounts another device than the one asked for, close never kills or detaches what it
did not check, and both end once the kernel lets them.

**Relabel, remount, fstab** (`mounting.py:1467-1838`, `mount_policy.py`). State:
`/etc/fstab`. Operations: label, remount. Hard: several steps of which any may fail,
edits by line index without a lock. Correct if a refusal leaves the filesystem mounted,
lines of fstab that are not the disk's or its labels' are kept, and fstab tells of the mount that was made.

**Provisioning** (`provisioning.py`). Operations: format (luksFormat, mkfs, mapping,
mount, each undone on failure), create and remove a partition, convert ext4 to btrfs.
Hard: values computed before the confirmation and used after it. Correct if a failed
format leaves nothing of its own behind, and no filesystem is lost that was not announced.

**Soft erase** (`block.py:56-103`, `safety.py:984-1193`). wipefs, sgdisk, the kernel's
partitions, verification. Correct if an erased disk is one that create takes.

**Raw erasure** (`rawio.py:77-353`, `block.py:105-262`). NVMe format and sanitize
(polling), ATA secure erase (temporary password), discards, overwriting. Correct if
success is reported only when nothing is left and the drive is not locked.

**LUKS management** (`luks.py`). passwd, params, header backup, restore and wipe.
Correct if the data can always be unlocked with a passphrase the user knows, unless the
user gave them up.

**Maintenance** (`filesystem_maintenance.py`): defrag, scrub, fshealth, with timestamps
in extended attributes. **Lookup** (`listing.py`, `inventory.py`, `devices.py`): the
`list` table and `#N` ids, a cache of device nodes. **Reports** (`health.py`,
`smart.py`, `boot.py`), **transfer** (`transfer.py`: sync and diff), **entropy**
(`entropy.py`), **execution and shell** (`runtime.py`, `shell_core.py`, `app.py`).

### How they interact

The shell dispatches a command to one mixin. A command resolves its argument through
the map or `id_cache` (`resolve_target`), and through the guard if it destroys. Within a
process everything is sequential, so concurrency is *between* processes: they share
`diskmap.tsv` (flock), the devices (flock held by a helper), clone's mapfiles (no lock
but the destination's device lock), mounts and `/etc/fstab` (no lock). All share the
machine with udev, the automounter, and whoever pulls the plug.

## MapStore: the mapping file

| state | code |
|---|---|
| `file`, `pending`, `torn` | the map file; the directory entries a power loss may leave; whether one came back unsynced |
| `lock` | flock on `~/.local/state/diskmgr/diskmap.lock`, one for each home |
| `snap` | `self.mappings` of a command |
| `base`, `new`, `temp` | `mappings`, `updated` and the temporary file in `update_luks_map` / `_write_map_unlocked` |
| `pc`, `after`, `cmd` | where a command is and what its mutator has captured |
| `present` | devices plugged in (what `realpath` of a by-id link finds) |

A command is `Start`, `ReadMap` (with migration of raw records, which is a write of its
own), one of the `Decide...` actions (the code between the read and the mutator, with its
early returns), `LockAndMutate`, `WriteTemp`, `Replace`, `SyncDir`, `Report`; format
goes on to `Mounted` or `MountFails`, and the latter puts the record back with another
update. `WriteFails`, `SyncDirFails`, `Kill`, `PowerLoss` and `Hotplug` interfere
between any two.

Abstractions. A path is a model value that leads to a device. Which by-id link the code
prefers is a constant for each device (`Preferred`, `Migrated`). That a device keeps its
node as long as it is present is assumed. The two reads of the map at the start of
format are one. Reading the file is atomic, since replacing it is.

Checked by **map_store** (`MapStore.cfg`: two processes of one home, two commands in all,
two names, two devices, four paths, three initial files): `TypeOK`; `NoLostUpdate`;
`NeverTorn`; `AckedDurable`; `MapTakesFreeName`; `UnmapRemovesAnnounced`;
`NamesKeepDevice`; the liveness property `CommandsEnd`; and the refinement
`ImplementsAtomicMap`. Two commands are enough for every conflict of two; a failed format
counts as two updates. The initial files have one record, a legacy record, and two names
for one device, the cases in which the mutators differ.

Two runs show where the code does not do what it says:

- **map_rename**: a rename writes the target it read before it took the lock, and the
  mutator checks only that the old name has *a* record. With an unmap and a map of that
  name in between, the new name gets the device the old name no longer had, without the
  "changed concurrently" error meant for that. It takes three commands.
- **map_open_by_id**: `open #N` of a mapped device compares the record (a by-id link)
  with the device node, so it always reports a concurrent change.

Fairness: weak fairness of the steps a process takes by itself. The kernel schedules it,
flock does not starve it forever while commands are finite in number, and file
operations return. Nothing has to be typed, nothing has to fail.

## Guard: before a device is written

| state | code |
|---|---|
| `hw`, `content`, `active` | what is behind a disk's node, its signatures, its mounts, swaps and holders |
| `lock` | flocks held by helpers (`_format_acquire_device_lock`) |
| `orphans` | disks that a program of a killed diskmgr still writes |
| `round`, `shown`, `last`, `now` | which preflight is running, the one shown, the one to compare with, the one being taken |
| `typed` | the device whose identity the user typed |
| `fresh` | history: what has not changed since the session probed it again |

A session takes the actions of `_format_safety_preflight` in their order, one probe per
action, so that anything may happen between two probes; `Review` shows the result and
applies the policy of format; `Confirm` is the typed identity, resolved anew; the second
round compares (`Unchanged`), and format takes a third, compared with the second;
`Passphrase` is the prompt of `format --luks` after all probes. Every other way ends in
`Refuse`, which gives the lock back. `Hotplug`, `Rewrite`, `Use`, `Kill` and
`OrphanEnds` are the machine.

Abstractions. Signatures and use are kept per disk, not per partition. A disk's identity
is one value; what the user types (`UnitOf`) is a part of it, because two media of one
card reader share serial, path and slot. The kernel gives the name of an open node to no
other unit, so while a lock is held only the medium may change or the unit go. The kind
of command is chosen at `Review`, the first point where it matters. `Write` is whatever
the command does then; clone's is refined in `Clone`. luks restore and wipe are "raw"
commands. That the guard excludes what happens after its last probe is not claimed: the
properties name it (`fresh`).

Checked by **guard** (`Guard.cfg`: two sessions, a disk with a partition and a root disk,
three pieces of hardware of which two share a unit, two contents, any probe failing, one
session killable): `TypeOK`, `GuardedWrite`, `FormatPolicy`, `ConfirmedUnit`, `OneWriter`
and the liveness property `LocksReturned`. Two sessions on one disk are what the lock is
about; three pieces of hardware allow a change within a unit and one across units.

- **guard_partition**: `_format_identity_snapshot` reads `queue/...` attributes, which
  partitions lack, so every guarded command refuses every partition. As a consequence only
  whole disks (`QueueNodes`) ever get past the first probe, and `OneWriter` rests on it:
  the lock is per node, and would not exclude a write to a disk and to its partition
  in the second round.
- **guard_kill**: the lock dies with diskmgr, the program it started does not.

Fairness: weak fairness of the steps of a session: probes run under time limits
(`run_command_hard_timeout`), programs end, and the user answers or interrupts. A killed
session's lock is released with it, so `Kill` needs no fairness.

## Clone: ddrescue and its mapfile

| state | code |
|---|---|
| `vol`, `platter` | what a disk reads as, and what of it is certain to survive a power loss |
| `mapfile`, `meta` | the mapfile and its metadata, per pair of identities; "fresh" metadata is not synced |
| `touched` | history: pairs changed by others since their mapfile was begun |
| `mem`, `todo`, `failed` | the map a running ddrescue has in memory, what it still tries, and whether a pass failed |

`Begin` takes the destination's lock (Guard in one step), `Bind` checks or writes the
metadata, `StartPass` ... `EndPass` are the two runs of ddrescue, `Sync` is sync(1),
`Complete` and `Incomplete` the verdict, which rests on the exit codes of the passes and on
the bad ranges in the mapfile. A mapfile that cannot be read or parsed has none
(rawio.py:73), so `Complete` may then report completion over bad blocks: the state is
called "unread" instead of "complete", and `CompleteIsTwin` promises a twin in all blocks
but those that the mapfile marks as bad. What others write to the source while it is
copied is promised nothing (`touched`): clone locks the destination only.
ddrescue is external, modelled by what
do_clone relies on: it resumes from its mapfile, marks unread blocks `-`, and syncs its
output before it saves its map. A pair stands for two identities: the same disk under
another node or slot would be another pair.

Checked by **clone** (`Clone.cfg`: two cloners, two disks cloned one way, two blocks of
which one may fail to read, two values, others writing at any time): `TypeOK`,
`CompleteIsTwin`, `MapTruthful`, `OnlyPowerLossRefuses`, `ClonesEnd`. Two blocks make a
half-done clone. Cloning both ways at once is too large to check; the proofs cover any set
of pairs.

- **clone_twin**: a mapfile is never removed, so a second clone of a pair copies only what
  the first left out and reports completion, although the source has changed since. The
  run lets nobody write to a disk while a clone uses it.

Fairness: weak fairness of a cloner's steps: ddrescue makes progress through finitely many
blocks, and the passes are two.

## Mounting: open and close

`MountTable` keeps one disk of the user (`node`, the kernel name its persistent path leads
to, or Absent; `layout`, what is on its places), another filesystem (`Stick`), `mapper`
(name to the device below it), `mounts` (mountpoint to source), one process ID (`proc`),
whether the disk's I/O is stuck (`stalled`), and the umounts that have not come back
(`hung`). A device is a place on the disk *under the node of one plugging-in*, so a mapper
left by an unplugged disk is a different source from that of the disk now. Others unplug
and plug, automount, unmount, unlock, lock, stall, recover, spawn and exit.

`Opening` is do_open after the map has been read: `Ready`/`NotReady` (60 seconds of
waiting), `Classify` (the device, or the one partition of a disk), `MapperExists`,
`MapperStale`, `Recycle`, `Unlock`, the choice of the mountpoint (`SelectFree`,
`SelectStale`, `SelectBlocked`), the removal of other mounts (`Look`, `UnmountListed`,
`SkipListed`), `MountDevice`, and the rounds of `_prune_extra_mounts` (`PruneLook`).
`Closing` is do_close: the three sources of what to unmount; for each mountpoint fuser,
the guarded kill (`ReadStart` the start time, `Verify` it once more, `Kill` whoever has the
ID when pkexec gets to it), flush, umount with its outcomes (gone, busy, hangs, other error), the
wait for the kernel with its retries (`SeemsFree`: a findmnt that does not answer in two
seconds counts as not mounted); the mappers on the disk; the rescue (four looks
before `Detach`, then the rescan). `moved` collects what others have changed since the
command looked at it, and the properties say where the command cannot know.

Checked by **mounting** (`Mounting.cfg`: a disk with two partitions in five layouts,
mapped as a disk or a partition, LUKS with its header on the disk or in the backup, an
fstab entry of its own, of another disk, or none; two mapper names, three mountpoints, two
kernel names, two events of others): `TypeOK`, `OpenedLive`, `OnePlace`,
`ForeignMountsKept`, `NoOverlappingUmount`, `KillsHolder`, `DetachesIdle`, and the
liveness property `CommandsEnd`. Two events are what the races take: an unplug and a plug
for a stale mapper, an exit and a spawn for a reused process ID, a stall and a recovery.
Rounds and retries are two instead of six and many; what a third would do the second does.

What was met: open calls a mapper stale when it is not over the device the *mapping*
leads to (mounting.py:298), though of a mapped disk it has unlocked a partition: that
mapper is recycled by every open. Where fstab has the label of the device at a line that
another filesystem also answers to, that one is mounted (`OpenedLive` excludes it). The
rescue takes an lsblk that does not answer in three seconds for "no mappers" (`blind`).
Between the second look at a holder's start time and the kill the ID may change hands;
`KillsHolder` names that window and the one before the first look (`moved`).
close does retry a umount beside one that hangs, in one case that took six events of
others and was found in the proof: a child mapper's mount is replaced by that of a second
child mapper at the same mountpoint while close is on its way there, its umount hangs, the
first child is given up, and the second is found mounted there and unmounted, and retried
(mounting.py:855-857, 1245). `NoOverlappingUmount` leaves out just that.

Fairness: weak fairness of a command's steps while no I/O is stuck, and of no event:
nobody promises that the kernel recovers. Neither command can be promised to end
before it does. open calls umount without a limit. close runs most programs under
timeout(1), but `run_command_hard_timeout` waits for the pipe to close, which a program
that hangs in the kernel keeps open (runtime.py:324), and findmnt (mounts.py:19 and 42,
mounting.py:1397) and rmdir (mounts.py:45) have no limit at all. So `CommandsEnd` says that
commands end if from some time on nothing is stuck, whatever was left hanging meanwhile;
that they may also get on while something is stuck is a possibility, not a promise.

Not in it: making and removing mountpoint directories, btrfs options beyond their failing,
mounts stacked on one mountpoint, pkexec's own time limits.

## Relabel: label, remount and fstab

State: the filesystem and `labels`, `fstab` (a sequence of lines), `mounts`, `full`
(directories with files in them), `open`; of the command `lines` (what it read), `entry`
and `found` (index and line), `spot`, `todo`. The operators of `Fstab` are the edits:
`_find_fstab_entry_for_device`, `_update_fstab_mountpoint`,
`_update_fstab_for_label_change`. `label` is `Inspect`, `WriteLabel` (for XFS between
`Unmount` and `Mount`), `ReadForLabel`, `ReplaceForLabel`, `SelectForLabel`; `remount` is
`Find`, `Reread`, `MoveEntry`, `CheckSpot`, `ListForRemount`, `CheckDirectory`. Any
program may fail (`GiveUp`, `FstabFails`); others edit fstab, mount, unmount, lock, and
leave files in directories.

Checked by **relabel** (`Relabel.cfg`: two labels, four starts that differ in filesystem,
labels, fstab and mounts, two events): `TypeOK`, `FstabAgrees`, `OneLine`, `MountKept`,
`ForeignLinesKept`. A line in front and one behind make an index go stale; two labels are
all a relabelling has.

`ForeignLinesKept` says what may go. Besides lines with the UUID of the disk: the one line
that names the disk by its label, which remount rewrites, and for label those of the old
label and, with `--fstab`, of the new one, by `LABEL=` or by mountpoint. A line
`LABEL=` of either goes at whatever mountpoint, also if another filesystem has that label
(mount_policy.py:588-602): it is lost, and the code asks nobody. Any other line stays.

What the properties exclude is what the code does not manage. remount rewrites fstab and
unmounts before it looks whether the new directory is empty, and then leaves the disk
unmounted (mounting.py:1817). When xfs_admin fails the filesystem stays unmounted
(mounting.py:1595). An edit of fstab between two reads makes remount rewrite another
line (mount_policy.py:514). Comments in fstab and by-label paths as its source are not
modelled.

## Partitions: create, remove, erase, convert

State: `table`, `parts` (number to extent, as on the disk), `nodes` (what the kernel
knows of it), `fs` and `kind` (the filesystem that begins at a unit, 0 being the disk
itself), `busy` (mounted or held). Commands differ in what they look at before the guard
(`CreateTable`, `CreatePartition`, `RemoveStart`, `EraseStart`, `ConvertStart`), pass
`Preflight` and `Revalidate`, and write one program at a time. The identity of the device
and the lock are in `Guard`; here the guard compares signatures and use, and others
partition, format, mount and unmount at any step. erase lists the partitions once more
(`LookAgain`; if lsblk tells none, it goes on as on a disk without), wipes them and the
disk, and asks the kernel to drop them. `Refresh` is best effort, as in the code: partx,
blockdev and partprobe may fail, and their results are ignored, so any partition may stay
(`Reread`); so it is after create and remove (`Settle`). `erased` is what erase has set out
to wipe, `kept` that the kernel kept something.

Checked by **partitions** (`Partitions.cfg`: a disk of three units, two partition numbers,
two filesystems with symmetry, seven starts, two acts of others): `TypeOK`,
`ErasedStaysCreatable`, `OnlyAnnouncedLost`. Three units make the largest free extent a
choice; two acts remove and recreate a partition under the same number. A view
leaves the kind of filesystems that are nowhere on the disk out of the state: no action
and no property reads it.

`ErasedStaysCreatable` says what a reported erase of a disk has done to the disk (no table,
none of the filesystems it set out to wipe, which a partition made at the same place
would bring back), and, if the kernel has followed, that create takes it.
What was met: where the kernel keeps a partition, erase reports completion
all the same and the next create refuses the disk (safety.py:1092-1103); and where
lsblk does not list the partitions, erase leaves their filesystems in place, and its
verification, which sees only what the kernel shows, does not find them (safety.py:1003-1016).

`Unseen` names the windows in which others defeat a command: all write a while after
their last probe; create has looked at the disk once before its preflight, which shows
but does not judge a filesystem that has come since; convert has no lock and no second
look, and leans on e2fsck and btrfs-convert refusing what is mounted or not ext4.

## Volume: format, keys, erasure

One device over its life. `VolumeState` has `payload` (the volume its data are encrypted
as, or Plain), `readable`, `header` (on the device), `file` (the header file of the name),
`mapper`, `mounted`, `record` (in the map), and of the drive `sanitize` and `password`. A
header has a volume, and what opens each of its keyslots; data are openable if some
header has their volume and a slot for a known passphrase.

`Formatting` is do_format from the last preflight on, and its `finally`: a step per
program, `FormatFails` anywhere, and the flags (`luks_created`, `mapper_opened`,
`mapping_written`, `mounted_at`) that the cleanup goes by; an interrupt may come when a
program has ended and its flag is not set, which `stuck` records. `LuksKeys` has passwd
(add, then remove), params, backup, restore, wipe. `SecureErase` computes the chain of
methods for the drive and goes down it: `Sanitize` with `PollDone` and `PollGivesUp`,
`SetPassword`/`AtaErase`/`Disable`, `EraseAtOnce`, `Overwrite`. Others mount, unmount,
change the map, add and remove keys at any step; the drive ends a sanitize when it likes.

Checked by **volume** (`Volume.cfg`: two passphrases, two slots, two volumes, three drives:
NVMe, SATA SSD, a partition of a hard disk; two events; passphrases and keyslots are symmetric): `TypeOK`, `KeyKept`,
`DestroyedIsGone`, `FormatUndone`. Two slots make a header full in the middle of passwd;
two volumes make a header file that belongs to an earlier format. One session at a time:
the guard excludes two that write, and passwd of another session is an event.

What was met, and the properties leave room for: the cleanup of format unmounts whatever
is at its mountpoint, also a mount by others that came after the occupied check
(provisioning.py:697), and restores the record over another's change
(provisioning.py:711). An automounted target passes that check as free, but the mount
then fails. An ATA sanitize is reported complete when it has begun (rawio.py:199), a
`--security-disable` that fails is reported by nobody (rawio.py:230), and a standard
discard counts as an erasure. The help of nuke lists "PSID Revert" (block.py:126), which
no code does.

The properties are over commands in sequence, so that what one leaves behind (a header
file, a password, an interrupted format) is what the next one starts from. No fairness:
all of them are safety properties.

## What is proved

Each proof module extends its component and proves its theorems for every value of the
constants that satisfies the module's ASSUMEs.

**MapStoreProofs.** `TypeCorrect`. `MapNeverTorn` from `SafeInv`: whoever writes, replaces
or syncs holds its home's lock, and a temporary file that is about to replace the map has
been fsynced; `AcknowledgedIsDurable` from the same invariant. The rest assumes `SharedHome` (all processes have one HOME; with two there
are two locks for one file and the theorem is false). `NoUpdateLost` adds
to the invariant that the holder has read what the file still holds, and that what it will
write is its mutator, or the migration, applied to that. `MapIsAtomic` is the refinement:
a command is requested once its mutator is fixed, and committed by `Replace`; a migration
is an Upgrade (`Waiting` keeps the two apart), and each other step is a stutter or one of
AtomicMap's.
`MapTakesOnlyFreeNames`, `UnmapRemovesOnlyAnnounced` and `OpenAndFormatKeepDevices` are
action properties from the same invariant: at `Replace`, the new map is the mutator
applied to the current one, and was accepted on it. The last needs besides that the target a command
captured leads to the device it captured.

**GuardProofs.** One inductive invariant `GuardInv`, a conjunct per phase for each
session: it holds its lock from `AcquireLock` on, the aspects in `fresh` agree with the
preflight being taken, the compared preflights agree with the shown one, and the typed unit is
the unit of the identity compared. None of the properties is inductive alone:
`GuardedWrite` speaks of the moment of writing and needs what each earlier probe left.
From it `WritesAreGuarded`, `FormatKeepsPolicy`, `TypedUnitIsWritten`, and, with
`QueueNodes \subseteq Disks`, `WritersExclude`.

**CloneProofs.** `CloneInv`: a cloner that is not idle holds its destination's lock, so two
of them have different destinations; past `Bind` the metadata exists; what the map in
memory calls copied is on the disk; and what a mapfile calls copied is on the platter
(`MapTruthful`). `Save` keeps it because ddrescue syncs first; `PowerLoss` because what
is on the platter stays. A cloner that reports completion has a mapfile in which no block
is untried, and none is bad unless it is "unread" (`Finished`). From it
`MapfileIsTruthful`, `CompleteClonesAreTwins`, `InterruptedClonesResume`.

**PartitionsProofs.** `TypeCorrect`, with which partitions never overlap: `mkpart` takes
only what `Free` leaves. The invariant `IInv` has one part for each thing a command relies
on. `KernelKnows`: while there is a table the kernel's list is the table's, and nothing is
mounted that the kernel does not know. `Bound`: what a command works on at each step.
`Erasing`: from erase's last probe to its report nothing is mounted, once the table is
wiped there are no partitions, and after the refresh the kernel has none either but what it
`kept`, unless others acted (`late`). `Once`: no filesystem is at two places. `Covered`:
what has been announced for erase is what the disk and its partitions hold. `Wiped`: of
the filesystems erase has set out to wipe, those left are where a partition still to be
wiped begins, or on the disk itself; after the disk is wiped none is left. `Creating`: what create has found stays so until it labels the disk. `Announced`:
the signatures shown, and after the second look all that the device leads to, are what the user has
been told of. From it `ErasedDisksCreatable`, which is not inductive alone because the report follows
the refresh by a probe, and `AnnouncedLossesOnly`, an action property: the five steps that
write (`MkLabel`, `Rm`, `WipePart`, `WipeDisk`, `Convert`) each lose nothing but what one
part of the invariant calls announced. Assumed are disks to begin with whose partitions do not
overlap, no partitions without a table, no UUID on it twice, and UUIDs that are not names of table types; the units, partition numbers,
filesystems and the bound on others are arbitrary.

**VolumeProofs.** `TypeCorrect`. Three invariants, one for each property. `KeyInv` gives
`KeysKept`: as long as the data can be read and the user has not given them up, a header
with their volume has a key (`DataKept`). Adding a key keeps a header good, removing one
does because another slot is in use (`KeyAdded`, `KeyRemoved`); mkfs makes the volume
behind the mapper the data, so that volume must have a good header when it runs
(`MapperKept`); and the header file that a failed format unlinks is one that no data
depend on (`Detached`). `EraseInv` gives `ErasedIsGone`: who polls a sanitize that is done, or has seen an ATA
erase, finds the device empty, and a password set outlives `Disable` only if `stuck` says so. It also has that a
command in progress has no outcome, which makes `FormatIsUndone`, with `UndoInv`, an
argument about the one step that reports: for each step of the cleanup, `UndoInv` says
what is still to be undone, and which flag will see to it.

**MountingProofs.** `TypeCorrect`, and two invariants. `OpenInv` is about what open
believes: from the moment it has chosen, unlocked or found its target, the target is over
the disk that is there, unless the disk or the mapper is in `moved` (`TargetLive`); what it
is about to unmount is its own or in `moved` (`OwnListed`); and what it found or put at its
mountpoint is there (`InPlace`). It rests on one lemma, `OthersMark`: whatever others change
during a command is in `moved`. From it `OpensTheDisk` and `OpensOnce`, for any number of
events and rounds. `CloseInv` is about what is stuck: a umount hangs only at a mount that
is stuck, which nobody can change before the kernel recovers; outside the closing of child
mappers the only umounts that hang are the one that close waits for and those it went on from because findmnt was silent,
whose mountpoints it does not list again; a child that was given up is never
listed again (`HungAt`, `Staged`), but its mountpoint may be, if others mounted there; and
whoever has the process ID when `Kill` runs is who had it when its start time was read again,
unless others changed it since (`Verified`). From it
`RetriesAlone`, `KillsOnlyHolder`, `DetachesIdleDisk`, and, with `OpenInv`,
`KeepsForeignMounts`. Assumed are the types of the constants and that names of different
kinds of things differ.

**RelabelProofs.** First the operators of `Fstab`, for files of any length: `FirstType` and
`EntryFound` (what is found is a line of the disk), `KeptLines` and `RelabelledLines` (of
the old file exactly the lines that are not obsolete stay, and the new line is the one left
for the disk). `Kept` is a recursive function; that it exists, and what it has
taken over after any number of lines, is shown by the least number for which it would be
otherwise (`LeastNat`), since the library's induction theorems cannot be used. Then the
inductive invariant `Inv`: what a command has read is what fstab still holds unless it is
`edited` (`AsRead`); the edit of label holds until the command ends (`Renamed`), and so does
the line at the place remount has chosen (`LineThere`); remount never unmounts its own
target (`Mounted`); and a disk that was mounted is mounted, or will be mounted again, or is
one that fstab has another filesystem for (`StillMounted`, with `again` in `Flags`). The type
invariant is inductive only together with it: that `MoveEntry` writes a line at all needs
the index to be inside the file that was read. From it `OneLineLeft`, `AgreesWithFstab`,
`KeepsMounted` and `KeepsForeignLines`; the last needs that the line remount overwrites is
the one it found, which is why edits in between are excluded. Assumed are the types of the
constants, that there is a label, and that labels, `NoLabel` and filesystems differ.

**Only model-checked:** the liveness properties (`CommandsEnd` twice, `LocksReturned`,
`ClonesEnd`), since liveness under fairness is out of the prover's reach. Every invariant
and action property that a passing run checks is also a theorem.

## Not modelled

Inventory, reports, transfer, entropy sampling, shell and documentation: they read and
print, and keep no state that another component relies on, except `id_cache`, which enters
as the device that `#N` stands for. sync is a dry run and a run of rsync with a
progress thread that only prints; diff compares what it reads.
Maintenance (defrag, scrub, fshealth) starts one program, polls it and keeps a timestamp
that is only displayed. A helper of a lock that dies alone. Python's garbage collector
releasing a lock after Ctrl-C in a confirmation (Guard releases at once). A machine that
crashes during open, label, create or format: only the mapping file and clone claim
anything about that.

## Plan

Left to do, in this order:

1. Clone as a refinement of Guard's `Write`.
2. The cleanup of format in `Formatting` as a refinement of that in `MapStore`.
