------------------------------- MODULE Opening -------------------------------
(***************************************************************************)
(* open <name> and open #N: wait for the disk, choose what on it is to be  *)
(* mounted, unlock it if it is LUKS (recycling a mapper left behind by a   *)
(* disk that is gone), choose the mountpoint, mount, and remove the        *)
(* duplicate mounts that an automounter makes meanwhile.  umount and mount *)
(* run without a timeout here: they hang as long as the disk does.         *)
(***************************************************************************)
EXTENDS MountTable

CONSTANT Rounds   \* how often duplicates are looked for

ASSUME RoundsAssumption == Rounds \in Nat \ {0}

VARIABLES
    named,    \* the command named a mapping, or a disk that has one
    arg,      \* the place that the mapping or the ID stands for
    dev,      \* the device that was chosen
    target,   \* what will be mounted: the device or its mapper
    spot,     \* the mountpoint that was chosen
    round     \* how often duplicates have been looked for

openLocals == <<named, arg, dev, target, spot, round>>

OpenPCs == {"wait", "classify", "mapper", "recycle", "unlock", "select", "clear",
            "recheck", "look", "extras", "override", "mount", "prune", "pruning",
            "finish", "opened"}

AnyDevice == [node |-> CHOOSE n \in Nodes : TRUE, place |-> Whole]

OpeningTypeOK ==
    /\ named \in BOOLEAN
    /\ arg \in Places
    /\ dev \in Devices
    /\ target \in Devices \cup {Name}
    /\ spot \in Mountpoints
    /\ round \in 0 .. Rounds

OpenReset ==
    /\ named' = TRUE /\ arg' = Whole /\ dev' = AnyDevice /\ target' = AnyDevice
    /\ spot' = Home /\ round' = 0

OpeningInit ==
    /\ named = TRUE /\ arg = Whole /\ dev = AnyDevice /\ target = AnyDevice
    /\ spot = Home /\ round = 0

EndOpen ==
    /\ OpenReset
    /\ pc' = "idle" /\ todo' = {} /\ moved' = {}
    /\ UNCHANGED at

Go(next) == pc' = next

OpenStart ==
    /\ pc = "idle"
    /\ named' \in BOOLEAN
    /\ arg' \in IF named' THEN {layout.mapped} ELSE Places \ {layout.mapped}
    /\ Go("wait")
    /\ UNCHANGED <<kernel, events, at, todo, moved, dev, target, spot, round>>

\* The disk was there, and running, at some moment of 60 seconds.
Ready ==
    /\ pc = "wait" /\ Plugged
    /\ dev' = Dev(arg)
    /\ moved' = {}
    /\ Go("classify")
    /\ UNCHANGED <<kernel, events, at, todo, named, arg, target, spot, round>>

NotReady == pc = "wait" /\ EndOpen /\ UNCHANGED <<kernel, events>>

-----------------------------------------------------------------------------
HasKind(p, k) == layout.payload[p] = k

\* A backup of the header below the name makes the place itself a LUKS device.
IsLuks(p) == HasKind(p, "luks") \/ (named /\ layout.header)

\* Of a disk with nothing on itself, the only partition with LUKS on it, or, if
\* there is none with LUKS, the only one with a filesystem.
Payloads(p) ==
    LET parts(k) == {c \in Places \ {Whole} : HasKind(c, k)}
    IN  IF IsLuks(p) \/ HasKind(p, "fs") THEN {p}
        ELSE IF p # Whole THEN {}
        ELSE IF parts("luks") # {} THEN parts("luks") ELSE parts("fs")

Classify ==
    /\ pc = "classify"
    /\ dev.node = node
    /\ \E p \in Payloads(arg) :
         /\ Payloads(arg) = {p}
         /\ IsLuks(p) => named
         /\ dev' = [dev EXCEPT !.place = p]
         /\ target' = IF IsLuks(p) THEN Name ELSE [dev EXCEPT !.place = p]
         /\ Go(IF IsLuks(p) THEN "mapper" ELSE "select")
    /\ UNCHANGED <<kernel, events, at, todo, moved, named, arg, spot, round>>

Unclassified ==
    /\ pc = "classify"
    /\ \/ dev.node # node
       \/ Cardinality(Payloads(arg)) # 1
       \/ ~named /\ \E p \in Payloads(arg) : IsLuks(p)
    /\ EndOpen
    /\ UNCHANGED <<kernel, events>>

-----------------------------------------------------------------------------
\* Mutant: a mapper that exists is a mapper of this disk.
StaleNever == FALSE

\* The mapper is not over the node that the mapping leads to now.
Stale == ~Plugged \/ mapper[Name] # Dev(arg)

MapperExists ==
    /\ pc = "mapper" /\ mapper[Name] # Closed /\ ~Stale
    /\ moved' = moved \ {Name, "disk"}
    /\ Go("select")
    /\ UNCHANGED <<kernel, events, at, todo, openLocals>>

MapperStale ==
    /\ pc = "mapper" /\ mapper[Name] # Closed /\ Stale
    /\ todo' = Targets(Name)
    /\ moved' = moved \ Mountpoints
    /\ Go("recycle")
    /\ UNCHANGED <<kernel, events, at, openLocals>>

NoMapper ==
    /\ pc = "mapper" /\ mapper[Name] = Closed
    /\ Go("unlock")
    /\ UNCHANGED <<kernel, events, at, todo, moved, openLocals>>

RecycleUnmount ==
    /\ pc = "recycle"
    /\ \E q \in todo :
         /\ CanUmount(q)
         /\ mounts' = Without(q)
         /\ todo' = todo \ {q}
    /\ UNCHANGED <<layout, node, mapper, proc, stalled, hung, events, pc, at, moved, openLocals>>

\* Unmounting or closing fails: the mapper stays.
NotRecycled ==
    /\ pc = "recycle"
    /\ \/ \E q \in todo : UmountFails(q)
       \/ todo = {} /\ ~CanCloseMapper(Name)
    /\ EndOpen
    /\ UNCHANGED <<kernel, events>>

Recycle ==
    /\ pc = "recycle" /\ todo = {} /\ CanCloseMapper(Name)
    /\ mapper' = [mapper EXCEPT ![Name] = Closed]
    /\ Go("unlock")
    /\ UNCHANGED <<layout, node, mounts, proc, stalled, hung, events, at, todo, moved, openLocals>>

\* With the header on the disk, or else with the one that was saved.
Unlock ==
    /\ pc = "unlock"
    /\ HasKind(dev.place, "luks") \/ layout.header
    /\ CanOpenMapper(Name, dev)
    /\ mapper' = [mapper EXCEPT ![Name] = dev]
    /\ moved' = moved \ {Name, "disk"}
    /\ Go("select")
    /\ UNCHANGED <<layout, node, mounts, proc, stalled, hung, events, at, todo, openLocals>>

\* No passphrase, a wrong one, or a device that cannot be opened.
NotUnlocked == pc = "unlock" /\ EndOpen /\ UNCHANGED <<kernel, events>>

-----------------------------------------------------------------------------
Preferred ==
    IF layout.fstab # "none" THEN FstabDir ELSE IF named THEN Home ELSE LabelDir

SelectFree ==
    /\ pc = "select"
    /\ mounts[Preferred] \in {NoMount, target}
    /\ spot' = Preferred
    /\ Go("look")
    /\ UNCHANGED <<kernel, events, at, todo, moved, named, arg, dev, target, round>>

\* Mutant: whatever is in the way is unmounted.
InTheWayOf(s) == TRUE

\* What else is mounted there may be unmounted only if its device is gone.
Displaceable(s) == ~Present(s)

SelectStale ==
    /\ pc = "select"
    /\ mounts[Preferred] \notin {NoMount, target}
    /\ Displaceable(mounts[Preferred])
    /\ spot' = Preferred
    /\ moved' = moved \ {Preferred}
    /\ Go("clear")
    /\ UNCHANGED <<kernel, events, at, todo, named, arg, dev, target, round>>

SelectBlocked ==
    /\ pc = "select"
    /\ mounts[Preferred] \notin {NoMount, target}
    /\ ~Displaceable(mounts[Preferred])
    /\ EndOpen
    /\ UNCHANGED <<kernel, events>>

Clear ==
    /\ pc = "clear" /\ CanUmount(spot)
    /\ mounts' = Without(spot)
    /\ Go("recheck")
    /\ UNCHANGED <<layout, node, mapper, proc, stalled, hung, events, at, todo, moved, openLocals>>

Cleared ==
    /\ pc = "recheck" /\ mounts[spot] = NoMount
    /\ Go("look")
    /\ UNCHANGED <<kernel, events, at, todo, moved, openLocals>>

NotCleared ==
    /\ \/ pc = "clear" /\ UmountFails(spot)
       \/ pc = "recheck" /\ mounts[spot] # NoMount
    /\ EndOpen
    /\ UNCHANGED <<kernel, events>>

-----------------------------------------------------------------------------
Look ==
    /\ pc = "look"
    /\ todo' = Targets(target) \ {spot}
    /\ moved' = moved \ Mountpoints
    /\ Go(IF Targets(target) = {} THEN "mount"
          ELSE IF spot \in Targets(target) THEN "extras" ELSE "override")
    /\ UNCHANGED <<kernel, events, at, openLocals>>

\* A mount that is in the way is removed.
UnmountListed ==
    /\ pc \in {"extras", "override", "pruning"}
    /\ \E q \in todo :
         /\ CanUmount(q)
         /\ mounts' = Without(q)
         /\ todo' = todo \ {q}
    /\ UNCHANGED <<layout, node, mapper, proc, stalled, hung, events, pc, at, moved, openLocals>>

\* One that cannot be removed does not matter, if the disk is mounted where it
\* should be.
SkipListed ==
    /\ pc \in {"extras", "pruning"}
    /\ \E q \in todo : UmountFails(q) /\ todo' = todo \ {q}
    /\ UNCHANGED <<kernel, events, pc, at, moved, openLocals>>

NotOverridden ==
    /\ pc = "override"
    /\ \E q \in todo : UmountFails(q)
    /\ EndOpen
    /\ UNCHANGED <<kernel, events>>

AllRemoved ==
    /\ pc \in {"extras", "override", "pruning"} /\ todo = {}
    /\ Go(IF pc = "override" THEN "mount" ELSE "prune")
    /\ UNCHANGED <<kernel, events, at, todo, moved, openLocals>>

\* mount <mountpoint> leaves it to fstab what is mounted.
MountSource == IF layout.fstab = "foreign" THEN Stick ELSE target

MountDevice ==
    /\ pc = "mount"
    /\ mounts[spot] = NoMount /\ Mountable(MountSource) /\ ~stalled
    /\ mounts' = [mounts EXCEPT ![spot] = MountSource]
    /\ moved' = moved \ {spot}
    /\ Go("prune")
    /\ UNCHANGED <<layout, node, mapper, proc, stalled, hung, events, at, todo, openLocals>>

\* The mountpoint may be in use (chown refuses), or the mount fails.
NotMounted == pc = "mount" /\ EndOpen /\ UNCHANGED <<kernel, events>>

\* Mutant: one round too many.
MoreRoundsByOne == round <= Rounds

MoreRounds == round < Rounds

\* Mutant: duplicates are not looked for after the mount.
PruneNothing ==
    /\ pc = "prune"
    /\ round' = 0
    /\ Go("finish")
    /\ UNCHANGED <<kernel, events, at, todo, moved, named, arg, dev, target, spot>>

PruneLook ==
    /\ pc = "prune" /\ MoreRounds
    /\ todo' = Targets(target) \ {spot}
    /\ moved' = moved \ (Mountpoints \ {spot})
    /\ round' = IF todo' = {} THEN 0 ELSE round + 1
    /\ Go(IF todo' = {} THEN "finish" ELSE "pruning")
    /\ UNCHANGED <<kernel, events, at, named, arg, dev, target, spot>>

PruneGivesUp ==
    /\ pc = "prune" /\ ~MoreRounds
    /\ Go("finish")
    /\ UNCHANGED <<kernel, events, at, todo, moved, openLocals>>

\* "Mounted.", "Already mounted at ..." or "Successfully moved mount ...".
Succeed ==
    /\ pc = "finish"
    /\ Go("opened")
    /\ UNCHANGED <<kernel, events, at, todo, moved, openLocals>>

\* Options of btrfs that cannot be set: the mount stays, the command fails.
OptionsFail == pc \in {"prune", "finish"} /\ EndOpen /\ UNCHANGED <<kernel, events>>

Opened == pc = "opened" /\ EndOpen /\ UNCHANGED <<kernel, events>>

OpenStep ==
    \/ Ready \/ NotReady \/ Classify \/ Unclassified
    \/ MapperExists \/ MapperStale \/ NoMapper
    \/ RecycleUnmount \/ NotRecycled \/ Recycle \/ Unlock \/ NotUnlocked
    \/ SelectFree \/ SelectStale \/ SelectBlocked \/ Clear \/ Cleared \/ NotCleared
    \/ Look \/ UnmountListed \/ SkipListed \/ NotOverridden \/ AllRemoved
    \/ MountDevice \/ NotMounted \/ PruneLook \/ PruneGivesUp \/ Succeed
    \/ OptionsFail \/ Opened
=============================================================================
