------------------------------- MODULE MapOps -------------------------------
(***************************************************************************)
(* The contents of diskmap.tsv and the mutators that diskmgr's commands    *)
(* hand to update_luks_map, as operators on a mapping.                     *)
(*                                                                         *)
(* A mapping gives a friendly name a target.  A target is a persistent     *)
(* /dev/disk/by-id link or, in a file written by an old version, a raw     *)
(* /dev node.  A name without a record has the target NoTarget.  Paths are *)
(* model values: what the properties tell apart is which device a path     *)
(* leads to and whether that device is plugged in.                         *)
(***************************************************************************)
CONSTANTS
    Names,       \* friendly names
    NoName,      \* "no old name": the command is not a rename
    Links,       \* /dev/disk/by-id paths
    RawNodes,    \* raw /dev paths left by versions before by-id targets
    NoTarget,    \* "no record"
    Devices,     \* the devices the paths lead to
    DeviceOf,    \* path -> device
    Preferred,   \* device -> the link find_persistent_path picks
    Migrated     \* device -> the link _persistent_link_for_device picks

Targets == Links \cup RawNodes

ASSUME MapConstants ==
    /\ NoName \notin Names
    /\ NoTarget \notin Targets \cup Devices
    /\ Links \cap RawNodes = {}
    /\ Targets \cap Devices = {}
    /\ DeviceOf \in [Targets -> Devices]
    /\ Preferred \in [Devices -> Links]
    /\ Migrated \in [Devices -> Links]

\* A link is picked among those whose realpath is the device.
ASSUME PicksLead == \A d \in Devices : DeviceOf[Preferred[d]] = d /\ DeviceOf[Migrated[d]] = d

Maps == [Names -> Targets \cup {NoTarget}]

Mapped(m, n) == m[n] # NoTarget

\* os.path.realpath: the device a path leads to while that device is plugged
\* in, and the path itself while the link dangles.  A device stands for its own
\* node under /dev.
Real(t, present) == IF t \in Targets /\ DeviceOf[t] \in present THEN DeviceOf[t] ELSE t

\* The names whose records lead to r.
NamesOf(m, r, present) == {n \in Names : Mapped(m, n) /\ Real(m[n], present) = r}

\* _normalize_mapping_target: the preferred link of a device that is there.
Normalised(t, present) ==
    IF Real(t, present) \in present THEN Preferred[Real(t, present)] ELSE t

-----------------------------------------------------------------------------
\* _read_map_unlocked raises on a raw record that no by-id link leads to, and
\* migrates the other raw records.
Readable(m, present) == \A n \in Names : m[n] \in RawNodes => DeviceOf[m[n]] \in present

Migrate(m) == [n \in Names |->
                 IF m[n] \in RawNodes THEN Migrated[DeviceOf[m[n]]] ELSE m[n]]

-----------------------------------------------------------------------------
(***************************************************************************)
(* The mutators.  What src holds depends on the kind: the device a #N      *)
(* stands for (map, unmapid), what open resolved its argument to           *)
(* (normalise), the device to format (format), the record a failed format  *)
(* puts back (restore).                                                    *)
(***************************************************************************)
Kinds == {"map", "unmap", "unmapid", "normalise", "format", "restore"}

Commands == [kind   : Kinds,
             name   : Names,
             old    : Names \cup {NoName},
             target : Targets,
             src    : Targets \cup Devices \cup {NoTarget},
             names  : SUBSET Names]

\* Mutant: the name conflict is only checked against the snapshot.
MapAcceptsTakenName(c, m) == c.old # NoName => Mapped(m, c.old)

\* The conflict check of apply_mapping (do_map).
MapAccepts(c, m) ==
    /\ Mapped(m, c.name) => c.name = c.old
    /\ c.old # NoName => Mapped(m, c.old)

\* Mutant: whatever leads to the device now is removed.
UnmapIdAcceptsAny(c, m, present) == TRUE

\* remove_targets (do_unmap by ID): the records that lead to the device are the
\* ones the command announced.
UnmapIdAccepts(c, m, present) == NamesOf(m, c.src, present) = c.names

\* update_target (do_open): the record is still the one that was read.
OpenAccepts(c, m) == m[c.name] = c.src

\* Mutant: format trusts the record it read before it started.
FormatAcceptsAny(c, m, present) == TRUE

\* save_mapping (do_format): a record must still lead to the formatted device.
FormatAccepts(c, m, present) == Mapped(m, c.name) => Real(m[c.name], present) = c.src

\* The mutator of command c raises no ValueError on mapping m.
Accepts(c, m, present) ==
    \/ c.kind = "map"       /\ MapAccepts(c, m)
    \/ c.kind = "unmap"     /\ Mapped(m, c.name)
    \/ c.kind = "unmapid"   /\ UnmapIdAccepts(c, m, present)
    \/ c.kind = "normalise" /\ OpenAccepts(c, m)
    \/ c.kind = "format"    /\ FormatAccepts(c, m, present)
    \/ c.kind = "restore"

\* The records a mutator deletes.
Removed(c, m, present) ==
    {n \in Names : \/ c.kind = "map" /\ n = c.old /\ n # c.name
                   \/ c.kind = "unmap" /\ n = c.name
                   \/ c.kind = "unmapid" /\ n \in NamesOf(m, c.src, present)}

\* The mapping the mutator of c returns.
Apply(c, m, present) ==
    [n \in Names |->
        IF n \in Removed(c, m, present) THEN NoTarget
        ELSE IF n # c.name \/ c.kind = "unmapid" THEN m[n]
        ELSE IF c.kind = "restore" THEN c.src
        ELSE c.target]
=============================================================================
