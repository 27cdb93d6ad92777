-------------------------------- MODULE Fstab --------------------------------
(***************************************************************************)
(* /etc/fstab as diskmgr reads and edits it: a list of lines, each with a  *)
(* specification of what to mount, a mountpoint and options.  There is no  *)
(* lock: a command reads the file, works out the new one and replaces it.  *)
(***************************************************************************)
EXTENDS Integers, Sequences, FiniteSetsExt

CONSTANTS
    Labels,     \* filesystem labels
    NoLabel,    \* a filesystem without a label
    Disk,       \* the filesystem that the commands are about
    Stick       \* a filesystem on another disk

ASSUME FstabConstants ==
    /\ Labels # {} /\ NoLabel \notin Labels
    /\ Disk # Stick
    /\ {Disk, Stick} \cap (Labels \cup {NoLabel}) = {}

Devs == {Disk, Stick}

Media(l) == [under |-> "media", name |-> l]
Mnt(l)   == [under |-> "mnt", name |-> l]
Spots    == [under : {"media", "mnt"}, name : Labels]

\* UUID=... of a device or LABEL=...; options are named after the label too.
ByUuid(d)  == [by |-> "uuid", of |-> d]
ByLabel(l) == [by |-> "label", of |-> l]
Specs   == {ByUuid(d) : d \in Devs} \cup {ByLabel(l) : l \in Labels}
Lines   == [spec : Specs, spot : Spots, opts : Labels \cup {NoLabel}]

Line(spec, spot, opts) == [spec |-> spec, spot |-> spot, opts |-> opts]

\* What a specification leads to: where two filesystems have one label, udev
\* has made the link for either.
Leads(spec, labelOf) ==
    {d \in Devs : spec = ByUuid(d) \/ (labelOf[d] # NoLabel /\ spec = ByLabel(labelOf[d]))}

\* The number of the first line of f that is one of these, or 0.
First(f, these) ==
    LET hits == {i \in DOMAIN f : f[i] \in these}
    IN  IF hits = {} THEN 0 ELSE Min(hits)

\* _find_fstab_entry_for_device: the first line that leads to the disk, or else
\* the first that has its UUID or its label; one device per label, that of the link.
EntryOf(f, labelOf, link) ==
    LET own   == {ByUuid(Disk)} \cup {ByLabel(x) : x \in {labelOf[Disk]} \ {NoLabel}}
        names == {l \in Lines : l.spec \in own}
        leads == {l \in names : l.spec = ByUuid(Disk)
                                \/ (labelOf[Stick] = labelOf[Disk] => link = Disk)}
    IN  IF First(f, leads) # 0 THEN First(f, leads) ELSE First(f, names)

-----------------------------------------------------------------------------
\* Mutant: only the options of the line are brought up to date.
MovedNowhere(f, i, l, spot, opts) == [f EXCEPT ![i] = Line(l.spec, l.spot, opts)]

\* Mutant: the line after the one that was found.
MovedNext(f, i, l, spot, opts) ==
    [f EXCEPT ![IF i < Len(f) THEN i + 1 ELSE i] = Line(l.spec, spot, opts)]

\* _update_fstab_mountpoint: line i of the file of now is replaced by the line
\* found before, at its new mountpoint.
Moved(f, i, l, spot, opts) == [f EXCEPT ![i] = Line(l.spec, spot, opts)]

\* Mutant: an older line with the UUID of the device stays.
ObsoleteByLabel(l, old, new, add) ==
    \/ old # NoLabel /\ (l.spec = ByLabel(old) \/ l.spot \in {Media(old), Mnt(old)})
    \/ add /\ (l.spec = ByLabel(new) \/ l.spot = Mnt(new))

\* Lines of _update_fstab_for_label_change that go: of the old label, and, if a
\* new line is to be added, of the new label, of the device and of its place.
Obsolete(l, old, new, add) ==
    \/ old # NoLabel /\ (l.spec = ByLabel(old) \/ l.spot \in {Media(old), Mnt(old)})
    \/ add /\ (l.spec \in {ByLabel(new), ByUuid(Disk)} \/ l.spot = Mnt(new))

\* The lines that stay, in their order.
Kept(f, old, new, add) ==
    LET upTo[i \in 0 .. Len(f)] ==
          IF i = 0 THEN <<>>
          ELSE IF Obsolete(f[i], old, new, add) THEN upTo[i - 1]
          ELSE Append(upTo[i - 1], f[i])
    IN  upTo[Len(f)]

\* Mutant: the new line is at the place of the old label.
RelabelledInPlace(f, old, new, add) ==
    Kept(f, old, new, add) \o IF add THEN <<Line(ByUuid(Disk), Mnt(old), new)>> ELSE <<>>

\* The file after a change of the label.
Relabelled(f, old, new, add) ==
    Kept(f, old, new, add) \o IF add THEN <<Line(ByUuid(Disk), Mnt(new), new)>> ELSE <<>>
=============================================================================
