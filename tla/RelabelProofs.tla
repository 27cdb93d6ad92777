----------------------------- MODULE RelabelProofs -----------------------------
(***************************************************************************)
(* Theorems about label and remount, for any labels, any file /etc/fstab   *)
(* and any number of changes by others.                                    *)
(***************************************************************************)
EXTENDS Relabel, TLAPS, WellFoundedInduction

-----------------------------------------------------------------------------
(***************************************************************************)
(* The inductive invariant.                                                *)
(***************************************************************************)
\* remount has chosen where to mount the disk.
Remounting ==
    \/ pc \in {"reread", "move", "check", "targets", "extras", "clear", "dir", "remounted"}
    \/ pc = "mount" /\ ~again

\* What the command remembers of its own doings.
Flags ==
    /\ again => spot \in Spots /\ pc \in {"umount", "admin", "read", "replace", "select", "mount", "labelled"}
    /\ pc = "select" => again
    /\ updated => pc \in {"select", "mount", "labelled"}
    /\ updated /\ pc = "mount" => again
    /\ pc # "idle" => outcome = "none"
    /\ Remounting => spot \in Spots

OwnSpecs == {ByUuid(Disk), ByLabel(labels[Disk])}

\* What it has read of fstab is what is in the file, unless someone has edited it.
AsRead ==
    /\ pc = "replace" /\ ~edited => lines = fstab
    /\ pc \in {"reread", "move"} => labels[Disk] # NoLabel /\ found.spec \in OwnSpecs /\ entry # 0
    /\ pc = "reread" /\ ~edited => entry \in DOMAIN fstab /\ fstab[entry] = found
    /\ pc = "move" => entry \in DOMAIN lines
    /\ pc = "move" /\ ~edited => lines = fstab /\ lines[entry] = found

\* The line of the disk alone is for its place.
OnlyLine ==
    \E i \in DOMAIN fstab :
        /\ fstab[i] = Line(ByUuid(Disk), Mnt(new), new)
        /\ \A j \in DOMAIN fstab \ {i} :
             fstab[j].spot # Mnt(new) /\ fstab[j].spec \notin {ByUuid(Disk), ByLabel(new)}

Renamed == pc \in {"select", "mount", "labelled"} /\ add /\ updated /\ ~edited => OnlyLine

\* fstab has a line of the disk for the place that remount has chosen.
LineThere ==
    Remounting /\ pc \notin {"reread", "move"} /\ viaFstab /\ labels[Disk] # NoLabel /\ ~edited =>
        \E i \in DOMAIN fstab : fstab[i].spot = spot /\ fstab[i].spec \in OwnSpecs

\* mount will take, or has taken, no other filesystem.
Meant == viaFstab => Uncontested(spot)

Mounted ==
    /\ pc = "extras" => spot \notin todo
    /\ pc = "extras" /\ ~disturbed => mounts[spot] = Disk
    /\ pc = "remounted" /\ ~edited /\ ~disturbed /\ Meant => mounts[spot] = Disk

\* A disk that was mounted is mounted, or will be again.
StillMounted ==
    was /\ ~disturbed =>
        /\ pc \in {"info", "write", "list", "find", "reread", "move", "check", "targets"} => Targets # {}
        /\ pc \in {"umount", "admin"} => again
        /\ pc \in {"read", "replace"} => again \/ Targets # {}
        /\ pc = "labelled" => \/ Targets # {}
                              \/ again /\ (edited \/ ~Meant)

Inv == Flags /\ AsRead /\ Renamed /\ LineThere /\ Mounted /\ StillMounted

-----------------------------------------------------------------------------
(***************************************************************************)
(* Lemmas about the edits of fstab.                                        *)
(***************************************************************************)
\* Every set of numbers has a least one.
LEMMA LeastNat ==
  ASSUME NEW S \in SUBSET Nat, S # {}
  PROVE  \E m \in S : \A k \in S : m <= k
<1>1. IsWellFoundedOn(OpToRel(<, Nat), Nat)
  BY NatLessThanWellFounded
<1>2. PICK m \in S : \A k \in S : <<k, m>> \notin OpToRel(<, Nat)
  BY <1>1, WFMin
<1>3. \A k \in S : ~(k < m)
  BY <1>2, Zenon DEF OpToRel
<1>. QED  BY <1>3

\* First is one of the lines asked for.
LEMMA FirstType ==
  ASSUME NEW f \in Seq(Lines), NEW these, First(f, these) # 0
  PROVE  First(f, these) \in DOMAIN f /\ f[First(f, these)] \in these
<1>. DEFINE hits == {i \in DOMAIN f : f[i] \in these}
<1>1. hits # {} /\ First(f, these) = Min(hits)
  BY DEF First
<1>2. hits \in SUBSET Nat
  OBVIOUS
<1>3. \E m \in hits : \A k \in hits : m <= k
  BY <1>1, <1>2, LeastNat
<1>4. Min(hits) \in hits
  BY <1>3 DEF Min
<1>. QED  BY <1>1, <1>4

\* What is in a list with a line more.
LEMMA Elements ==
  ASSUME NEW s \in Seq(Lines), NEW e \in Lines
  PROVE  /\ Append(s, e) \in Seq(Lines)
         /\ \A x : (\E k \in DOMAIN Append(s, e) : Append(s, e)[k] = x) <=> (x = e \/ \E k \in DOMAIN s : s[k] = x)
<1>1. Append(s, e) \in Seq(Lines) /\ DOMAIN Append(s, e) = 1 .. Len(s) + 1 /\ DOMAIN s = 1 .. Len(s)
      /\ Len(s) \in Nat
  OBVIOUS
<1>2. \A k \in 1 .. Len(s) : Append(s, e)[k] = s[k]
  OBVIOUS
<1>3. Append(s, e)[Len(s) + 1] = e
  OBVIOUS
<1>. QED  BY <1>1, <1>2, <1>3

\* The walk over the lines of f: what has been kept of the first n.
Walks(w, n, f, from, to, plus) ==
  /\ w \in [0 .. n -> Seq(Lines)] /\ w[0] = <<>>
  /\ \A i \in 1 .. n :
       w[i] = IF Obsolete(f[i], from, to, plus) THEN w[i - 1] ELSE Append(w[i - 1], f[i])

\* There is such a walk over any file.
LEMMA WalkExists ==
  ASSUME NEW f \in Seq(Lines), NEW from, NEW to, NEW plus
  PROVE  \E w : Walks(w, Len(f), f, from, to, plus)
<1>. DEFINE Bad == {n \in 0 .. Len(f) : ~\E w : Walks(w, n, f, from, to, plus)}
<1>0. Len(f) \in Nat /\ Bad \in SUBSET Nat
  OBVIOUS
<1>1. SUFFICES ASSUME Bad # {} PROVE FALSE
  BY <1>0
<1>2. PICK n \in Bad : \A k \in Bad : n <= k
  <2>. HIDE DEF Bad
  <2>. QED  BY <1>0, <1>1, LeastNat
<1>3. CASE n = 0
  <2>1. Walks([i \in 0 .. 0 |-> <<>>], 0, f, from, to, plus)
    BY DEF Walks
  <2>. QED  BY <1>3, <2>1
<1>4. CASE n # 0
  <2>1. n \in Nat /\ n - 1 \in 0 .. Len(f) /\ n - 1 \notin Bad
    <3>1. n \in 0 .. Len(f)
      BY <1>2
    <3>2. n - 1 \in 0 .. Len(f) /\ ~(n <= n - 1) /\ n \in Nat
      BY <1>0, <1>4, <3>1
    <3>. HIDE DEF Bad
    <3>. QED  BY <1>2, <3>2
  <2>2. PICK w : Walks(w, n - 1, f, from, to, plus)
    BY <2>1
  <2>3. f[n] \in Lines /\ w[n - 1] \in Seq(Lines)
    BY <1>4, <2>1, <2>2 DEF Walks
  <2>. DEFINE last == IF Obsolete(f[n], from, to, plus) THEN w[n - 1] ELSE Append(w[n - 1], f[n])
              v == [i \in 0 .. n |-> IF i = n THEN last ELSE w[i]]
  <2>4. last \in Seq(Lines)
    BY <2>3
  <2>5. v \in [0 .. n -> Seq(Lines)]
    <3>. HIDE DEF last
    <3>. QED  BY <2>1, <2>2, <2>4 DEF Walks
  <2>6. v[0] = <<>>
    BY <1>4, <2>1, <2>2 DEF Walks
  <2>7. \A i \in 1 .. n :
          v[i] = IF Obsolete(f[i], from, to, plus) THEN v[i - 1] ELSE Append(v[i - 1], f[i])
    <3>1. v[n] = last /\ \A i \in 0 .. n - 1 : v[i] = w[i]
      BY <2>1
    <3>. HIDE DEF v
    <3>2. ASSUME NEW i \in 1 .. n, i # n
          PROVE  v[i] = IF Obsolete(f[i], from, to, plus) THEN v[i - 1] ELSE Append(v[i - 1], f[i])
      <4>1. i \in 1 .. n - 1 /\ i \in 0 .. n - 1 /\ i - 1 \in 0 .. n - 1
        BY <2>1, <3>2
      <4>2. w[i] = IF Obsolete(f[i], from, to, plus) THEN w[i - 1] ELSE Append(w[i - 1], f[i])
        BY <2>2, <4>1 DEF Walks
      <4>3. v[i] = w[i] /\ v[i - 1] = w[i - 1]
        BY <3>1, <4>1
      <4>. QED  BY <4>2, <4>3
    <3>3. v[n - 1] = w[n - 1]
      BY <1>4, <2>1, <3>1
    <3>. QED  BY <3>1, <3>2, <3>3
  <2>8. Walks(v, n, f, from, to, plus)
    BY <2>5, <2>6, <2>7 DEF Walks
  <2>. QED  BY <2>8
<1>. QED  BY <1>3, <1>4

\* What the definition of Kept says of its function.
Unfolds(g, f, from, to, plus) ==
  g = [i \in 0 .. Len(f) |-> IF i = 0 THEN <<>>
                             ELSE IF Obsolete(f[i], from, to, plus) THEN g[i - 1]
                             ELSE Append(g[i - 1], f[i])]

\* A function that satisfies the recursive equation is a walk over the file.
LEMMA UnfoldedWalks ==
  ASSUME NEW f \in Seq(Lines), NEW from, NEW to, NEW plus, NEW g, Unfolds(g, f, from, to, plus)
  PROVE  Walks(g, Len(f), f, from, to, plus)
<1>. DEFINE Bad == {i \in 0 .. Len(f) : g[i] \notin Seq(Lines)}
<1>0. Len(f) \in Nat /\ Bad \in SUBSET Nat
  OBVIOUS
<1>1. g[0] = <<>> /\ \A i \in 1 .. Len(f) :
        g[i] = IF Obsolete(f[i], from, to, plus) THEN g[i - 1] ELSE Append(g[i - 1], f[i])
  <2>1. \A i \in 0 .. Len(f) : g[i] = IF i = 0 THEN <<>>
                                       ELSE IF Obsolete(f[i], from, to, plus) THEN g[i - 1]
                                       ELSE Append(g[i - 1], f[i])
    BY Zenon DEF Unfolds
  <2>2. 0 \in 0 .. Len(f) /\ \A i \in 1 .. Len(f) : i \in 0 .. Len(f) /\ i # 0
    BY <1>0
  <2>. QED  BY <2>1, <2>2
<1>2. Bad = {}
  <2>1. SUFFICES ASSUME Bad # {} PROVE FALSE
    OBVIOUS
  <2>2. PICK n \in Bad : \A k \in Bad : n <= k
    <3>. HIDE DEF Bad
    <3>. QED  BY <1>0, <2>1, LeastNat
  <2>a. n \in 0 .. Len(f) /\ g[n] \notin Seq(Lines)
    BY <2>2
  <2>b. <<>> \in Seq(Lines)
    OBVIOUS
  <2>3. n \in 0 .. Len(f) /\ n # 0 /\ g[n] \notin Seq(Lines)
    BY <1>1, <2>a, <2>b
  <2>4. n - 1 \in 0 .. Len(f) /\ n \in 1 .. Len(f) /\ ~(n <= n - 1)
    BY <1>0, <2>3
  <2>5. n - 1 \notin Bad
    <3>. HIDE DEF Bad
    <3>. QED  BY <2>2, <2>4
  <2>6. g[n - 1] \in Seq(Lines) /\ f[n] \in Lines
    BY <2>4, <2>5
  <2>7. Append(g[n - 1], f[n]) \in Seq(Lines)
    BY <2>6
  <2>. QED  BY <1>1, <2>3, <2>4, <2>6, <2>7
<1>3. \A i \in 0 .. Len(f) : g[i] \in Seq(Lines)
  BY <1>2
<1>4. g = [i \in 0 .. Len(f) |-> g[i]]
  BY Zenon DEF Unfolds
<1>5. g \in [0 .. Len(f) -> Seq(Lines)]
  BY <1>3, <1>4
<1>. QED  BY <1>1, <1>5 DEF Walks

\* Kept is where that walk ends.
LEMMA KeptWalk ==
  ASSUME NEW f \in Seq(Lines), NEW from, NEW to, NEW plus
  PROVE  \E w : Walks(w, Len(f), f, from, to, plus) /\ Kept(f, from, to, plus) = w[Len(f)]
<1>. DEFINE upTo[i \in 0 .. Len(f)] ==
       IF i = 0 THEN <<>>
       ELSE IF Obsolete(f[i], from, to, plus) THEN upTo[i - 1]
       ELSE Append(upTo[i - 1], f[i])
<1>1. Kept(f, from, to, plus) = upTo[Len(f)]
  BY DEF Kept
<1>2. PICK w : Walks(w, Len(f), f, from, to, plus)
  BY WalkExists
<1>3. w = [i \in 0 .. Len(f) |-> IF i = 0 THEN <<>>
                                 ELSE IF Obsolete(f[i], from, to, plus) THEN w[i - 1]
                                 ELSE Append(w[i - 1], f[i])]
  <2>1. \A i \in 0 .. Len(f) : i = 0 \/ i \in 1 .. Len(f)
    OBVIOUS
  <2>2. \A i \in 0 .. Len(f) : w[i] = IF i = 0 THEN <<>>
                                 ELSE IF Obsolete(f[i], from, to, plus) THEN w[i - 1]
                                 ELSE Append(w[i - 1], f[i])
    BY <1>2, <2>1 DEF Walks
  <2>3. w = [i \in 0 .. Len(f) |-> w[i]]
    BY <1>2 DEF Walks
  <2>. QED  BY <2>2, <2>3, Zenon
<1>4. upTo = [i \in 0 .. Len(f) |-> IF i = 0 THEN <<>>
                                 ELSE IF Obsolete(f[i], from, to, plus) THEN upTo[i - 1]
                                 ELSE Append(upTo[i - 1], f[i])]
  BY <1>3, Zenon
<1>5. Walks(upTo, Len(f), f, from, to, plus)
  <2>. HIDE DEF upTo
  <2>. QED  BY <1>4, UnfoldedWalks DEF Unfolds
<1>. QED  BY <1>1, <1>5, Zenon

\* Kept has the lines that are not obsolete, and no others.
LEMMA KeptLines ==
  ASSUME NEW f \in Seq(Lines), NEW from, NEW to, NEW plus
  PROVE  /\ Kept(f, from, to, plus) \in Seq(Lines)
         /\ \A l : (\E k \in DOMAIN Kept(f, from, to, plus) : Kept(f, from, to, plus)[k] = l)
                     <=> (\E j \in DOMAIN f : f[j] = l /\ ~Obsolete(l, from, to, plus))
<1>1. PICK w : Walks(w, Len(f), f, from, to, plus) /\ Kept(f, from, to, plus) = w[Len(f)]
  BY KeptWalk
<1>. DEFINE Has(i, l) == \E k \in DOMAIN w[i] : w[i][k] = l
            Good(i, l) == \E j \in 1 .. i : f[j] = l /\ ~Obsolete(l, from, to, plus)
            Bad == {i \in 0 .. Len(f) : ~\A l : Has(i, l) <=> Good(i, l)}
<1>0. Len(f) \in Nat /\ Bad \in SUBSET Nat
  OBVIOUS
<1>2. Bad = {}
  <2>1. SUFFICES ASSUME Bad # {} PROVE FALSE
    OBVIOUS
  <2>2. PICK n \in Bad : \A k \in Bad : n <= k
    <3>. HIDE DEF Bad
    <3>. QED  BY <1>0, <2>1, LeastNat
  <2>3. CASE n = 0
    <3>1. \A l : ~Has(0, l) /\ ~Good(0, l)
      BY <1>1 DEF Walks
    <3>. QED  BY <2>3, <3>1
  <2>4. CASE n # 0
    <3>1. n \in 1 .. Len(f) /\ n - 1 \in 0 .. Len(f) /\ n - 1 \notin Bad
      <4>1. n \in 0 .. Len(f)
        BY <2>2
      <4>2. n \in 1 .. Len(f) /\ n - 1 \in 0 .. Len(f) /\ ~(n <= n - 1)
        BY <1>0, <2>4, <4>1
      <4>. HIDE DEF Bad
      <4>. QED  BY <2>2, <4>2
    <3>2. \A l : Has(n - 1, l) <=> Good(n - 1, l)
      BY <3>1
    <3>3. f[n] \in Lines /\ w[n - 1] \in Seq(Lines)
      BY <1>1, <3>1 DEF Walks
    <3>4. w[n] = IF Obsolete(f[n], from, to, plus) THEN w[n - 1] ELSE Append(w[n - 1], f[n])
      BY <1>1, <3>1 DEF Walks
    <3>5. \A l : Has(n, l) <=> (Has(n - 1, l) \/ (l = f[n] /\ ~Obsolete(l, from, to, plus)))
      <4>1. CASE Obsolete(f[n], from, to, plus)
        BY <3>4, <4>1
      <4>2. CASE ~Obsolete(f[n], from, to, plus)
        <5>1. w[n] = Append(w[n - 1], f[n])
          BY <3>4, <4>2
        <5>2. \A l : (\E k \in DOMAIN Append(w[n - 1], f[n]) : Append(w[n - 1], f[n])[k] = l)
                       <=> (l = f[n] \/ Has(n - 1, l))
          BY <3>3, Elements
        <5>. QED  BY <4>2, <5>1, <5>2, Zenon
      <4>. QED  BY <4>1, <4>2
    <3>6. \A l : Good(n, l) <=> (Good(n - 1, l) \/ (l = f[n] /\ ~Obsolete(l, from, to, plus)))
      <4>1. \A j \in 1 .. n : j = n \/ j \in 1 .. n - 1
        BY <3>1
      <4>2. \A j \in 1 .. n - 1 : j \in 1 .. n
        BY <3>1
      <4>. QED  BY <3>1, <4>1, <4>2
    <3>7. \A l : Has(n, l) <=> Good(n, l)
      <4>. HIDE DEF Has, Good
      <4>. QED  BY <3>2, <3>5, <3>6
    <3>. QED  BY <2>2, <3>7
  <2>. QED  BY <2>3, <2>4
<1>3. Len(f) \in 0 .. Len(f) /\ DOMAIN f = 1 .. Len(f)
  BY <1>0
<1>4. \A l : Has(Len(f), l) <=> Good(Len(f), l)
  BY <1>2, <1>3
<1>. QED  BY <1>1, <1>3, <1>4 DEF Walks

\* The file after a change of the label has the lines kept, and the new one.
LEMMA RelabelledLines ==
  ASSUME NEW f \in Seq(Lines), NEW o \in Labels \cup {NoLabel}, NEW n \in Labels, NEW a \in BOOLEAN
  PROVE  /\ Relabelled(f, o, n, a) \in Seq(Lines)
         /\ \A l : (\E i \in DOMAIN f : f[i] = l) /\ ~Obsolete(l, o, n, a) =>
              \E j \in DOMAIN Relabelled(f, o, n, a) : Relabelled(f, o, n, a)[j] = l
         /\ a => \E i \in DOMAIN Relabelled(f, o, n, a) :
                   /\ Relabelled(f, o, n, a)[i] = Line(ByUuid(Disk), Mnt(n), n)
                   /\ \A j \in DOMAIN Relabelled(f, o, n, a) \ {i} :
                        ~Obsolete(Relabelled(f, o, n, a)[j], o, n, a)
<1>. DEFINE K == Kept(f, o, n, a)
            L == Line(ByUuid(Disk), Mnt(n), n)
            R == Relabelled(f, o, n, a)
<1>1. K \in Seq(Lines) /\ \A l : (\E k \in DOMAIN K : K[k] = l)
                                    <=> (\E j \in DOMAIN f : f[j] = l /\ ~Obsolete(l, o, n, a))
  BY KeptLines
<1>2. L \in Lines
  BY DEF Line, Lines, Specs, ByUuid, Devs, Mnt, Spots
<1>3. R = K \o IF a THEN <<L>> ELSE <<>>
  BY Zenon DEF Relabelled
<1>. HIDE DEF K, L, R
<1>4. CASE ~a
  <2>1. R = K
    BY <1>1, <1>3, <1>4
  <2>. QED  BY <1>1, <1>4, <2>1 DEF R
<1>5. CASE a
  <2>1. R = K \o <<L>>
    BY <1>3, <1>5
  <2>2. /\ R \in Seq(Lines) /\ Len(K) \in Nat /\ Len(R) = Len(K) + 1 /\ R[Len(K) + 1] = L
        /\ \A k \in 1 .. Len(K) : R[k] = K[k]
    BY <1>1, <1>2, <2>1
  <2>3. DOMAIN K = 1 .. Len(K) /\ DOMAIN R = 1 .. Len(K) + 1
    BY <1>1, <2>2
  <2>4. \A k \in DOMAIN R \ {Len(K) + 1} : k \in DOMAIN K /\ R[k] = K[k]
    BY <2>2, <2>3
  <2>5. \A k \in DOMAIN K : k \in DOMAIN R /\ R[k] = K[k]
    BY <2>2, <2>3
  <2>6. Len(K) + 1 \in DOMAIN R
    BY <2>2, <2>3
  <2>7. \A l : (\E i \in DOMAIN f : f[i] = l) /\ ~Obsolete(l, o, n, a) =>
          \E j \in DOMAIN R : R[j] = l
    BY <1>1, <2>5
  <2>8. \A j \in DOMAIN R \ {Len(K) + 1} : ~Obsolete(R[j], o, n, a)
    BY <1>1, <2>4
  <2>. QED  BY <2>2, <2>6, <2>7, <2>8 DEF R, L
<1>. QED  BY <1>4, <1>5

\* What the assumptions say of the constants.
LEMMA Constants ==
  /\ SomeLabel \in Labels /\ SomeSpot \in Spots /\ NoLine \in Lines
  /\ NoMount \notin Devs /\ NoMount \notin Spots /\ NoLabel \notin Labels /\ MaxEvents \in Nat
  /\ Disk # Stick /\ Disk \in Devs /\ Stick \in Devs
  /\ \A l \in Labels : Media(l) \in Spots /\ Mnt(l) \in Spots
<1>1. \A l \in Labels : Media(l) \in Spots /\ Mnt(l) \in Spots
  BY DEF Media, Mnt, Spots
<1>2. SomeLabel \in Labels
  BY FstabConstants DEF SomeLabel
<1>3. SomeSpot \in Spots
  BY <1>1, <1>2 DEF SomeSpot
<1>4. NoLine \in Lines
  BY <1>3 DEF NoLine, Line, Lines, Specs, ByUuid, Devs
<1>. QED  BY <1>1, <1>2, <1>3, <1>4, FstabConstants, RelabelConstants DEF Devs

\* The line that is found is a line of the disk.
LEMMA EntryFound ==
  ASSUME TypeOK, NEW link \in Devs, EntryOf(fstab, labels, link) # 0
  PROVE  /\ EntryOf(fstab, labels, link) \in DOMAIN fstab /\ EntryOf(fstab, labels, link) \in Nat \ {0}
         /\ fstab[EntryOf(fstab, labels, link)] \in Lines
         /\ fstab[EntryOf(fstab, labels, link)].spec \in OwnSpecs
<1>. DEFINE own == {ByUuid(Disk)} \cup {ByLabel(x) : x \in {labels[Disk]} \ {NoLabel}}
            names == {l \in Lines : l.spec \in own}
            leads == {l \in names : l.spec = ByUuid(Disk) \/ (labels[Stick] = labels[Disk] => link = Disk)}
            i == EntryOf(fstab, labels, link)
<1>1. i = IF First(fstab, leads) # 0 THEN First(fstab, leads) ELSE First(fstab, names)
  BY DEF EntryOf
<1>2. fstab \in Seq(Lines)
  BY DEF TypeOK
<1>3. \A l \in names : l \in Lines /\ l.spec \in OwnSpecs
  BY DEF OwnSpecs
<1>4. leads \subseteq names
  OBVIOUS
<1>. HIDE DEF i, own, names, leads
<1>5. i \in DOMAIN fstab /\ fstab[i] \in names
  <2>1. CASE First(fstab, leads) # 0
    BY <1>1, <1>2, <1>4, <2>1, FirstType
  <2>2. CASE First(fstab, leads) = 0
    <3>1. i = First(fstab, names) /\ i # 0
      BY <1>1, <2>2 DEF i
    <3>. QED  BY <1>2, <3>1, FirstType
  <2>. QED  BY <2>1, <2>2
<1>6. DOMAIN fstab = 1 .. Len(fstab) /\ Len(fstab) \in Nat
  BY <1>2
<1>7. i \in Nat \ {0}
  BY <1>5, <1>6
<1>. QED  BY <1>3, <1>5, <1>7 DEF i

-----------------------------------------------------------------------------
(***************************************************************************)
(* Types.                                                                  *)
(***************************************************************************)
WorldOK ==
  /\ fs \in {"ext4", "xfs", "other"}
  /\ labels \in [Devs -> Labels \cup {NoLabel}]
  /\ fstab \in Seq(Lines)
  /\ mounts \in [Spots -> Devs \cup {NoMount}]
  /\ full \subseteq Spots
  /\ open \in BOOLEAN /\ edited \in BOOLEAN /\ disturbed \in BOOLEAN
  /\ events \in 0 .. MaxEvents

LocalsOK ==
  /\ lines \in Seq(Lines)
  /\ pc \in {"idle", "mount"} \cup LabelPCs \cup RemountPCs
  /\ new \in Labels /\ old \in Labels \cup {NoLabel}
  /\ entry \in Nat /\ found \in Lines
  /\ spot \in Spots \cup {NoMount}
  /\ todo \subseteq Spots
  /\ add \in BOOLEAN /\ updated \in BOOLEAN /\ viaFstab \in BOOLEAN
  /\ again \in BOOLEAN /\ was \in BOOLEAN
  /\ outcome \in {"none", "done", "refused", "full", "failed"}

\* TypeOK is about the machine and about the command in progress.
LEMMA TypeParts ==
  /\ TypeOK <=> WorldOK /\ LocalsOK
  /\ TypeOK' <=> WorldOK' /\ LocalsOK'
BY DEF TypeOK, WorldOK, LocalsOK

\* A machine that has not changed is well typed.
LEMMA SameWorld == WorldOK /\ UNCHANGED world => WorldOK'
BY DEF WorldOK, world

\* So is a command that has only gone on to its next step.
LEMMA SameLocals ==
  LocalsOK /\ UNCHANGED <<locals, history>> /\ pc' \in {"idle", "mount"} \cup LabelPCs \cup RemountPCs => LocalsOK'
BY DEF LocalsOK, locals, history

\* And one that has ended.
LEMMA EndTypes ==
  ASSUME NEW how \in {"none", "done", "refused", "full", "failed"}, End(how)
  PROVE  LocalsOK'
<1>1. <<>> \in Seq(Lines) /\ {} \subseteq Spots /\ 0 \in Nat
  OBVIOUS
<1>. QED  BY <1>1, Constants DEF End, LocalsOK

\* A command step that leaves the world as it is.
LEMMA QuietTypes ==
  ASSUME TypeOK,
         \/ Inspect \/ Unsupported \/ ListForLabel \/ FstabFails \/ SelectForLabel \/ Labelled
         \/ NoPlaceFor \/ Reread \/ CheckSpot \/ ListForRemount \/ CheckDirectory \/ Remounted
         \/ AllUnmounted \/ GiveUp
  PROVE  TypeOK'
<1>0. WorldOK /\ LocalsOK
  BY TypeParts
<1>1. UNCHANGED world
  BY Zenon DEF Inspect, Unsupported, ListForLabel, FstabFails, SelectForLabel, Labelled, NoPlaceFor, Reread,
     CheckSpot, ListForRemount, CheckDirectory, Remounted, AllUnmounted, GiveUp, Fail
<1>2. WorldOK'
  BY <1>0, <1>1, SameWorld
<1>3. ASSUME Unsupported \/ Labelled \/ NoPlaceFor \/ Remounted \/ GiveUp
      PROVE  LocalsOK'
  <2>1. \E how \in {"done", "refused", "failed"} : End(how)
    BY <1>3 DEF Unsupported, Labelled, NoPlaceFor, Remounted, GiveUp, Fail
  <2>. QED  BY <2>1, EndTypes
<1>4. ASSUME FstabFails \/ AllUnmounted PROVE LocalsOK'
  <2>1. UNCHANGED <<locals, history>>
    BY <1>4, Zenon DEF FstabFails, AllUnmounted
  <2>2. pc' \in {"select", "labelled", "admin", "remounted", "dir"}
    BY <1>4 DEF FstabFails, AllUnmounted, AfterFstab
  <2>. QED  BY <1>0, <2>1, <2>2, SameLocals DEF LabelPCs, RemountPCs
<1>5. ASSUME Reread PROVE LocalsOK'
  <2>1. CASE End("refused")
    BY <2>1, EndTypes
  <2>2. CASE /\ lines' = fstab /\ pc' = "move"
             /\ UNCHANGED <<new, add, old, updated, entry, found, spot, viaFstab, todo, again, history>>
    BY <1>0, <2>2 DEF LocalsOK, WorldOK, history, LabelPCs, RemountPCs
  <2>. QED  BY <1>5, <2>1, <2>2 DEF Reread
<1>6. ASSUME CheckSpot \/ CheckDirectory PROVE LocalsOK'
  <2>1. CASE \E how \in {"full", "refused"} : End(how)
    BY <2>1, EndTypes
  <2>2. CASE pc' \in {"targets", "mount"} /\ UNCHANGED <<locals, history>>
    BY <1>0, <2>2, SameLocals DEF LabelPCs, RemountPCs
  <2>. QED  BY <1>6, <2>1, <2>2 DEF CheckSpot, CheckDirectory
<1>7. ASSUME Inspect PROVE LocalsOK'
  <2>1. old' \in Labels \cup {NoLabel}
    BY <1>0, <1>7, Constants DEF Inspect, WorldOK
  <2>2. spot' \in Spots \cup {NoMount}
    BY <1>7 DEF Inspect, Targets
  <2>3. pc' \in {"read", "labelled", "write", "list"}
    BY <1>7 DEF Inspect
  <2>4. UNCHANGED <<new, add, updated, lines, entry, found, viaFstab, todo, again, history>>
    BY <1>7, Zenon DEF Inspect
  <2>. QED  BY <1>0, <2>1, <2>2, <2>3, <2>4 DEF LocalsOK, history, LabelPCs
<1>8. ASSUME ListForLabel PROVE LocalsOK'
  <2>1. todo' \subseteq Spots /\ again' \in BOOLEAN /\ spot' \in Spots \cup {NoMount} /\ pc' = "umount"
    BY <1>0, <1>8 DEF ListForLabel, Targets, LocalsOK
  <2>2. UNCHANGED <<new, add, old, updated, lines, entry, found, viaFstab, history>>
    BY <1>8, Zenon DEF ListForLabel
  <2>. QED  BY <1>0, <2>1, <2>2 DEF LocalsOK, history, LabelPCs
<1>9. ASSUME SelectForLabel PROVE LocalsOK'
  <2>1. PICK link \in Devs :
          /\ viaFstab' = (EntryOf(fstab, labels, link) # 0)
          /\ spot' = IF EntryOf(fstab, labels, link) # 0
                     THEN fstab[EntryOf(fstab, labels, link)].spot ELSE spot
    BY <1>9 DEF SelectForLabel
  <2>2. spot' \in Spots \cup {NoMount}
    <3>1. CASE EntryOf(fstab, labels, link) # 0
      BY <2>1, <3>1, EntryFound DEF Lines
    <3>2. CASE EntryOf(fstab, labels, link) = 0
      BY <1>0, <2>1, <3>2 DEF LocalsOK
    <3>. QED  BY <3>1, <3>2
  <2>3. viaFstab' \in BOOLEAN
    BY <2>1
  <2>4. pc' = "mount" /\ UNCHANGED <<new, add, old, updated, lines, entry, found, todo, again, history>>
    BY <1>9, Zenon DEF SelectForLabel
  <2>. QED  BY <1>0, <2>2, <2>3, <2>4 DEF LocalsOK, history
<1>10. ASSUME ListForRemount PROVE LocalsOK'
  <2>1. todo' \subseteq Spots /\ pc' \in {"remounted", "extras", "clear"}
    BY <1>10 DEF ListForRemount, Targets
  <2>2. UNCHANGED <<new, add, old, updated, lines, entry, found, spot, viaFstab, again, history>>
    BY <1>10, Zenon DEF ListForRemount
  <2>. QED  BY <1>0, <2>1, <2>2 DEF LocalsOK, history, RemountPCs
<1>11. LocalsOK'
  BY <1>3, <1>4, <1>5, <1>6, <1>7, <1>8, <1>9, <1>10
<1>. QED  BY <1>2, <1>11, TypeParts

\* The steps that change the world.
LEMMA TypeStep ==
  ASSUME TypeOK, Flags, AsRead, Next
  PROVE  TypeOK'
<1>0. WorldOK /\ LocalsOK
  BY TypeParts
<1>1. CASE LabelStart \/ RemountStart
  <2>1. Begin
    BY <1>1 DEF LabelStart, RemountStart
  <2>2. WorldOK'
    BY <1>0, <2>1 DEF Begin, WorldOK
  <2>3. was' \in BOOLEAN /\ outcome' = "none"
    BY <2>1 DEF Begin
  <2>4. new' \in Labels /\ add' \in BOOLEAN /\ pc' \in {"info", "find"}
    BY <1>0, <1>1 DEF LabelStart, RemountStart, LocalsOK, locals
  <2>5. UNCHANGED <<old, updated, lines, entry, found, spot, viaFstab, todo, again>>
    BY <1>1, Zenon DEF LabelStart, RemountStart, locals
  <2>6. LocalsOK'
    BY <1>0, <2>3, <2>4, <2>5 DEF LocalsOK, LabelPCs, RemountPCs
  <2>. QED  BY <2>2, <2>6, TypeParts
<1>2. CASE NotOpen
  <2>1. UNCHANGED world /\ UNCHANGED <<pc, locals>> /\ outcome' = "refused" /\ was' = FALSE
    BY <1>2, Zenon DEF NotOpen
  <2>2. LocalsOK'
    BY <1>0, <2>1 DEF LocalsOK, locals
  <2>. QED  BY <1>0, <2>1, <2>2, SameWorld, TypeParts
<1>3. CASE ReadForLabel \/ Find
  <2>1. WorldOK'
    <3>1. edited' = FALSE /\ UNCHANGED <<fs, labels, fstab, mounts, full, open, events, disturbed>>
      BY <1>3, Zenon DEF ReadForLabel, Find
    <3>. QED  BY <1>0, <3>1 DEF WorldOK
  <2>2. CASE ReadForLabel
    <3>1. /\ lines' = fstab /\ pc' = "replace"
          /\ UNCHANGED <<new, add, old, updated, entry, found, spot, viaFstab, todo, again, history>>
      BY <2>2, Zenon DEF ReadForLabel
    <3>2. LocalsOK'
      BY <1>0, <3>1 DEF LocalsOK, WorldOK, history, LabelPCs
    <3>. QED  BY <2>1, <3>2, TypeParts
  <2>3. CASE Find
    <3>1. PICK link \in Devs :
            LET i == EntryOf(fstab, labels, link)
                l == labels[Disk]
            IN  /\ i # 0 \/ l # NoLabel
                /\ viaFstab' = (i # 0)
                /\ entry' = i
                /\ found' = IF i # 0 THEN fstab[i] ELSE found
                /\ spot' = IF i = 0 THEN Media(l) ELSE IF l = NoLabel THEN fstab[i].spot ELSE Mnt(l)
                /\ pc' = IF i # 0 /\ l # NoLabel /\ (fstab[i].spot # Mnt(l) \/ fstab[i].opts # l)
                         THEN "reread" ELSE "check"
      BY <2>3 DEF Find
    <3>. DEFINE i == EntryOf(fstab, labels, link)
    <3>2. i # 0 => i \in Nat /\ fstab[i] \in Lines /\ fstab[i].spot \in Spots
      BY EntryFound DEF Lines
    <3>3. labels[Disk] \in Labels \cup {NoLabel}
      BY <1>0, Constants DEF WorldOK
    <3>. HIDE DEF i
    <3>4. entry' \in Nat /\ found' \in Lines /\ viaFstab' \in BOOLEAN /\ pc' \in {"reread", "check"}
      BY <1>0, <3>1, <3>2 DEF LocalsOK, i
    <3>5. spot' \in Spots
      BY <3>1, <3>2, <3>3, Constants DEF i
    <3>6. UNCHANGED <<new, add, old, updated, lines, todo, again, history>>
      BY <2>3, Zenon DEF Find
    <3>7. LocalsOK'
      BY <1>0, <3>4, <3>5, <3>6 DEF LocalsOK, history, RemountPCs
    <3>. QED  BY <2>1, <3>7, TypeParts
  <2>. QED  BY <1>3, <2>2, <2>3
<1>4. CASE WriteLabel
  <2>1. labels' = [labels EXCEPT ![Disk] = new] /\ UNCHANGED <<fs, fstab, mounts, full, open, events, edited, disturbed>>
    BY <1>4, Zenon DEF WriteLabel
  <2>2. WorldOK'
    BY <1>0, <2>1 DEF WorldOK, LocalsOK
  <2>3. CASE pc' = "read" /\ UNCHANGED <<locals, history>>
    <3>1. LocalsOK'
      BY <1>0, <2>3, SameLocals DEF LabelPCs
    <3>. QED  BY <2>2, <3>1, TypeParts
  <2>4. CASE End("failed")
    BY <2>2, <2>4, EndTypes, TypeParts
  <2>. QED  BY <1>4, <2>3, <2>4 DEF WriteLabel
<1>5. CASE ReplaceForLabel
  <2>1. fstab' \in Seq(Lines)
    <3>1. Relabelled(lines, old, new, add) \in Seq(Lines)
      BY <1>0, RelabelledLines DEF LocalsOK
    <3>. QED  BY <1>0, <1>5, <3>1 DEF ReplaceForLabel, WorldOK
  <2>2. updated' = TRUE /\ pc' \in {"select", "labelled"}
    BY <1>5 DEF ReplaceForLabel, AfterFstab
  <2>3. UNCHANGED <<fs, labels, mounts, full, open, events, edited, disturbed>> /\ UNCHANGED <<new, add, old,
                   lines, entry, found, spot, viaFstab, todo, again, history>>
    BY <1>5, Zenon DEF ReplaceForLabel
  <2>4. WorldOK'
    BY <1>0, <2>1, <2>3 DEF WorldOK
  <2>5. LocalsOK'
    BY <1>0, <2>2, <2>3 DEF LocalsOK, history, LabelPCs
  <2>. QED  BY <2>4, <2>5, TypeParts
<1>6. CASE MoveEntry
  <2>1. spot \in Spots /\ entry \in DOMAIN lines /\ found.spec \in Specs /\ labels[Disk] \in Labels
    BY <1>0, <1>6, Constants DEF MoveEntry, Flags, Remounting, AsRead, LocalsOK, WorldOK, Lines
  <2>2. Line(found.spec, spot, labels[Disk]) \in Lines
    BY <2>1 DEF Line, Lines
  <2>3. fstab' \in Seq(Lines)
    BY <1>0, <1>6, <2>1, <2>2 DEF MoveEntry, Moved, LocalsOK
  <2>4. pc' = "check" /\ UNCHANGED <<fs, labels, mounts, full, open, events, edited, disturbed>>
        /\ UNCHANGED <<locals, history>>
    BY <1>6, Zenon DEF MoveEntry
  <2>5. WorldOK'
    BY <1>0, <2>3, <2>4 DEF WorldOK
  <2>6. LocalsOK'
    BY <1>0, <2>4, SameLocals DEF RemountPCs
  <2>. QED  BY <2>5, <2>6, TypeParts
<1>7. CASE Unmount
  <2>1. mounts' \in [Spots -> Devs \cup {NoMount}] /\ todo' \subseteq Spots
    BY <1>0, <1>7 DEF Unmount, WorldOK, LocalsOK
  <2>2. UNCHANGED <<fs, labels, fstab, full, open, events, edited, disturbed>> /\ UNCHANGED <<pc, new, add, old, updated,
                   lines, entry, found, spot, viaFstab, again, history>>
    BY <1>7, Zenon DEF Unmount
  <2>3. WorldOK'
    BY <1>0, <2>1, <2>2 DEF WorldOK
  <2>4. LocalsOK'
    BY <1>0, <2>1, <2>2 DEF LocalsOK, history
  <2>. QED  BY <2>3, <2>4, TypeParts
<1>8. CASE Mount
  <2>1. mounts' \in [Spots -> Devs \cup {NoMount}]
    <3>1. PICK d \in MountSources : mounts' = [mounts EXCEPT ![spot] = d]
      BY <1>8 DEF Mount
    <3>2. d \in Devs
      BY <3>1, Constants DEF MountSources, Leads
    <3>. QED  BY <1>0, <3>1, <3>2 DEF WorldOK
  <2>2. UNCHANGED <<fs, labels, fstab, full, open, events, edited, disturbed>> /\ UNCHANGED <<locals, history>>
    BY <1>8, Zenon DEF Mount
  <2>3. pc' \in {"labelled", "remounted"}
    BY <1>8 DEF Mount
  <2>4. WorldOK'
    BY <1>0, <2>1, <2>2 DEF WorldOK
  <2>5. LocalsOK'
    BY <1>0, <2>2, <2>3, SameLocals DEF LabelPCs, RemountPCs
  <2>. QED  BY <2>4, <2>5, TypeParts
<1>9. CASE Others
  <2>1. Event
    BY <1>9 DEF Others, EditFstab, OthersMount, OthersUnmount, OthersLock, LeaveFiles
  <2>2. events' \in 0 .. MaxEvents /\ UNCHANGED <<fs, labels, pc>> /\ UNCHANGED <<locals, history>>
    BY <1>0, <2>1, Constants DEF Event, WorldOK
  <2>3. LocalsOK'
    BY <1>0, <2>2, SameLocals DEF LocalsOK
  <2>4. CASE EditFstab
    <3>1. fstab' \in Seq(Lines)
      <4>1. \A l \in Labels : Line(ByUuid(Stick), Mnt(l), NoLabel) \in Lines
        <5>1. ByUuid(Stick) \in Specs
          BY Constants DEF Specs
        <5>. QED  BY <5>1, Constants DEF Line, Lines
      <4>2. fstab \in Seq(Lines)
        BY <1>0 DEF WorldOK
      <4>3. CASE \E l \in Labels : fstab' = <<Line(ByUuid(Stick), Mnt(l), NoLabel)>> \o fstab
        <5>1. PICK l \in Labels : fstab' = <<Line(ByUuid(Stick), Mnt(l), NoLabel)>> \o fstab
          BY <4>3
        <5>. DEFINE e == Line(ByUuid(Stick), Mnt(l), NoLabel)
        <5>2. e \in Lines
          BY <4>1
        <5>. HIDE DEF e
        <5>3. <<e>> \o fstab \in Seq(Lines)
          BY <4>2, <5>2
        <5>. QED  BY <5>1, <5>3 DEF e
      <4>4. CASE fstab # <<>> /\ fstab' = Tail(fstab)
        BY <4>2, <4>4
      <4>. QED  BY <2>4, <4>3, <4>4 DEF EditFstab
    <3>2. edited' = TRUE /\ UNCHANGED <<mounts, full, open, disturbed>>
      BY <2>4, Zenon DEF EditFstab
    <3>3. WorldOK'
      BY <1>0, <2>2, <3>1, <3>2 DEF WorldOK
    <3>. QED  BY <2>3, <3>3, TypeParts
  <2>5. CASE OthersMount \/ OthersUnmount
    <3>1. mounts' \in [Spots -> Devs \cup {NoMount}] /\ disturbed' = TRUE
      BY <1>0, <2>5 DEF OthersMount, OthersUnmount, WorldOK
    <3>2. UNCHANGED <<fstab, full, open, edited>>
      BY <2>5, Zenon DEF OthersMount, OthersUnmount
    <3>3. WorldOK'
      BY <1>0, <2>2, <3>1, <3>2 DEF WorldOK
    <3>. QED  BY <2>3, <3>3, TypeParts
  <2>6. CASE OthersLock
    <3>1. open' \in BOOLEAN /\ disturbed' = TRUE /\ UNCHANGED <<fstab, mounts, full, edited>>
      BY <2>6 DEF OthersLock
    <3>2. WorldOK'
      BY <1>0, <2>2, <3>1 DEF WorldOK
    <3>. QED  BY <2>3, <3>2, TypeParts
  <2>7. CASE LeaveFiles
    <3>1. full' \subseteq Spots
      BY <2>7 DEF LeaveFiles
    <3>2. UNCHANGED <<fstab, mounts, open, edited, disturbed>>
      BY <2>7, Zenon DEF LeaveFiles
    <3>3. WorldOK'
      BY <1>0, <2>2, <3>1, <3>2 DEF WorldOK
    <3>. QED  BY <2>3, <3>3, TypeParts
  <2>. QED  BY <1>9, <2>4, <2>5, <2>6, <2>7 DEF Others
<1>. QED  BY <1>1, <1>2, <1>3, <1>4, <1>5, <1>6, <1>7, <1>8, <1>9, QuietTypes, Zenon DEF Next, CommandStep

-----------------------------------------------------------------------------
(***************************************************************************)
(* The inductive invariant is preserved.                                   *)
(***************************************************************************)
\* A command that has ended remembers nothing.
LEMMA EndInv ==
  ASSUME NEW how, End(how)
  PROVE  Inv'
<1>1. pc' = "idle" /\ again' = FALSE /\ updated' = FALSE /\ was' = FALSE
  BY Zenon DEF End
<1>2. ~Remounting'
  BY <1>1 DEF Remounting
<1>3. Flags'
  BY <1>1, <1>2 DEF Flags
<1>4. AsRead' /\ Renamed' /\ Mounted'
  BY <1>1 DEF AsRead, Renamed, Mounted
<1>5. LineThere' /\ StillMounted'
  BY <1>1, <1>2 DEF LineThere, StillMounted
<1>. QED  BY <1>3, <1>4, <1>5 DEF Inv

\* Which steps end a command.
Ends ==
  \/ Unsupported \/ Labelled \/ NoPlaceFor \/ Remounted \/ GiveUp
  \/ (WriteLabel \/ Reread \/ CheckSpot \/ CheckDirectory) /\ pc' = "idle"

\* A step that ends the command keeps the invariant.
LEMMA EndsInv == Ends => Inv'
<1>. SUFFICES ASSUME Ends PROVE Inv'
  OBVIOUS
<1>1. \E how \in {"done", "refused", "failed", "full"} : End(how)
  <2>1. CASE Unsupported \/ Labelled \/ NoPlaceFor \/ Remounted \/ GiveUp
    BY <2>1 DEF Unsupported, Labelled, NoPlaceFor, Remounted, GiveUp, Fail
  <2>2. CASE (WriteLabel \/ Reread \/ CheckSpot \/ CheckDirectory) /\ pc' = "idle"
    BY <2>2 DEF WriteLabel, Reread, CheckSpot, CheckDirectory
  <2>. QED  BY <2>1, <2>2 DEF Ends
<1>. QED  BY <1>1, EndInv

\* The steps that go on with a command, and what they do to its flags.
LEMMA FlagsStep ==
  ASSUME TypeOK, Inv, Next, ~Ends
  PROVE  Flags'
<1>0. WorldOK /\ LocalsOK /\ Flags
  BY TypeParts DEF Inv
<1>1. CASE LabelStart \/ RemountStart
  <2>1. pc = "idle" /\ outcome' = "none" /\ pc' \in {"info", "find"} /\ UNCHANGED again /\ UNCHANGED updated
    BY <1>1, Zenon DEF LabelStart, RemountStart, Begin, locals
  <2>2. ~again' /\ ~updated'
    BY <1>0, <2>1 DEF Flags, LocalsOK
  <2>. QED  BY <2>1, <2>2 DEF Flags, Remounting
<1>2. CASE NotOpen
  <2>1. pc = "idle" /\ UNCHANGED pc /\ UNCHANGED again /\ UNCHANGED updated /\ UNCHANGED spot
    BY <1>2, Zenon DEF NotOpen, locals
  <2>. QED  BY <1>0, <2>1 DEF Flags, Remounting
<1>3. CASE Others
  <2>1. UNCHANGED pc /\ UNCHANGED again /\ UNCHANGED updated /\ UNCHANGED spot /\ UNCHANGED outcome
    BY <1>3, Zenon DEF Others, EditFstab, OthersMount, OthersUnmount, OthersLock, LeaveFiles, Event, locals, history
  <2>. QED  BY <1>0, <2>1 DEF Flags, Remounting
<1>4. CASE Inspect
  <2>1. pc = "info" /\ pc' \in {"read", "labelled", "write", "list"} /\ UNCHANGED again /\ UNCHANGED updated
        /\ UNCHANGED outcome
    BY <1>4 DEF Inspect, history
  <2>2. ~again' /\ ~updated' /\ outcome' = "none"
    BY <1>0, <2>1 DEF Flags, LocalsOK
  <2>. QED  BY <2>1, <2>2 DEF Flags, Remounting
<1>5. CASE ListForLabel
  <2>1. pc = "list" /\ pc' = "umount" /\ UNCHANGED updated /\ UNCHANGED outcome
    BY <1>5, Zenon DEF ListForLabel, history
  <2>2. again' => spot' \in Spots
    BY <1>0, <1>5, Constants DEF ListForLabel, LocalsOK, Targets
  <2>. QED  BY <1>0, <2>1, <2>2 DEF Flags, Remounting
<1>6. CASE SelectForLabel
  <2>1. pc = "select" /\ pc' = "mount" /\ UNCHANGED again /\ UNCHANGED updated /\ UNCHANGED outcome
    BY <1>6, Zenon DEF SelectForLabel, history
  <2>2. spot' \in Spots
    <3>1. PICK link \in Devs :
            spot' = IF EntryOf(fstab, labels, link) # 0
                    THEN fstab[EntryOf(fstab, labels, link)].spot ELSE spot
      BY <1>6 DEF SelectForLabel
    <3>2. again /\ spot \in Spots
      BY <1>0, <2>1 DEF Flags
    <3>3. CASE EntryOf(fstab, labels, link) # 0
      BY <3>1, <3>3, EntryFound DEF Lines
    <3>. QED  BY <3>1, <3>2, <3>3
  <2>. QED  BY <1>0, <2>1, <2>2 DEF Flags, Remounting
<1>7. CASE Find
  <2>1. pc = "find" /\ pc' \in {"reread", "check"} /\ UNCHANGED again /\ UNCHANGED updated /\ UNCHANGED outcome
    BY <1>7 DEF Find, history
  <2>2. spot' \in Spots
    <3>1. PICK link \in Devs :
            LET i == EntryOf(fstab, labels, link)
                l == labels[Disk]
            IN  /\ i # 0 \/ l # NoLabel
                /\ spot' = IF i = 0 THEN Media(l) ELSE IF l = NoLabel THEN fstab[i].spot ELSE Mnt(l)
      BY <1>7 DEF Find
    <3>. DEFINE i == EntryOf(fstab, labels, link)
    <3>2. i # 0 => fstab[i].spot \in Spots
      BY EntryFound DEF Lines
    <3>3. labels[Disk] \in Labels \cup {NoLabel}
      BY <1>0, Constants DEF WorldOK
    <3>. HIDE DEF i
    <3>. QED  BY <3>1, <3>2, <3>3, Constants DEF i
  <2>3. ~again' /\ ~updated' /\ outcome' = "none"
    BY <1>0, <2>1 DEF Flags, LocalsOK
  <2>. QED  BY <2>1, <2>2, <2>3 DEF Flags
<1>8. CASE ReplaceForLabel
  <2>1. pc = "replace" /\ pc' = AfterFstab /\ UNCHANGED again /\ UNCHANGED spot /\ UNCHANGED outcome
    BY <1>8, Zenon DEF ReplaceForLabel, history
  <2>. QED  BY <1>0, <2>1 DEF Flags, Remounting, AfterFstab, LocalsOK
<1>9. CASE /\ \/ WriteLabel \/ ReadForLabel \/ FstabFails \/ Reread \/ MoveEntry \/ CheckSpot \/ ListForRemount
              \/ CheckDirectory \/ Unmount \/ AllUnmounted \/ Mount
           /\ pc' # "idle"
  <2>1. UNCHANGED again /\ UNCHANGED updated /\ UNCHANGED spot /\ UNCHANGED outcome
    BY <1>9, Zenon DEF WriteLabel, ReadForLabel, FstabFails, Reread, MoveEntry, CheckSpot, ListForRemount,
       CheckDirectory, Unmount, AllUnmounted, Mount, End, locals, history
  <2>2. /\ pc # "idle"
        /\ Remounting' => Remounting
        /\ again => pc' \in {"umount", "admin", "read", "replace", "select", "mount", "labelled"}
        /\ pc' = "select" => again
        /\ updated => pc' \in {"select", "mount", "labelled"}
        /\ updated /\ pc' = "mount" => again
    <3>1. CASE WriteLabel
      BY <1>0, <1>9, <2>1, <3>1 DEF WriteLabel, Flags, Remounting, LocalsOK, End
    <3>2. CASE ReadForLabel
      BY <1>0, <2>1, <3>2 DEF ReadForLabel, Flags, Remounting, LocalsOK
    <3>3. CASE FstabFails
      BY <1>0, <2>1, <3>3 DEF FstabFails, AfterFstab, Flags, Remounting, LocalsOK
    <3>4. CASE Reread
      BY <1>0, <1>9, <2>1, <3>4 DEF Reread, Flags, Remounting, LocalsOK, End
    <3>5. CASE MoveEntry
      BY <1>0, <2>1, <3>5 DEF MoveEntry, Flags, Remounting, LocalsOK
    <3>6. CASE CheckSpot
      BY <1>0, <1>9, <2>1, <3>6 DEF CheckSpot, Flags, Remounting, LocalsOK, End
    <3>7. CASE ListForRemount
      BY <1>0, <2>1, <3>7 DEF ListForRemount, Flags, Remounting, LocalsOK
    <3>8. CASE CheckDirectory
      BY <1>0, <1>9, <2>1, <3>8 DEF CheckDirectory, Flags, Remounting, LocalsOK, End
    <3>9. CASE Unmount
      BY <1>0, <2>1, <3>9 DEF Unmount, Flags, Remounting, LocalsOK
    <3>10. CASE AllUnmounted
      BY <1>0, <2>1, <3>10 DEF AllUnmounted, Flags, Remounting, LocalsOK
    <3>11. CASE Mount
      BY <1>0, <2>1, <3>11 DEF Mount, Flags, Remounting, LocalsOK
    <3>. QED  BY <1>9, <3>1, <3>2, <3>3, <3>4, <3>5, <3>6, <3>7, <3>8, <3>9, <3>10, <3>11, Zenon
  <2>. QED  BY <1>0, <2>1, <2>2 DEF Flags
<1>10. Next => \/ LabelStart \/ RemountStart \/ NotOpen \/ Others \/ Inspect \/ ListForLabel \/ SelectForLabel \/ Find
               \/ ReplaceForLabel \/ Ends
               \/ /\ \/ WriteLabel \/ ReadForLabel \/ FstabFails \/ Reread \/ MoveEntry \/ CheckSpot \/ ListForRemount
                     \/ CheckDirectory \/ Unmount \/ AllUnmounted \/ Mount
                  /\ pc' # "idle"
  <2>1. ReadForLabel \/ FstabFails \/ MoveEntry \/ ListForRemount \/ Unmount \/ AllUnmounted \/ Mount => pc' # "idle"
    BY DEF ReadForLabel, FstabFails, AfterFstab, MoveEntry, ListForRemount, Unmount, AllUnmounted, Mount
  <2>. QED  BY <2>1, Zenon DEF Next, CommandStep, Ends
<1>. QED  BY <1>1, <1>2, <1>3, <1>4, <1>5, <1>6, <1>7, <1>8, <1>9, <1>10

\* What others do: their edit of fstab sets edited, their mounts set disturbed.
LEMMA OthersSteps ==
  ASSUME Others
  PROVE  /\ UNCHANGED <<pc, labels>> /\ UNCHANGED <<locals, history>>
         /\ edited' = TRUE \/ UNCHANGED <<fstab, edited>>
         /\ disturbed' = TRUE \/ UNCHANGED <<mounts, disturbed>>
<1>1. UNCHANGED <<pc, labels>> /\ UNCHANGED <<locals, history>>
  BY Zenon DEF Others, EditFstab, OthersMount, OthersUnmount, OthersLock, LeaveFiles, Event
<1>2. edited' = TRUE \/ UNCHANGED <<fstab, edited>>
  BY Zenon DEF Others, EditFstab, OthersMount, OthersUnmount, OthersLock, LeaveFiles
<1>3. disturbed' = TRUE \/ UNCHANGED <<mounts, disturbed>>
  BY Zenon DEF Others, EditFstab, OthersMount, OthersUnmount, OthersLock, LeaveFiles
<1>. QED  BY <1>1, <1>2, <1>3

\* How the command in progress can have come to its next step.
LEMMA ComesFrom ==
  ASSUME TypeOK, Next, ~Ends, ~Others
  PROVE  /\ pc' = "idle" => NotOpen
         /\ pc' = "info" => LabelStart
         /\ pc' = "find" => RemountStart
         /\ pc' \in {"write", "list"} => Inspect
         /\ pc' = "umount" => ListForLabel \/ Unmount
         /\ pc' = "admin" => AllUnmounted
         /\ pc' = "read" => Inspect \/ WriteLabel
         /\ pc' = "replace" => ReadForLabel
         /\ pc' = "select" => ReplaceForLabel \/ FstabFails
         /\ pc' = "labelled" => Inspect \/ ReplaceForLabel \/ FstabFails \/ Mount
         /\ pc' = "reread" => Find
         /\ pc' = "move" => Reread
         /\ pc' = "check" => Find \/ MoveEntry
         /\ pc' = "targets" => CheckSpot
         /\ pc' \in {"extras", "clear"} => ListForRemount \/ Unmount
         /\ pc' = "dir" => AllUnmounted
         /\ pc' = "mount" => SelectForLabel \/ CheckDirectory
         /\ pc' = "remounted" => ListForRemount \/ AllUnmounted \/ Mount
<1>1. /\ LabelStart => pc' = "info"
      /\ RemountStart => pc' = "find"
      /\ NotOpen => pc' = "idle"
      /\ Inspect => pc' \in {"read", "labelled", "write", "list"}
      /\ WriteLabel => pc' \in {"read", "idle"}
      /\ ListForLabel => pc' = "umount"
      /\ ReadForLabel => pc' = "replace"
      /\ ReplaceForLabel \/ FstabFails => pc' \in {"select", "labelled"}
      /\ SelectForLabel => pc' = "mount"
  BY DEF LabelStart, RemountStart, NotOpen, Inspect, WriteLabel, ListForLabel, ReadForLabel, ReplaceForLabel,
     FstabFails, AfterFstab, SelectForLabel, End
<1>2. /\ Find => pc' \in {"reread", "check"}
      /\ Reread => pc' \in {"move", "idle"}
      /\ MoveEntry => pc' = "check"
      /\ CheckSpot => pc' \in {"targets", "idle"}
      /\ ListForRemount => pc' \in {"remounted", "extras", "clear"}
      /\ CheckDirectory => pc' \in {"mount", "idle"}
  BY DEF Find, Reread, MoveEntry, CheckSpot, ListForRemount, CheckDirectory, End
<1>3. /\ Unmount => pc' \in {"umount", "extras", "clear"}
      /\ AllUnmounted => pc' \in {"admin", "remounted", "dir"}
      /\ Mount => pc' \in {"labelled", "remounted"}
  BY DEF Unmount, AllUnmounted, Mount
<1>4. \/ LabelStart \/ RemountStart \/ NotOpen \/ Inspect \/ WriteLabel \/ ListForLabel \/ ReadForLabel
      \/ ReplaceForLabel \/ FstabFails \/ SelectForLabel \/ Find \/ Reread \/ MoveEntry \/ CheckSpot
      \/ ListForRemount \/ CheckDirectory \/ Unmount \/ AllUnmounted \/ Mount
  BY Zenon DEF Next, CommandStep, Ends
<1>5. pc' = "idle" => ~(WriteLabel \/ Reread \/ CheckSpot \/ CheckDirectory)
  BY Zenon DEF Ends
<1>. QED  BY <1>1, <1>2, <1>3, <1>4, <1>5

\* What the command has read is in fstab unless someone has edited it.
LEMMA AsReadStep ==
  ASSUME TypeOK, Inv, Next, ~Ends
  PROVE  AsRead'
<1>0. WorldOK /\ LocalsOK /\ AsRead
  BY TypeParts DEF Inv
<1>1. CASE Others
  <2>1. UNCHANGED <<pc, labels, lines, found, entry>> /\ (edited' = TRUE \/ UNCHANGED <<fstab, edited>>)
    BY <1>1, OthersSteps DEF locals
  <2>2. ~edited' => fstab' = fstab /\ ~edited
    BY <2>1
  <2>3. OwnSpecs' = OwnSpecs
    BY <2>1 DEF OwnSpecs
  <2>. QED  BY <1>0, <2>1, <2>2, <2>3 DEF AsRead
<1>2. CASE ~Others /\ pc' = "replace"
  <2>1. ReadForLabel
    BY <1>2, ComesFrom
  <2>. QED  BY <1>2, <2>1 DEF ReadForLabel, AsRead
<1>3. CASE ~Others /\ pc' = "reread"
  <2>1. Find
    BY <1>3, ComesFrom
  <2>2. PICK link \in Devs :
          LET i == EntryOf(fstab, labels, link)
              l == labels[Disk]
          IN  /\ entry' = i
              /\ found' = IF i # 0 THEN fstab[i] ELSE found
              /\ pc' = IF i # 0 /\ l # NoLabel /\ (fstab[i].spot # Mnt(l) \/ fstab[i].opts # l)
                       THEN "reread" ELSE "check"
    BY <2>1 DEF Find
  <2>. DEFINE i == EntryOf(fstab, labels, link)
  <2>3. i # 0 /\ labels[Disk] # NoLabel /\ found' = fstab[i] /\ entry' = i
    BY <1>3, <2>2
  <2>4. i \in DOMAIN fstab /\ fstab[i].spec \in OwnSpecs
    BY <2>3, EntryFound
  <2>5. UNCHANGED <<fstab, labels>>
    BY <2>1 DEF Find
  <2>6. OwnSpecs' = OwnSpecs
    BY <2>5 DEF OwnSpecs
  <2>. HIDE DEF i
  <2>. QED  BY <1>3, <2>3, <2>4, <2>5, <2>6 DEF AsRead
<1>4. CASE ~Others /\ pc' = "move"
  <2>1. Reread
    BY <1>4, ComesFrom
  <2>2. pc = "reread" /\ entry <= Len(fstab) /\ lines' = fstab /\ UNCHANGED <<entry, found>>
    BY <1>4, <2>1 DEF Reread, End
  <2>3. UNCHANGED <<fstab, labels, edited>>
    BY <2>1, Zenon DEF Reread, world
  <2>4. OwnSpecs' = OwnSpecs
    BY <2>3 DEF OwnSpecs
  <2>5. labels[Disk] # NoLabel /\ found.spec \in OwnSpecs /\ entry # 0
    BY <1>0, <2>2 DEF AsRead
  <2>6. entry \in DOMAIN fstab
    BY <1>0, <2>2, <2>5 DEF WorldOK, LocalsOK
  <2>7. ~edited' => fstab[entry] = found
    BY <1>0, <2>2, <2>3 DEF AsRead
  <2>. QED  BY <1>4, <2>2, <2>3, <2>4, <2>5, <2>6, <2>7 DEF AsRead
<1>5. CASE pc' \notin {"replace", "reread", "move"}
  BY <1>5 DEF AsRead
<1>. QED  BY <1>1, <1>2, <1>3, <1>4, <1>5

\* The line of label --fstab stays the only one for the disk and its place.
LEMMA RenamedStep ==
  ASSUME TypeOK, Inv, Next, ~Ends
  PROVE  Renamed'
<1>0. WorldOK /\ LocalsOK /\ Flags /\ AsRead /\ Renamed
  BY TypeParts DEF Inv
<1>1. SUFFICES ASSUME pc' \in {"select", "mount", "labelled"}, add', updated', ~edited' PROVE OnlyLine'
  BY DEF Renamed
<1>2. ASSUME UNCHANGED <<fstab, new>>, OnlyLine PROVE OnlyLine'
  BY <1>2 DEF OnlyLine
<1>3. CASE Others
  <2>1. UNCHANGED <<pc, new, add, updated>> /\ (edited' = TRUE \/ UNCHANGED <<fstab, edited>>)
    BY <1>3, OthersSteps DEF locals
  <2>2. fstab' = fstab /\ ~edited
    BY <1>1, <2>1
  <2>3. OnlyLine
    BY <1>0, <1>1, <2>1, <2>2 DEF Renamed
  <2>. QED  BY <1>2, <2>1, <2>2, <2>3
<1>4. CASE ReplaceForLabel
  <2>1. /\ pc = "replace" /\ UNCHANGED edited /\ UNCHANGED <<new, add, old>>
        /\ fstab' = IF ~add /\ Relabelled(lines, old, new, add) = lines THEN fstab
                    ELSE Relabelled(lines, old, new, add)
    BY <1>4, Zenon DEF ReplaceForLabel
  <2>2. ~edited /\ add
    BY <1>1, <2>1
  <2>3. lines = fstab
    BY <1>0, <2>1, <2>2 DEF AsRead
  <2>4. fstab' = Relabelled(lines, old, new, add)
    BY <2>1, <2>3
  <2>5. lines \in Seq(Lines) /\ old \in Labels \cup {NoLabel} /\ new \in Labels /\ add \in BOOLEAN
    BY <1>0 DEF LocalsOK
  <2>6. PICK i \in DOMAIN Relabelled(lines, old, new, add) :
          /\ Relabelled(lines, old, new, add)[i] = Line(ByUuid(Disk), Mnt(new), new)
          /\ \A j \in DOMAIN Relabelled(lines, old, new, add) \ {i} :
               ~Obsolete(Relabelled(lines, old, new, add)[j], old, new, add)
    BY <2>2, <2>5, RelabelledLines
  <2>7. \A l : ~Obsolete(l, old, new, add) => l.spot # Mnt(new) /\ l.spec \notin {ByUuid(Disk), ByLabel(new)}
    BY <2>2 DEF Obsolete
  <2>. QED  BY <2>1, <2>4, <2>6, <2>7 DEF OnlyLine
<1>5. CASE ~Others /\ ~ReplaceForLabel
  <2>1. Inspect \/ FstabFails \/ Mount \/ SelectForLabel \/ CheckDirectory
    BY <1>1, <1>5, ComesFrom
  <2>2. UNCHANGED <<fstab, new, add, updated, edited>>
    <3>1. CASE Inspect
      BY <3>1, Zenon DEF Inspect, world
    <3>2. CASE FstabFails
      BY <3>2, Zenon DEF FstabFails, world, locals
    <3>3. CASE Mount
      BY <3>3, Zenon DEF Mount, locals
    <3>4. CASE SelectForLabel
      BY <3>4, Zenon DEF SelectForLabel, world
    <3>5. CASE CheckDirectory
      <4>1. UNCHANGED world /\ UNCHANGED locals
        BY <1>1, <3>5 DEF CheckDirectory, End
      <4>. QED  BY <4>1 DEF world, locals
    <3>. QED  BY <2>1, <3>1, <3>2, <3>3, <3>4, <3>5
  <2>3. updated /\ add /\ ~edited
    BY <1>1, <2>2
  <2>4. pc \in {"select", "mount", "labelled"}
    BY <1>0, <2>3 DEF Flags
  <2>5. OnlyLine
    BY <1>0, <2>3, <2>4 DEF Renamed
  <2>. QED  BY <1>2, <2>2, <2>5
<1>. QED  BY <1>3, <1>4, <1>5

\* The line for the place that remount has chosen stays.
LEMMA LineThereStep ==
  ASSUME TypeOK, Inv, Next, ~Ends
  PROVE  LineThere'
<1>0. WorldOK /\ LocalsOK /\ Flags /\ AsRead /\ LineThere
  BY TypeParts DEF Inv
<1>1. SUFFICES ASSUME Remounting', pc' \notin {"reread", "move"}, viaFstab', labels'[Disk] # NoLabel, ~edited'
               PROVE  \E i \in DOMAIN fstab' : fstab'[i].spot = spot' /\ fstab'[i].spec \in OwnSpecs'
  BY DEF LineThere
<1>2. ASSUME UNCHANGED <<fstab, labels, spot, viaFstab, edited>>, Remounting, pc \notin {"reread", "move"}
      PROVE  \E i \in DOMAIN fstab' : fstab'[i].spot = spot' /\ fstab'[i].spec \in OwnSpecs'
  <2>1. viaFstab /\ ~edited /\ labels[Disk] # NoLabel
    BY <1>1, <1>2
  <2>2. PICK i \in DOMAIN fstab : fstab[i].spot = spot /\ fstab[i].spec \in OwnSpecs
    BY <1>0, <1>2, <2>1 DEF LineThere
  <2>3. OwnSpecs' = OwnSpecs
    BY <1>2 DEF OwnSpecs
  <2>. QED  BY <1>2, <2>2, <2>3
<1>3. CASE Others
  <2>1. UNCHANGED <<pc, labels, spot, viaFstab, again>> /\ (edited' = TRUE \/ UNCHANGED <<fstab, edited>>)
    BY <1>3, OthersSteps DEF locals
  <2>2. UNCHANGED <<fstab, edited>>
    BY <1>1, <2>1
  <2>3. Remounting /\ pc \notin {"reread", "move"}
    BY <1>1, <2>1 DEF Remounting
  <2>. QED  BY <1>2, <2>1, <2>2, <2>3
<1>4. CASE Find
  <2>1. PICK link \in Devs :
          LET i == EntryOf(fstab, labels, link)
              l == labels[Disk]
          IN  /\ viaFstab' = (i # 0)
              /\ spot' = IF i = 0 THEN Media(l) ELSE IF l = NoLabel THEN fstab[i].spot ELSE Mnt(l)
              /\ pc' = IF i # 0 /\ l # NoLabel /\ (fstab[i].spot # Mnt(l) \/ fstab[i].opts # l)
                       THEN "reread" ELSE "check"
    BY <1>4 DEF Find
  <2>. DEFINE i == EntryOf(fstab, labels, link)
  <2>2. UNCHANGED <<fstab, labels>>
    BY <1>4 DEF Find
  <2>3. i # 0 /\ labels[Disk] # NoLabel /\ fstab[i].spot = Mnt(labels[Disk]) /\ spot' = Mnt(labels[Disk])
    BY <1>1, <2>1, <2>2
  <2>4. i \in DOMAIN fstab /\ fstab[i].spec \in OwnSpecs
    BY <2>3, EntryFound
  <2>5. OwnSpecs' = OwnSpecs
    BY <2>2 DEF OwnSpecs
  <2>. HIDE DEF i
  <2>. QED  BY <2>2, <2>3, <2>4, <2>5
<1>5. CASE MoveEntry
  <2>1. /\ pc = "move" /\ fstab' = [lines EXCEPT ![entry] = Line(found.spec, spot, labels[Disk])]
        /\ UNCHANGED <<labels, spot>>
    BY <1>5, Zenon DEF MoveEntry, Moved, locals
  <2>2. entry \in DOMAIN lines /\ found.spec \in OwnSpecs
    BY <1>0, <2>1 DEF AsRead
  <2>3. entry \in DOMAIN fstab' /\ fstab'[entry] = Line(found.spec, spot, labels[Disk])
    BY <1>0, <2>1, <2>2 DEF LocalsOK
  <2>4. OwnSpecs' = OwnSpecs
    BY <2>1 DEF OwnSpecs
  <2>. QED  BY <2>1, <2>2, <2>3, <2>4 DEF Line
<1>6. CASE ~Others /\ ~Find /\ ~MoveEntry
  <2>1. pc' \in {"check", "targets", "extras", "clear", "dir", "remounted", "mount"} /\ (pc' = "mount" => ~again')
    BY <1>1 DEF Remounting
  <2>2. \/ CheckSpot /\ pc' = "targets"
        \/ ListForRemount
        \/ Unmount /\ pc' \in {"extras", "clear"}
        \/ AllUnmounted /\ pc' \in {"remounted", "dir"}
        \/ Mount /\ pc' = "remounted"
        \/ CheckDirectory /\ pc' = "mount"
        \/ SelectForLabel /\ ~again'
    BY <1>6, <2>1, ComesFrom
  <2>3. ~(SelectForLabel /\ ~again')
    <3>1. SelectForLabel => pc = "select" /\ UNCHANGED again
      BY Zenon DEF SelectForLabel
    <3>. QED  BY <1>0, <3>1 DEF Flags
  <2>4. UNCHANGED <<fstab, labels, spot, viaFstab, edited>>
    <3>1. CASE CheckSpot /\ pc' = "targets"
      <4>1. UNCHANGED world /\ UNCHANGED locals
        BY <3>1 DEF CheckSpot, End
      <4>. QED  BY <4>1 DEF world, locals
    <3>2. CASE ListForRemount
      BY <3>2, Zenon DEF ListForRemount, world
    <3>3. CASE Unmount
      BY <3>3, Zenon DEF Unmount
    <3>4. CASE AllUnmounted
      BY <3>4, Zenon DEF AllUnmounted, world, locals
    <3>5. CASE Mount
      BY <3>5, Zenon DEF Mount, locals
    <3>6. CASE CheckDirectory /\ pc' = "mount"
      <4>1. UNCHANGED world /\ UNCHANGED locals
        BY <3>6 DEF CheckDirectory, End
      <4>. QED  BY <4>1 DEF world, locals
    <3>. QED  BY <2>2, <2>3, <3>1, <3>2, <3>3, <3>4, <3>5, <3>6
  <2>5. Remounting /\ pc \notin {"reread", "move"}
    <3>1. CASE Mount /\ pc' = "remounted"
      BY <3>1 DEF Mount, Remounting
    <3>2. CASE AllUnmounted /\ pc' \in {"remounted", "dir"}
      BY <3>2 DEF AllUnmounted, Remounting
    <3>3. CASE Unmount /\ pc' \in {"extras", "clear"}
      BY <3>3 DEF Unmount, Remounting
    <3>4. CASE (CheckSpot /\ pc' = "targets") \/ ListForRemount \/ CheckDirectory
      BY <3>4 DEF CheckSpot, ListForRemount, CheckDirectory, Remounting
    <3>. QED  BY <2>2, <2>3, <3>1, <3>2, <3>3, <3>4
  <2>. QED  BY <1>2, <2>4, <2>5
<1>. QED  BY <1>3, <1>4, <1>5, <1>6

\* mount with fstab to go by, where no other filesystem is for the place, takes the disk.
LEMMA MountTakes ==
  ASSUME Mount, TypeOK, Flags
  PROVE  /\ spot \in Spots /\ UNCHANGED <<fstab, labels, spot, viaFstab, edited, disturbed, again, was>>
         /\ Meant' <=> Meant
         /\ \/ mounts' = [mounts EXCEPT ![spot] = Disk]
            \/ ~Meant'
<1>0. WorldOK /\ LocalsOK
  BY TypeParts
<1>1. UNCHANGED <<fstab, labels, spot, viaFstab, edited, disturbed, again, was>>
  BY Zenon DEF Mount, locals, history
<1>2. Meant' <=> Meant
  BY <1>1, Zenon DEF Meant, Uncontested
<1>3. spot \in Spots
  BY DEF Mount, Flags, Remounting
<1>4. PICK d \in MountSources : mounts' = [mounts EXCEPT ![spot] = d]
  BY DEF Mount
<1>5. Meant => d = Disk
  <2>1. CASE ~viaFstab
    BY <1>4, <2>1 DEF MountSources
  <2>2. CASE viaFstab
    <3>1. PICK i \in DOMAIN fstab : fstab[i].spot = spot /\ d \in Leads(fstab[i].spec, labels)
      BY <1>4, <2>2 DEF MountSources
    <3>. QED  BY <2>2, <3>1 DEF Meant, Uncontested
  <2>. QED  BY <2>1, <2>2
<1>. QED  BY <1>1, <1>2, <1>3, <1>4, <1>5

\* remount does not unmount its own target, and mounts the disk there.
LEMMA MountedStep ==
  ASSUME TypeOK, Inv, Next, ~Ends
  PROVE  Mounted'
<1>0. WorldOK /\ LocalsOK /\ Flags /\ Mounted
  BY TypeParts DEF Inv
<1>1. CASE Others
  <2>1. /\ UNCHANGED <<pc, labels, spot, todo, viaFstab>>
        /\ edited' = TRUE \/ UNCHANGED <<fstab, edited>>
        /\ disturbed' = TRUE \/ UNCHANGED <<mounts, disturbed>>
    BY <1>1, OthersSteps DEF locals
  <2>2. ~disturbed' => mounts' = mounts /\ ~disturbed
    BY <2>1
  <2>3. ~edited' => ~edited /\ (Meant' <=> Meant)
    <3>1. ASSUME fstab' = fstab, labels' = labels, spot' = spot, viaFstab' = viaFstab
          PROVE  Meant' <=> Meant
      BY <3>1, Zenon DEF Meant, Uncontested
    <3>. QED  BY <2>1, <3>1
  <2>4. pc' = "extras" => spot' \notin todo'
    BY <1>0, <2>1 DEF Mounted
  <2>5. pc' = "extras" /\ ~disturbed' => mounts'[spot'] = Disk
    BY <1>0, <2>1, <2>2 DEF Mounted
  <2>6. pc' = "remounted" /\ ~edited' /\ ~disturbed' /\ Meant' => mounts'[spot'] = Disk
    BY <1>0, <2>1, <2>2, <2>3 DEF Mounted
  <2>. QED  BY <2>4, <2>5, <2>6, Zenon DEF Mounted
<1>2. CASE pc' = "extras" /\ ~Others
  <2>1. CASE ListForRemount
    <3>1. /\ UNCHANGED mounts /\ UNCHANGED spot /\ todo' = Targets \ {spot}
          /\ spot \in Targets
      BY <1>2, <2>1 DEF ListForRemount, world
    <3>. QED  BY <1>2, <3>1 DEF Mounted, Targets
  <2>2. CASE Unmount
    <3>1. PICK q \in todo : mounts' = [mounts EXCEPT ![q] = NoMount] /\ todo' = todo \ {q}
      BY <2>2 DEF Unmount
    <3>2. UNCHANGED pc /\ UNCHANGED spot /\ UNCHANGED disturbed
      BY <2>2, Zenon DEF Unmount
    <3>3. spot \in Spots /\ spot \notin todo /\ (~disturbed => mounts[spot] = Disk)
      BY <1>0, <1>2, <3>2 DEF Flags, Remounting, Mounted
    <3>4. mounts'[spot] = mounts[spot]
      BY <1>0, <3>1, <3>3 DEF WorldOK
    <3>. QED  BY <1>2, <3>1, <3>2, <3>3, <3>4 DEF Mounted
  <2>. QED  BY <1>2, <2>1, <2>2, ComesFrom
<1>3. CASE pc' = "remounted" /\ ~Others
  <2>1. ASSUME ~edited', ~disturbed', Meant' PROVE mounts'[spot'] = Disk
    <3>1. CASE ListForRemount
      <4>1. UNCHANGED mounts /\ UNCHANGED spot /\ Targets = {spot}
        BY <1>3, <3>1 DEF ListForRemount, world
      <4>. QED  BY <4>1 DEF Targets
    <3>2. CASE AllUnmounted
      <4>1. pc = "extras" /\ UNCHANGED <<mounts, spot, disturbed>>
        BY <1>3, <3>2 DEF AllUnmounted, world, locals
      <4>. QED  BY <1>0, <2>1, <4>1 DEF Mounted
    <3>3. CASE Mount
      <4>1. spot \in Spots /\ UNCHANGED spot /\ mounts' = [mounts EXCEPT ![spot] = Disk]
        BY <1>0, <2>1, <3>3, MountTakes
      <4>. QED  BY <1>0, <4>1 DEF WorldOK
    <3>. QED  BY <1>3, <3>1, <3>2, <3>3, ComesFrom
  <2>. QED  BY <1>3, <2>1 DEF Mounted
<1>4. CASE pc' \notin {"extras", "remounted"}
  BY <1>4 DEF Mounted
<1>. QED  BY <1>1, <1>2, <1>3, <1>4

\* A disk that was mounted is mounted or will be again.
LEMMA StillMountedStep ==
  ASSUME TypeOK, Inv, Next, ~Ends
  PROVE  StillMounted'
<1>0. WorldOK /\ LocalsOK /\ Flags /\ StillMounted
  BY TypeParts DEF Inv
<1>1. SUFFICES ASSUME was', ~disturbed'
      PROVE  /\ pc' \in {"info", "write", "list", "find", "reread", "move", "check", "targets"} => Targets' # {}
             /\ pc' \in {"umount", "admin"} => again'
             /\ pc' \in {"read", "replace"} => again' \/ Targets' # {}
             /\ pc' = "labelled" => Targets' # {} \/ (again' /\ (edited' \/ ~Meant'))
  BY DEF StillMounted
<1>9. ASSUME was, ~disturbed
      PROVE  /\ pc \in {"info", "write", "list", "find", "reread", "move", "check", "targets"} => Targets # {}
             /\ pc \in {"umount", "admin"} => again
             /\ pc \in {"read", "replace"} => again \/ Targets # {}
             /\ pc = "labelled" => Targets # {} \/ (again /\ (edited \/ ~Meant))
  BY <1>0, <1>9 DEF StillMounted
<1>2. CASE LabelStart \/ RemountStart
  <2>1. Begin /\ pc' \in {"info", "find"}
    BY <1>2 DEF LabelStart, RemountStart
  <2>2. was' = (Targets # {}) /\ UNCHANGED mounts
    BY <2>1, Zenon DEF Begin
  <2>3. Targets' # {}
    BY <1>1, <2>2 DEF Targets
  <2>. QED  BY <2>1, <2>3
<1>3. CASE NotOpen
  <2>1. ~was'
    BY <1>3 DEF NotOpen
  <2>. QED  BY <1>1, <2>1
<1>4. CASE Others
  <2>1. /\ UNCHANGED <<pc, labels, spot, viaFstab, again, was>>
        /\ edited' = TRUE \/ UNCHANGED <<fstab, edited>>
        /\ UNCHANGED <<mounts, disturbed>>
    BY <1>1, <1>4, OthersSteps DEF locals, history
  <2>2. Targets' = Targets
    BY <2>1 DEF Targets
  <2>3. was /\ ~disturbed
    BY <1>1, <2>1
  <2>5. again' = again /\ pc' = pc
    BY <2>1
  <2>4. edited \/ ~Meant => edited' \/ ~Meant'
    <3>1. ASSUME fstab' = fstab, labels' = labels, spot' = spot, viaFstab' = viaFstab
          PROVE  Meant' <=> Meant
      BY <3>1, Zenon DEF Meant, Uncontested
    <3>. QED  BY <2>1, <3>1
  <2>. QED  BY <1>0, <1>9, <2>2, <2>3, <2>4, <2>5 DEF LocalsOK
<1>5. CASE Mount
  <2>1. UNCHANGED <<again, was, disturbed>> /\ spot \in Spots /\ (Meant' <=> Meant)
        /\ (mounts' = [mounts EXCEPT ![spot] = Disk] \/ ~Meant)
    BY <1>0, <1>5, MountTakes
  <2>2. pc' \in {"labelled", "remounted"} /\ (pc' = "labelled" => again)
    BY <1>5 DEF Mount
  <2>3. mounts' = [mounts EXCEPT ![spot] = Disk] => Targets' # {}
    BY <1>0, <2>1 DEF Targets, WorldOK
  <2>4. was /\ ~disturbed
    BY <1>1, <2>1
  <2>5. pc = "mount" /\ again' = again
    BY <1>5, <2>1 DEF Mount
  <2>6. CASE mounts' = [mounts EXCEPT ![spot] = Disk]
    BY <2>2, <2>3, <2>6
  <2>7. CASE ~Meant
    <3>1. ~Meant'
      BY <2>1, <2>7
    <3>. QED  BY <1>0, <2>2, <2>5, <3>1 DEF LocalsOK
  <2>. QED  BY <2>1, <2>6, <2>7
<1>6. CASE Unmount
  <2>1. pc' = pc /\ UNCHANGED <<again, was, disturbed>> /\ pc \in {"umount", "extras", "clear"}
    BY <1>6, Zenon DEF Unmount, history
  <2>. QED  BY <1>0, <1>1, <2>1 DEF StillMounted
<1>7. ASSUME \/ Inspect \/ WriteLabel \/ ListForLabel \/ ReadForLabel \/ ReplaceForLabel \/ FstabFails
             \/ SelectForLabel \/ Find \/ Reread \/ MoveEntry \/ CheckSpot \/ ListForRemount \/ CheckDirectory
             \/ AllUnmounted
      PROVE  UNCHANGED <<mounts, disturbed>> /\ (was' => was)
  <2>1. UNCHANGED <<mounts, disturbed>>
    BY <1>7, Zenon DEF Inspect, WriteLabel, ListForLabel, ReadForLabel, ReplaceForLabel, FstabFails,
       SelectForLabel, Find, Reread, MoveEntry, CheckSpot, ListForRemount, CheckDirectory, AllUnmounted, world
  <2>2. was' = was \/ was' = FALSE
    BY <1>7, Zenon DEF Inspect, WriteLabel, ListForLabel, ReadForLabel, ReplaceForLabel, FstabFails,
       SelectForLabel, Find, Reread, MoveEntry, CheckSpot, ListForRemount, CheckDirectory, AllUnmounted, history, End
  <2>. QED  BY <2>1, <2>2
<1>8. CASE \/ Inspect \/ WriteLabel \/ ListForLabel \/ ReadForLabel \/ ReplaceForLabel \/ FstabFails
           \/ SelectForLabel \/ Find \/ Reread \/ MoveEntry \/ CheckSpot \/ ListForRemount \/ CheckDirectory
           \/ AllUnmounted
  <2>1. UNCHANGED <<mounts, disturbed>> /\ was /\ ~disturbed
    BY <1>1, <1>7, <1>8
  <2>2. Targets' = Targets
    BY <2>1 DEF Targets
  <2>3. CASE Inspect
    <3>1. pc = "info" /\ pc' \in {"read", "labelled", "write", "list"}
      BY <2>3 DEF Inspect
    <3>2. Targets # {}
      BY <1>9, <2>1, <3>1
    <3>. QED  BY <2>2, <3>1, <3>2
  <2>4. CASE WriteLabel
    <3>1. pc' = "idle" \/ (pc' = "read" /\ pc \in {"write", "admin"} /\ UNCHANGED again)
      BY <2>4, Zenon DEF WriteLabel, End, locals
    <3>. QED  BY <1>0, <2>1, <2>2, <3>1 DEF StillMounted
  <2>5. CASE ListForLabel
    <3>1. pc = "list" /\ pc' = "umount" /\ again' = (Targets # {})
      BY <2>5, Zenon DEF ListForLabel
    <3>. QED  BY <1>0, <2>1, <3>1 DEF StillMounted
  <2>6. CASE ReadForLabel \/ ReplaceForLabel \/ FstabFails
    <3>1. pc \in {"read", "replace"} /\ UNCHANGED again
      BY <2>6, Zenon DEF ReadForLabel, ReplaceForLabel, FstabFails, locals
    <3>2. pc' \in {"replace", "select"} \/ (pc' = "labelled" /\ ~again)
      BY <2>6 DEF ReadForLabel, ReplaceForLabel, FstabFails, AfterFstab
    <3>3. again \/ Targets # {}
      BY <1>9, <2>1, <3>1
    <3>. QED  BY <1>0, <2>2, <3>1, <3>2, <3>3 DEF LocalsOK
  <2>7. CASE Find \/ Reread \/ MoveEntry \/ CheckSpot
    <3>1. pc \in {"find", "reread", "move", "check"}
      BY <2>7, Zenon DEF Find, Reread, MoveEntry, CheckSpot
    <3>2. pc' \in {"idle", "reread", "move", "check", "targets"}
      BY <2>7 DEF Find, Reread, MoveEntry, CheckSpot, End
    <3>. QED  BY <1>0, <2>1, <2>2, <3>1, <3>2 DEF StillMounted
  <2>8. CASE SelectForLabel \/ ListForRemount \/ CheckDirectory
    <3>1. pc' \in {"idle", "mount", "remounted", "extras", "clear"}
      BY <2>8 DEF SelectForLabel, ListForRemount, CheckDirectory, End
    <3>. QED  BY <3>1
  <2>9. CASE AllUnmounted
    <3>1. (pc = "umount" /\ pc' = "admin") \/ pc' \in {"remounted", "dir"}
      BY <2>9 DEF AllUnmounted
    <3>2. UNCHANGED again
      BY <2>9, Zenon DEF AllUnmounted, locals
    <3>. QED  BY <1>0, <2>1, <3>1, <3>2 DEF StillMounted
  <2>. QED  BY <1>8, <2>3, <2>4, <2>5, <2>6, <2>7, <2>8, <2>9, Zenon
<1>. QED  BY <1>2, <1>3, <1>4, <1>5, <1>6, <1>8, Zenon DEF Next, CommandStep, Ends

\* The invariant holds at first and is kept by every step.
LEMMA InvInit == Init => TypeOK /\ Inv
<1>. SUFFICES ASSUME Init PROVE TypeOK /\ Inv
  OBVIOUS
<1>1. PICK s \in Starts : fs = s.fs /\ labels = s.labels /\ fstab = s.fstab /\ mounts = s.mounts
  BY DEF Init
<1>2. s \in [fs : {"ext4", "xfs", "other"}, labels : [Devs -> Labels \cup {NoLabel}],
             fstab : Seq(Lines), mounts : [Spots -> Devs \cup {NoMount}]]
  BY RelabelConstants
<1>3. WorldOK
  <2>1. /\ fs \in {"ext4", "xfs", "other"} /\ labels \in [Devs -> Labels \cup {NoLabel}]
        /\ fstab \in Seq(Lines) /\ mounts \in [Spots -> Devs \cup {NoMount}]
    BY <1>1, <1>2
  <2>2. full = {} /\ open = TRUE /\ events = 0 /\ edited = FALSE /\ disturbed = FALSE
    BY Zenon DEF Init
  <2>3. 0 \in 0 .. MaxEvents
    BY Constants
  <2>. QED  BY <2>1, <2>2, <2>3 DEF WorldOK
<1>4. LocalsOK
  <2>1. <<>> \in Seq(Lines) /\ 0 \in Nat /\ {} \subseteq Spots
    OBVIOUS
  <2>. QED  BY <2>1, Constants DEF Init, LocalsOK
<1>5. pc = "idle" /\ ~again /\ ~updated /\ ~was
  BY DEF Init
<1>6. ~Remounting
  BY <1>5 DEF Remounting
<1>7. Flags /\ AsRead /\ Renamed
  BY <1>5, <1>6 DEF Flags, AsRead, Renamed
<1>8. LineThere /\ Mounted /\ StillMounted
  BY <1>5, <1>6 DEF LineThere, Mounted, StillMounted
<1>. QED  BY <1>3, <1>4, <1>7, <1>8, TypeParts DEF Inv

\* A stutter keeps types and invariant.
LEMMA InvStutter == TypeOK /\ Inv /\ UNCHANGED vars => TypeOK' /\ Inv'
<1>. SUFFICES ASSUME TypeOK, Inv, UNCHANGED vars PROVE TypeOK' /\ Inv'
  OBVIOUS
<1>1. UNCHANGED world /\ UNCHANGED pc /\ UNCHANGED <<locals, history>>
  BY DEF vars
<1>2. /\ fs' = fs /\ labels' = labels /\ fstab' = fstab /\ mounts' = mounts /\ full' = full /\ open' = open
      /\ events' = events /\ edited' = edited /\ disturbed' = disturbed /\ pc' = pc
      /\ new' = new /\ add' = add /\ old' = old /\ updated' = updated /\ lines' = lines /\ entry' = entry
      /\ found' = found /\ spot' = spot /\ viaFstab' = viaFstab /\ todo' = todo /\ again' = again
      /\ was' = was /\ outcome' = outcome
  BY <1>1 DEF world, locals, history
<1>3. TypeOK'
  BY <1>2 DEF TypeOK
<1>4. Flags'
  BY <1>2, Zenon DEF Inv, Flags, Remounting
<1>7. AsRead'
  <2>1. OwnSpecs' = OwnSpecs
    BY <1>2 DEF OwnSpecs
  <2>. QED  BY <1>2, <2>1, Zenon DEF Inv, AsRead
<1>5. Renamed'
  <2>1. OnlyLine => OnlyLine'
    BY <1>2 DEF OnlyLine
  <2>. QED  BY <1>2, <2>1, Zenon DEF Inv, Renamed
<1>8. LineThere'
  BY <1>2, Zenon DEF Inv, LineThere, Remounting, OwnSpecs
<1>6. Mounted' /\ StillMounted'
  BY <1>2, Zenon DEF Inv, Mounted, StillMounted, Meant, Uncontested, Targets
<1>. QED  BY <1>3, <1>4, <1>5, <1>6, <1>7, <1>8 DEF Inv

\* So does every step.
LEMMA InvStep == TypeOK /\ Inv /\ [Next]_vars => TypeOK' /\ Inv'
<1>1. ASSUME TypeOK, Inv, Next PROVE TypeOK' /\ Inv'
  <2>1. TypeOK'
    BY <1>1, TypeStep DEF Inv
  <2>2. CASE Ends
    BY <2>1, <2>2, EndsInv
  <2>3. CASE ~Ends
    <3>1. Flags' /\ AsRead' /\ Renamed' /\ LineThere' /\ Mounted' /\ StillMounted'
      BY <1>1, <2>3, FlagsStep, AsReadStep, RenamedStep, LineThereStep, MountedStep, StillMountedStep
    <3>. QED  BY <2>1, <3>1 DEF Inv
  <2>. QED  BY <2>2, <2>3
<1>. QED  BY <1>1, InvStutter

\* Types and invariant hold at all times.
LEMMA Invariant == Spec => [](TypeOK /\ Inv)
<1>. QED  BY InvInit, InvStep, PTL DEF Spec

-----------------------------------------------------------------------------
(***************************************************************************)
(* The theorems.                                                           *)
(***************************************************************************)
(* Every variable has a value of its type at all times.                    *)
THEOREM TypeCorrect == Spec => []TypeOK
BY Invariant, PTL

(* When label --fstab has succeeded, fstab has one line for the disk, at   *)
(* the mountpoint of the new label, and no other line is for either.       *)
THEOREM OneLineLeft == Spec => []OneLine
<1>1. Inv => OneLine
  BY DEF Inv, Renamed, OnlyLine, OneLine
<1>. QED  BY <1>1, Invariant, PTL

(* When remount has succeeded, the disk is mounted where fstab will mount  *)
(* it after a reboot.                                                      *)
THEOREM AgreesWithFstab == Spec => []FstabAgrees
<1>1. Inv => FstabAgrees
  <2>1. SUFFICES ASSUME Inv, pc = "remounted", viaFstab, labels[Disk] # NoLabel, ~edited, ~disturbed, Uncontested(spot)
                 PROVE  /\ mounts[spot] = Disk
                        /\ \E i \in DOMAIN fstab :
                             fstab[i].spot = spot /\ fstab[i].spec \in {ByUuid(Disk), ByLabel(labels[Disk])}
    BY DEF FstabAgrees
  <2>2. Meant /\ Remounting
    BY <2>1 DEF Meant, Remounting
  <2>3. mounts[spot] = Disk
    BY <2>1, <2>2 DEF Inv, Mounted
  <2>4. \E i \in DOMAIN fstab : fstab[i].spot = spot /\ fstab[i].spec \in OwnSpecs
    BY <2>1, <2>2 DEF Inv, LineThere
  <2>. QED  BY <2>3, <2>4 DEF OwnSpecs
<1>. QED  BY <1>1, Invariant, PTL

(* Only an edit of fstab by the command or by others changes the file.     *)
LEMMA FstabChanges ==
  ASSUME Next, fstab' # fstab
  PROVE  ReplaceForLabel \/ MoveEntry \/ EditFstab
<1>1. LabelStart \/ RemountStart \/ NotOpen => UNCHANGED fstab
  BY Zenon DEF LabelStart, RemountStart, NotOpen, Begin, world
<1>. DEFINE Quiet ==
      \/ Inspect \/ Unsupported \/ WriteLabel \/ ListForLabel \/ ReadForLabel \/ FstabFails \/ SelectForLabel
      \/ Labelled \/ Find \/ NoPlaceFor \/ Reread \/ CheckSpot \/ ListForRemount \/ CheckDirectory \/ Remounted
      \/ Unmount \/ AllUnmounted \/ Mount \/ GiveUp
<1>2. Quiet => UNCHANGED fstab
  BY Zenon DEF Inspect, Unsupported, WriteLabel, ListForLabel, ReadForLabel, FstabFails, SelectForLabel, Labelled,
     Find, NoPlaceFor, Reread, CheckSpot, ListForRemount, CheckDirectory, Remounted, Unmount, AllUnmounted, Mount,
     GiveUp, Fail, world
<1>3. OthersMount \/ OthersUnmount \/ OthersLock \/ LeaveFiles => UNCHANGED fstab
  BY Zenon DEF OthersMount, OthersUnmount, OthersLock, LeaveFiles
<1>4. CASE CommandStep
  <2>1. Quiet \/ ReplaceForLabel \/ MoveEntry
    BY <1>4, Zenon DEF CommandStep
  <2>. HIDE DEF Quiet
  <2>. QED  BY <1>2, <2>1
<1>5. CASE Others
  BY <1>3, <1>5, Zenon DEF Others
<1>. QED  BY <1>1, <1>4, <1>5 DEF Next

(* Besides lines with the UUID of the disk, remount takes only the line    *)
(* that names the disk by its label out of fstab, and label only those of  *)
(* the old label and, with --fstab, of the new, by LABEL= or by their      *)
(* mountpoint; but for those that others have put there since the command  *)
(* read the file.                                                          *)
THEOREM KeepsForeignLines == Spec => ForeignLinesKept
<1>1. ASSUME TypeOK, Inv, [Next]_vars, NEW l \in Lines, ~edited', Loses(l)
      PROVE  \/ pc = "move" /\ l.spec = ByLabel(labels[Disk])
             \/ pc = "replace" /\ (OfOld(l) \/ (add /\ OfNew(l)))
  <2>0. WorldOK /\ LocalsOK /\ AsRead
    BY <1>1, TypeParts DEF Inv
  <2>1. /\ l.spec # ByUuid(Disk) /\ \A j \in DOMAIN fstab' : fstab'[j] # l
        /\ \E i \in DOMAIN fstab : fstab[i] = l
    BY <1>1 DEF Loses, Foreign
  <2>2. fstab' # fstab
    BY <2>1
  <2>3. Next
    BY <1>1, <2>2 DEF vars, world
  <2>5. CASE ReplaceForLabel
    <3>1. /\ pc = "replace" /\ UNCHANGED edited
          /\ fstab' = IF ~add /\ Relabelled(lines, old, new, add) = lines THEN fstab
                      ELSE Relabelled(lines, old, new, add)
      BY <2>5, Zenon DEF ReplaceForLabel
    <3>2. lines = fstab
      BY <1>1, <2>0, <3>1 DEF AsRead
    <3>3. fstab' = Relabelled(lines, old, new, add)
      BY <3>1, <3>2
    <3>4. lines \in Seq(Lines) /\ old \in Labels \cup {NoLabel} /\ new \in Labels /\ add \in BOOLEAN
      BY <2>0 DEF LocalsOK
    <3>5. Obsolete(l, old, new, add)
      <4>1. \A k : (\E i \in DOMAIN lines : lines[i] = k) /\ ~Obsolete(k, old, new, add) =>
              \E j \in DOMAIN Relabelled(lines, old, new, add) : Relabelled(lines, old, new, add)[j] = k
        BY <3>4, RelabelledLines, SMTT(60)
      <4>2. \E i \in DOMAIN lines : lines[i] = l
        BY <2>1, <3>2, Zenon
      <4>3. ~\E j \in DOMAIN Relabelled(lines, old, new, add) : Relabelled(lines, old, new, add)[j] = l
        BY <2>1, <3>3, Zenon
      <4>. QED  BY <4>1, <4>2, <4>3, Zenon
    <3>6. OfOld(l) \/ (add /\ OfNew(l))
      BY <2>1, <3>5, Zenon DEF Obsolete, OfOld, OfNew
    <3>. QED  BY <3>1, <3>6
  <2>6. CASE MoveEntry
    <3>1. /\ pc = "move" /\ UNCHANGED edited
          /\ fstab' = [lines EXCEPT ![entry] = Line(found.spec, spot, labels[Disk])]
      BY <2>6, Zenon DEF MoveEntry, Moved
    <3>2. lines = fstab /\ lines[entry] = found /\ found.spec \in OwnSpecs
      BY <1>1, <2>0, <3>1 DEF AsRead
    <3>3. PICK i \in DOMAIN fstab : fstab[i] = l
      BY <2>1
    <3>4. CASE i = entry
      BY <2>1, <3>1, <3>2, <3>3, <3>4 DEF OwnSpecs
    <3>5. CASE i # entry
      <4>1. i \in DOMAIN fstab' /\ fstab'[i] = fstab[i]
        BY <2>0, <3>1, <3>2, <3>3, <3>5 DEF WorldOK
      <4>. QED  BY <2>1, <3>3, <4>1
    <3>. QED  BY <3>4, <3>5
  <2>7. CASE EditFstab
    BY <1>1, <2>7 DEF EditFstab
  <2>. QED  BY <2>2, <2>3, <2>5, <2>6, <2>7, FstabChanges
<1>2. TypeOK /\ Inv /\ [Next]_vars =>
        [\A l \in Lines :
           pc \in LabelPCs \cup RemountPCs /\ ~edited' /\ Loses(l) =>
             \/ pc = "move" /\ l.spec = ByLabel(labels[Disk])
             \/ pc = "replace" /\ (OfOld(l) \/ (add /\ OfNew(l)))]_vars
  BY <1>1, Zenon
<1>. QED  BY <1>2, Invariant, PTL DEF Spec, ForeignLinesKept

(* The steps by which a command in progress succeeds or refuses.           *)
LEMMA Succeeds ==
  ASSUME TypeOK, Inv, [Next]_vars, pc # "idle", outcome' \in {"done", "refused"}
  PROVE  /\ Unsupported \/ Labelled \/ NoPlaceFor \/ Reread \/ CheckSpot \/ Remounted
         /\ UNCHANGED <<mounts, edited, disturbed>>
<1>0. outcome = "none"
  BY DEF Inv, Flags
<1>1. outcome' # outcome
  BY <1>0
<1>2. Next
  BY <1>1 DEF vars, history
<1>3. ~(LabelStart \/ RemountStart \/ NotOpen)
  BY DEF LabelStart, RemountStart, NotOpen, Begin
<1>4. ~Others
  BY <1>1, OthersSteps DEF history
<1>5. ~(\/ Inspect \/ ListForLabel \/ ReadForLabel \/ ReplaceForLabel \/ FstabFails \/ SelectForLabel \/ Find
        \/ MoveEntry \/ ListForRemount \/ Unmount \/ AllUnmounted \/ Mount)
  BY <1>1, Zenon DEF Inspect, ListForLabel, ReadForLabel, ReplaceForLabel, FstabFails, SelectForLabel, Find,
     MoveEntry, ListForRemount, Unmount, AllUnmounted, Mount, history
<1>6. ~(WriteLabel \/ GiveUp \/ CheckDirectory)
  BY <1>1 DEF WriteLabel, GiveUp, Fail, CheckDirectory, End, history
<1>7. Unsupported \/ Labelled \/ NoPlaceFor \/ Reread \/ CheckSpot \/ Remounted
  BY <1>2, <1>3, <1>4, <1>5, <1>6, Zenon DEF Next, CommandStep
<1>8. UNCHANGED <<mounts, edited, disturbed>>
  BY <1>7, Zenon DEF Unsupported, Labelled, NoPlaceFor, Reread, CheckSpot, Remounted, world
<1>. QED  BY <1>7, <1>8

(* A disk that was mounted when label or remount began is mounted when the *)
(* command has succeeded or refused, if nobody else interfered and fstab   *)
(* has no other filesystem for the mountpoint.                             *)
THEOREM KeepsMounted == Spec => MountKept
<1>1. ASSUME TypeOK, Inv, [Next]_vars, pc # "idle", outcome' \in {"done", "refused"}, was, ~disturbed', ~edited',
             Uncontested(spot)
      PROVE  Targets' # {}
  <2>1. /\ Unsupported \/ Labelled \/ NoPlaceFor \/ Reread \/ CheckSpot \/ Remounted
        /\ UNCHANGED <<mounts, edited, disturbed>>
    BY <1>1, Succeeds
  <2>2. ~disturbed /\ ~edited /\ Meant
    BY <1>1, <2>1 DEF Meant
  <2>3. StillMounted /\ Mounted /\ Flags
    BY <1>1 DEF Inv
  <2>7. Targets # {} => Targets' # {}
    BY <2>1 DEF Targets
  <2>8. /\ pc \in {"info", "find", "reread", "check"} => Targets # {}
        /\ pc = "labelled" => Targets # {} \/ (again /\ (edited \/ ~Meant))
    BY <1>1, <2>2, <2>3 DEF StillMounted
  <2>4. CASE Unsupported \/ NoPlaceFor \/ Reread \/ CheckSpot
    <3>1. pc \in {"info", "find", "reread", "check"}
      BY <2>4, Zenon DEF Unsupported, NoPlaceFor, Reread, CheckSpot
    <3>. QED  BY <2>7, <2>8, <3>1
  <2>5. CASE Labelled
    <3>1. pc = "labelled"
      BY <2>5, Zenon DEF Labelled
    <3>. QED  BY <2>2, <2>7, <2>8, <3>1
  <2>6. CASE Remounted
    <3>1. pc = "remounted"
      BY <2>6 DEF Remounted
    <3>2. spot \in Spots /\ mounts[spot] = Disk
      BY <2>2, <2>3, <3>1 DEF Flags, Remounting, Mounted
    <3>. QED  BY <2>1, <3>2 DEF Targets
  <2>. QED  BY <2>1, <2>4, <2>5, <2>6, <2>7
<1>2. TypeOK /\ Inv /\ [Next]_vars =>
        [pc # "idle" /\ outcome' \in {"done", "refused"} /\ was /\ ~disturbed' /\ ~edited' /\ Uncontested(spot) =>
           Targets' # {}]_vars
  BY <1>1, Zenon
<1>. QED  BY <1>2, Invariant, PTL DEF Spec, MountKept
=============================================================================
