---------------------------- MODULE MCPartitions ----------------------------
(***************************************************************************)
(* The instance of Partitions that TLC checks: three units, two partition  *)
(* numbers, two filesystems; disks that are blank, that hold a filesystem  *)
(* of their own, and that have one or two partitions.                      *)
(***************************************************************************)
EXTENDS Partitions, TLC

Disk(t, one, two, contents) ==
    [table |-> t, parts |-> (1 :> one) @@ (2 :> two), fs |-> contents,
     kind |-> [f \in Filesystems |-> "ext4"]]

SomeStarts ==
    LET Bare == [u \in Places |-> Nothing] IN
    {Disk("none", Nothing, Nothing, Bare)}
    \cup {Disk("none", Nothing, Nothing, [Bare EXCEPT ![0] = f]) : f \in Filesystems}
    \cup {Disk("gpt", <<1, 1>>, Nothing, [Bare EXCEPT ![1] = f]) : f \in Filesystems}
    \cup {Disk("mbr", <<2, 2>>, <<1, 1>>, [Bare EXCEPT ![1] = p[1], ![2] = p[2]]) :
             p \in {q \in Filesystems \X Filesystems : q[1] # q[2]}}

SymFilesystems == Permutations(Filesystems)

\* The kind of a filesystem that is nowhere on the disk means nothing: whoever
\* makes it anew chooses a kind for it.
KindsThere == [f \in {g \in Filesystems : \E u \in Places : fs[u] = g} |-> kind[f]]
WithoutStaleKinds == <<table, parts, nodes, fs, KindsThere, busy, others, pc, op, locals, history>>
=============================================================================
