------------------------------- MODULE Clone --------------------------------
(***************************************************************************)
(* clone, once Guard has let it write: two passes of ddrescue, resumed     *)
(* from a mapfile that is kept for each pair of source and destination     *)
(* identities and never removed, next to a metadata file that binds it to  *)
(* the pair.  Cloners may be interrupted and the machine may lose power    *)
(* between any two steps, and other programs write to both disks.          *)
(***************************************************************************)
EXTENDS Naturals, FiniteSets

CONSTANTS
    Cloners,   \* diskmgr processes
    Disks,     \* disks, by their identity
    Pairs,     \* pairs <<source, destination>> that users clone
    Blocks,    \* the blocks of the source
    Values,    \* what a block may hold
    Flaky,     \* blocks whose reading may fail
    Busy,      \* do others write to a disk while it is being cloned?
    NoMap,     \* "there is no mapfile"
    NoCloner   \* "nobody holds the lock"

ASSUME CloneConstants ==
    /\ Pairs \subseteq {p \in Disks \X Disks : p[1] # p[2]} /\ Pairs # {}
    /\ Flaky \subseteq Blocks /\ Busy \in BOOLEAN
    /\ NoCloner \notin Cloners
    /\ NoMap \notin [Blocks -> {"?", "-", "+"}]

VARIABLES
    vol,       \* disk -> what its blocks read as
    platter,   \* disk -> what of that is certain to survive a power loss
    meta,      \* pair -> its metadata file
    mapfile,   \* pair -> its mapfile
    touched,   \* pairs changed by others since their mapfile was begun
    lock,      \* disk -> the cloner that holds its device lock
    pc,        \* cloner -> its next step
    pair,      \* cloner -> its source and destination
    mem,       \* cloner -> the map that its ddrescue has in memory
    todo,      \* cloner -> the blocks that its ddrescue still tries
    failed     \* cloner -> a pass ended with an error

vars == <<vol, platter, meta, mapfile, touched, lock, pc, pair, mem, todo, failed>>

PCs == {"idle", "bind", "pass1", "copy1", "pass2", "copy2", "sync", "parse",
        "complete",   \* "Cloning complete", after reading the mapfile
        "unread"}     \* the same, of a mapfile that could not be read

\* "?" is not tried yet, "-" could not be read, "+" is copied.
Maps == [Blocks -> {"?", "-", "+"}]
Untried == [b \in Blocks |-> "?"]

AnyPair == CHOOSE p \in Pairs : TRUE

Src(c) == pair[c][1]
Dst(c) == pair[c][2]

TypeOK ==
    /\ vol \in [Disks -> [Blocks -> Values]]
    /\ platter \in [Disks -> [Blocks -> Values]]
    /\ meta \in [Pairs -> {"none", "fresh", "bound", "torn"}]
    /\ mapfile \in [Pairs -> Maps \cup {NoMap}]
    /\ touched \subseteq Pairs
    /\ lock \in [Disks -> Cloners \cup {NoCloner}]
    /\ pc \in [Cloners -> PCs]
    /\ pair \in [Cloners -> Pairs]
    /\ mem \in [Cloners -> Maps]
    /\ todo \in [Cloners -> SUBSET Blocks]
    /\ failed \in [Cloners -> BOOLEAN]

Init ==
    /\ vol \in [Disks -> [Blocks -> Values]]
    /\ platter = vol
    /\ meta = [p \in Pairs |-> "none"]
    /\ mapfile = [p \in Pairs |-> NoMap]
    /\ touched = {}
    /\ lock = [d \in Disks |-> NoCloner]
    /\ pc = [c \in Cloners |-> "idle"]
    /\ pair = [c \in Cloners |-> AnyPair]
    /\ mem = [c \in Cloners |-> Untried]
    /\ todo = [c \in Cloners |-> {}]
    /\ failed = [c \in Cloners |-> FALSE]

-----------------------------------------------------------------------------
Goto(c, next) == pc' = [pc EXCEPT ![c] = next]

\* The command is over (finally: the lock is released).
End(c) ==
    /\ lock' = [d \in Disks |-> IF lock[d] = c THEN NoCloner ELSE lock[d]]
    /\ Goto(c, "idle")
    /\ pair' = [pair EXCEPT ![c] = AnyPair]
    /\ mem' = [mem EXCEPT ![c] = Untried]
    /\ todo' = [todo EXCEPT ![c] = {}]
    /\ failed' = [failed EXCEPT ![c] = FALSE]

Free(d) == lock[d] = NoCloner

\* Guard has locked the destination; it does not lock the source.
Begin(c, p) ==
    /\ pc[c] = "idle" /\ Free(p[2])
    /\ lock' = [lock EXCEPT ![p[2]] = c]
    /\ pair' = [pair EXCEPT ![c] = p]
    /\ Goto(c, "bind")
    /\ UNCHANGED <<vol, platter, meta, mapfile, touched, mem, todo, failed>>

\* The metadata cannot be read, or there is a mapfile without it.
Refused(p) == meta[p] = "torn" \/ (meta[p] = "none" /\ mapfile[p] # NoMap)

\* Mutant: the metadata is left for later.
BindLater(c) ==
    /\ pc[c] = "bind"
    /\ ~Refused(pair[c])
    /\ touched' = IF mapfile[pair[c]] = NoMap THEN touched \ {pair[c]} ELSE touched
    /\ Goto(c, "pass1")
    /\ UNCHANGED <<vol, platter, meta, mapfile, lock, pair, mem, todo, failed>>

\* The metadata is there and names the pair, or is written to a temporary
\* file and moved into place, without an fsync.
Bind(c) ==
    /\ pc[c] = "bind"
    /\ ~Refused(pair[c])
    /\ meta' = [meta EXCEPT ![pair[c]] = IF @ = "none" THEN "fresh" ELSE @]
    /\ touched' = IF mapfile[pair[c]] = NoMap THEN touched \ {pair[c]} ELSE touched
    /\ Goto(c, "pass1")
    /\ UNCHANGED <<vol, platter, mapfile, lock, pair, mem, todo, failed>>

BindFails(c) ==
    /\ pc[c] = "bind"
    /\ Refused(pair[c])
    /\ End(c)
    /\ UNCHANGED <<vol, platter, meta, mapfile, touched>>

-----------------------------------------------------------------------------
(***************************************************************************)
(* ddrescue.                                                               *)
(***************************************************************************)
Resumed(p) == IF mapfile[p] = NoMap THEN Untried ELSE mapfile[p]

\* A pass resumes from the mapfile.  The first tries what was never tried, the
\* second (-r3) also what could not be read.
StartPass(c) ==
    /\ pc[c] \in {"pass1", "pass2"}
    /\ mem' = [mem EXCEPT ![c] = Resumed(pair[c])]
    /\ LET wanted == IF pc[c] = "pass1" THEN {"?"} ELSE {"?", "-"}
       IN  todo' = [todo EXCEPT ![c] = {b \in Blocks : mem'[c][b] \in wanted}]
    /\ Goto(c, IF pc[c] = "pass1" THEN "copy1" ELSE "copy2")
    /\ UNCHANGED <<vol, platter, meta, mapfile, touched, lock, pair, failed>>

Copying(c) == pc[c] \in {"copy1", "copy2"}

CopyBlock(c, b) ==
    /\ Copying(c) /\ b \in todo[c]
    /\ vol' = [vol EXCEPT ![Dst(c)][b] = vol[Src(c)][b]]
    /\ mem' = [mem EXCEPT ![c][b] = "+"]
    /\ todo' = [todo EXCEPT ![c] = @ \ {b}]
    /\ touched' = touched \cup {p \in Pairs \ {pair[c]} : Dst(c) \in {p[1], p[2]}}
    /\ UNCHANGED <<platter, meta, mapfile, lock, pc, pair, failed>>

\* Mutant: the block is set aside ("*", not trimmed) for another try.
ReadFailsAside(c, b) ==
    /\ Copying(c) /\ b \in todo[c] \cap Flaky
    /\ mem' = [mem EXCEPT ![c][b] = "*"]
    /\ todo' = [todo EXCEPT ![c] = @ \ {b}]
    /\ UNCHANGED <<vol, platter, meta, mapfile, touched, lock, pc, pair, failed>>

ReadFails(c, b) ==
    /\ Copying(c) /\ b \in todo[c] \cap Flaky
    /\ mem' = [mem EXCEPT ![c][b] = "-"]
    /\ todo' = [todo EXCEPT ![c] = @ \ {b}]
    /\ UNCHANGED <<vol, platter, meta, mapfile, touched, lock, pc, pair, failed>>

\* Mutant: the map is saved before the data that it vouches for.
SavedUnsynced(c) ==
    /\ mapfile' = [mapfile EXCEPT ![pair[c]] = mem[c]]
    /\ UNCHANGED platter

\* ddrescue syncs the destination, then writes its map over the mapfile.
Saved(c) ==
    /\ platter' = [platter EXCEPT ![Dst(c)] = vol[Dst(c)]]
    /\ mapfile' = [mapfile EXCEPT ![pair[c]] = mem[c]]

Save(c) ==
    /\ Copying(c)
    /\ mapfile[pair[c]] # mem[c]
    /\ Saved(c)
    /\ UNCHANGED <<vol, meta, touched, lock, pc, pair, mem, todo, failed>>

\* Mutant: the second pass is repeated until every block is read.
EndPassAgain(c) ==
    /\ Copying(c) /\ todo[c] = {}
    /\ Saved(c)
    /\ Goto(c, IF \A b \in Blocks : mem[c][b] = "+" THEN "sync" ELSE "pass2")
    /\ UNCHANGED <<vol, meta, touched, lock, pair, mem, todo, failed>>

\* A pass ends when it has tried all it wanted, or earlier with an error (the
\* destination cannot be written); clone goes on all the same.
EndPass(c) ==
    /\ Copying(c)
    /\ \E error \in BOOLEAN :
         /\ todo[c] # {} => error
         /\ failed' = [failed EXCEPT ![c] = @ \/ error]
    /\ Saved(c)
    /\ Goto(c, IF pc[c] = "copy1" THEN "pass2" ELSE "sync")
    /\ todo' = [todo EXCEPT ![c] = {}]
    /\ UNCHANGED <<vol, meta, touched, lock, pair, mem>>

-----------------------------------------------------------------------------
Synced(m) == [p \in Pairs |-> IF m[p] = "fresh" THEN "bound" ELSE m[p]]

Sync(c) ==
    /\ pc[c] = "sync"
    /\ platter' = vol
    /\ meta' = Synced(meta)
    /\ Goto(c, "parse")
    /\ UNCHANGED <<vol, mapfile, touched, lock, pair, mem, todo, failed>>

\* Mutant: unreadable ranges are reported but do not fail the clone.
BadBlocksNone(m) == {}

\* _parse_ddrescue_failed_ranges: "-" ranges, and none if there is no mapfile.
BadBlocks(m) == IF m = NoMap THEN {} ELSE {b \in Blocks : m[b] = "-"}

\* "Cloning complete".  A mapfile that cannot be read is one without bad blocks.
Complete(c) ==
    /\ pc[c] = "parse"
    /\ ~failed[c]
    /\ \/ BadBlocks(mapfile[pair[c]]) = {} /\ Goto(c, "complete")
       \/ mapfile[pair[c]] # NoMap /\ Goto(c, "unread")
    /\ UNCHANGED <<vol, platter, meta, mapfile, touched, lock, pair, mem, todo, failed>>

\* "Clone did not complete cleanly", or sync failed.
Incomplete(c) ==
    /\ \/ pc[c] = "parse" /\ (failed[c] \/ BadBlocks(mapfile[pair[c]]) # {})
       \/ pc[c] = "sync"
    /\ End(c)
    /\ UNCHANGED <<vol, platter, meta, mapfile, touched>>

Release(c) ==
    /\ pc[c] \in {"complete", "unread"}
    /\ End(c)
    /\ UNCHANGED <<vol, platter, meta, mapfile, touched>>

\* Ctrl-C, a signal, an exception: diskmgr and its ddrescue end, which may
\* have saved its map first (Save).
Interrupt(c) ==
    /\ pc[c] # "idle"
    /\ End(c)
    /\ UNCHANGED <<vol, platter, meta, mapfile, touched>>

\* Every block that was not synced may or may not be on its disk, and so may
\* the metadata; a disk that is a source elsewhere has changed for that pair.
PowerLoss ==
    /\ \E v \in [Disks -> [Blocks -> Values]] :
         /\ \A d \in Disks, b \in Blocks : v[d][b] \in {vol[d][b], platter[d][b]}
         /\ vol' = v /\ platter' = v
         /\ touched' = touched \cup {p \in Pairs : v[p[1]] # vol[p[1]]}
    /\ \E m \in [Pairs -> {"none", "bound", "torn"}] :
         /\ \A p \in Pairs : meta[p] # "fresh" => m[p] = meta[p]
         /\ meta' = m
    /\ mapfile' \in {mapfile} \cup {[mapfile EXCEPT ![p] = NoMap] : p \in Pairs}
    /\ lock' = [d \in Disks |-> NoCloner]
    /\ pc' = [c \in Cloners |-> "idle"]
    /\ pair' = [c \in Cloners |-> AnyPair]
    /\ mem' = [c \in Cloners |-> Untried]
    /\ todo' = [c \in Cloners |-> {}]
    /\ failed' = [c \in Cloners |-> FALSE]

\* Another program writes to a disk: the source is in use, or the destination
\* is erased or used between two clones.
Change(d, b) ==
    /\ Busy \/ \A c \in Cloners : pc[c] # "idle" => d \notin {Src(c), Dst(c)}
    /\ \E v \in Values \ {vol[d][b]} :
         /\ vol' = [vol EXCEPT ![d][b] = v]
         /\ platter' = [platter EXCEPT ![d][b] = v]
    /\ touched' = touched \cup {p \in Pairs : d \in {p[1], p[2]}}
    /\ UNCHANGED <<meta, mapfile, lock, pc, pair, mem, todo, failed>>

Step(c) ==
    \/ Bind(c) \/ BindFails(c) \/ StartPass(c) \/ EndPass(c)
    \/ \E b \in Blocks : CopyBlock(c, b) \/ ReadFails(c, b)
    \/ Sync(c) \/ Complete(c) \/ Incomplete(c) \/ Release(c)

Next ==
    \/ \E c \in Cloners :
         Step(c) \/ Save(c) \/ Interrupt(c) \/ \E p \in Pairs : Begin(c, p)
    \/ \E d \in Disks, b \in Blocks : Change(d, b)
    \/ PowerLoss

Spec == Init /\ [][Next]_vars

\* ddrescue and the probes make progress; whoever holds the lock goes on.
FairSpec == Spec /\ \A c \in Cloners : WF_vars(Step(c))

-----------------------------------------------------------------------------
(***************************************************************************)
(* Properties.                                                             *)
(***************************************************************************)
\* A clone that reports completion has made the destination equal to the
\* source, across interruptions and power losses, if no one else changed
\* either since the mapfile of the pair was begun.  Where diskmgr could not
\* read the mapfile it reports completion over bad blocks: then it is equal
\* in all blocks but those that ddrescue marked as such.
CompleteIsTwin ==
    \A c \in Cloners : pc[c] \in {"complete", "unread"} /\ pair[c] \notin touched =>
        \A b \in Blocks :
            vol[Dst(c)][b] = vol[Src(c)][b] \/ (pc[c] = "unread" /\ mapfile[pair[c]][b] = "-")

\* What a mapfile calls copied is on the platter of the destination, so that a
\* clone may be resumed from it after a power loss.
MapTruthful ==
    \A p \in Pairs \ touched : mapfile[p] # NoMap =>
        \A b \in Blocks : mapfile[p][b] = "+" =>
            vol[p[2]][b] = vol[p[1]][b] /\ platter[p[2]][b] = vol[p[1]][b]

\* Only a power loss leaves a pair behind that clone refuses until someone
\* removes its files; an interrupted clone can be run again.
OnlyPowerLossRefuses ==
    [][\A p \in Pairs : ~Refused(p) /\ Refused(p)' => PowerLoss]_vars

\* Every clone ends.
ClonesEnd == \A c \in Cloners : pc[c] # "idle" ~> pc[c] = "idle"

\* A clone that reports completion has made the destination equal to the
\* source ("Creates a 1:1 bit-perfect clone. The target disk becomes an
\* identical twin"), where no one changes either while it runs (~Busy).
CompleteIsAlwaysTwin ==
    \A c \in Cloners : pc[c] = "complete" => vol[Dst(c)] = vol[Src(c)]

=============================================================================
