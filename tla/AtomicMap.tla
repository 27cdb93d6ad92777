----------------------------- MODULE AtomicMap -----------------------------
(***************************************************************************)
(* What diskmap.tsv promises its clients, whatever happens inside a write: *)
(* a client's command takes effect at one instant, on the map as it is at  *)
(* that instant, or not at all.  A power loss may take the map back only   *)
(* to a value that no acknowledged one has superseded (survivors).         *)
(***************************************************************************)
EXTENDS MapOps

CONSTANTS Clients, NoRequest

VARIABLES
    map,        \* the mapping
    survivors,  \* the mappings a power loss may leave
    request     \* client -> the command it wants applied, or NoRequest

vars == <<map, survivors, request>>

Init ==
    /\ map \in Maps
    /\ survivors = {map}
    /\ request = [c \in Clients |-> NoRequest]

Request(c) ==
    /\ request[c] = NoRequest
    /\ request'[c] \in Commands
    /\ request' = [request EXCEPT ![c] = request'[c]]
    /\ UNCHANGED <<map, survivors>>

\* The command of c is applied; seen is what was plugged in when it was judged.
Commit(c) ==
    /\ request[c] # NoRequest
    /\ \E seen \in SUBSET Devices :
          /\ Accepts(request[c], Migrate(map), seen)
          /\ map' = Apply(request[c], Migrate(map), seen)
    /\ survivors' = survivors \cup {map'}
    /\ request' = [request EXCEPT ![c] = NoRequest]

\* The command is refused, fails or is abandoned, without effect.
Drop(c) ==
    /\ request' = [request EXCEPT ![c] = NoRequest]
    /\ UNCHANGED <<map, survivors>>

\* The first read of an old file rewrites its raw records.
Upgrade ==
    /\ map' = Migrate(map)
    /\ survivors' = survivors \cup {map'}
    /\ UNCHANGED request

Acknowledge == survivors' = {map} /\ UNCHANGED <<map, request>>

PowerLoss ==
    /\ map' \in survivors
    /\ survivors' = {map'}
    /\ request' = [c \in Clients |-> NoRequest]

Next ==
    \/ \E c \in Clients : Request(c) \/ Commit(c) \/ Drop(c)
    \/ Upgrade \/ Acknowledge \/ PowerLoss

Spec == Init /\ [][Next]_vars
=============================================================================
