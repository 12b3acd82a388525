----------------------------- MODULE Multigraph -----------------------------
(***************************************************************************)
(* What a graph is to its clients: a bag of connections, each from one     *)
(* node to another with an edge.                                           *)
(***************************************************************************)
EXTENDS Naturals

CONSTANTS NodeIds, Edges

Connection == [src : NodeIds, dst : NodeIds, edge : Edges]

VARIABLE connections  \* how often each connection is there

Init == connections = [c \in Connection |-> 0]

Connect ==
    \E c \in Connection : connections' = [connections EXCEPT ![c] = @ + 1]

\* The connections of some kinds that leave or enter one node are removed, all
\* of the same kind together.
DisconnectAt(end) ==
    \E n \in NodeIds, removed \in SUBSET {c \in Connection : connections[c] > 0} :
        /\ \A c \in removed : c[end] = n
        /\ connections' = [c \in Connection |->
                              IF c \in removed THEN 0 ELSE connections[c]]

Reverse ==
    connections' = [c \in Connection |->
        connections[[src |-> c.dst, dst |-> c.src, edge |-> c.edge]]]

Next ==
    \/ Connect
    \/ DisconnectAt("src")
    \/ DisconnectAt("dst")
    \/ Reverse

Spec == Init /\ [][Next]_connections
=============================================================================
