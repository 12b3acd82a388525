-------------------------------- MODULE Graph --------------------------------
(***************************************************************************)
(* Graph, directed and reversible: every node has an adjacency list of its *)
(* outgoing connections and one of its incoming connections, and each      *)
(* operation changes both.  A predicate given to disconnectIf is the set   *)
(* of connections it removes: edges that are == are removed together, as   *)
(* every predicate in the code has it.                                     *)
(***************************************************************************)
EXTENDS Naturals, FiniteSets, SequencesExt

CONSTANTS
    Edges,           \* the values of an edge, told apart by operator==
    MaxNode,         \* bound: the largest node index
    MaxConnections,  \* bound: connect() is called while there are fewer
    Garbage          \* what an uninitialised counter may start with

ASSUME GraphAssumption ==
    /\ MaxNode \in Nat
    /\ MaxConnections \in Nat
    /\ Garbage \subseteq Nat

VARIABLES
    m_graph,  \* from a node to its forward and backward adjacency list
    status    \* "running", or "exited" by a failed ASSERT

vars == <<m_graph, status>>

NodeIds == 0 .. MaxNode

size == Cardinality(DOMAIN m_graph)

Unconnected == [forward |-> <<>>, backward |-> <<>>]

Init ==
    /\ m_graph = [n \in {} |-> Unconnected]
    /\ status = "running"

Occurrences(list, node, edge) ==
    Cardinality({k \in DOMAIN list : list[k] = [node |-> node, edge |-> edge]})

Connections == FoldSet(LAMBDA n, sum : Len(m_graph[n].forward) + sum, 0, DOMAIN m_graph)

-----------------------------------------------------------------------------
\* Slip seen by Mirrored: the graph grows for the source only.
GrownForSource(src, dst) ==
    [n \in 0 .. Max({src, size - 1}) |->
        IF n \in DOMAIN m_graph THEN m_graph[n] ELSE Unconnected]

\* m_graph.resize, if one of the nodes is not there yet.
Grown(src, dst) ==
    [n \in 0 .. Max({src, dst, size - 1}) |->
        IF n \in DOMAIN m_graph THEN m_graph[n] ELSE Unconnected]

connect(src, dst, edge) ==
    /\ Connections < MaxConnections
    /\ m_graph' = [n \in DOMAIN Grown(src, dst) |->
          LET lists == Grown(src, dst)[n]
          IN  [forward  |-> IF n = src THEN Append(lists.forward, [node |-> dst, edge |-> edge])
                                       ELSE lists.forward,
               backward |-> IF n = dst THEN Append(lists.backward, [node |-> src, edge |-> edge])
                                       ELSE lists.backward]]
    /\ UNCHANGED status

\* Slip seen by ImplementsMultigraph: only the first is removed.
WithoutFirst(list, removed) ==
    LET k == SelectInSeq(list, LAMBDA entry : entry \in removed)
    IN  IF k = 0 THEN list ELSE RemoveAt(list, k)

\* AdjacencyList::disconnectIf.
Without(list, removed) ==
    FoldLeft(LAMBDA kept, entry : IF entry \in removed THEN kept ELSE Append(kept, entry),
             <<>>, list)

\* The other end, in n's list, of each connection removed at a node:
\* AdjacencyList::disconnect(node, edge).
WithoutOtherEnds(list, n, at, removed) ==
    Without(list, {[node |-> at, edge |-> entry.edge] : entry \in {r \in removed : r.node = n}})

disconnectIf(src, removed) ==
    /\ src \in DOMAIN m_graph
    /\ removed \subseteq Range(m_graph[src].forward)
    /\ m_graph' = [n \in DOMAIN m_graph |->
          [forward  |-> IF n = src THEN Without(m_graph[n].forward, removed)
                                   ELSE m_graph[n].forward,
           backward |-> WithoutOtherEnds(m_graph[n].backward, n, src, removed)]]
    /\ UNCHANGED status

rdisconnectIf(dst, removed) ==
    /\ dst \in DOMAIN m_graph
    /\ removed \subseteq Range(m_graph[dst].backward)
    /\ m_graph' = [n \in DOMAIN m_graph |->
          [backward |-> IF n = dst THEN Without(m_graph[n].backward, removed)
                                   ELSE m_graph[n].backward,
           forward  |-> WithoutOtherEnds(m_graph[n].forward, n, dst, removed)]]
    /\ UNCHANGED status

reverse ==
    /\ m_graph' = [n \in DOMAIN m_graph |->
          [forward |-> m_graph[n].backward, backward |-> m_graph[n].forward]]
    /\ UNCHANGED status

-----------------------------------------------------------------------------
\* What disconnect(node) and disconnect(node, edge) report of a list: the counter
\* they return is never initialised.
Found(list, removed, garbage) ==
    garbage + Len(list) - Len(Without(list, removed)) > 0

EntriesOf(list, node) == {entry \in Range(list) : entry.node = node}

\* Both disconnect methods: the given entries go from src's forward list.  If
\* that is reported as found, all connections from src go from dst's backward
\* list, and it is an error if that is not reported as found.
DisconnectForward(src, dst, removed) ==
    \E g1, g2 \in Garbage :
        LET incoming == EntriesOf(m_graph[dst].backward, src)
            found    == Found(m_graph[src].forward, removed, g1)
        IN  /\ m_graph' = [n \in DOMAIN m_graph |->
                  [forward  |-> IF n = src THEN Without(m_graph[n].forward, removed)
                                           ELSE m_graph[n].forward,
                   backward |-> IF n = dst /\ found
                                  THEN Without(m_graph[n].backward, incoming)
                                  ELSE m_graph[n].backward]]
            /\ status' = IF found /\ ~ Found(m_graph[dst].backward, incoming, g2)
                           THEN "exited" ELSE "running"

disconnect(src, dst) ==
    /\ {src, dst} \subseteq DOMAIN m_graph
    /\ DisconnectForward(src, dst, EntriesOf(m_graph[src].forward, dst))

disconnectEdge(src, dst, edge) ==
    /\ {src, dst} \subseteq DOMAIN m_graph
    /\ DisconnectForward(src, dst, {[node |-> dst, edge |-> edge]})

-----------------------------------------------------------------------------
\* The operations the code's own clients may call in any order ...
Next ==
    /\ status = "running"
    /\ \/ \E src, dst \in NodeIds, edge \in Edges : connect(src, dst, edge)
       \/ \E src \in DOMAIN m_graph : \E removed \in SUBSET Range(m_graph[src].forward) :
             disconnectIf(src, removed)
       \/ \E dst \in DOMAIN m_graph : \E removed \in SUBSET Range(m_graph[dst].backward) :
             rdisconnectIf(dst, removed)
       \/ reverse

Spec == Init /\ [][Next]_vars

\* ... and the two that nothing but removeDeadLeaves calls.
NextWithDisconnect ==
    \/ Next
    \/ /\ status = "running"
       /\ \E src, dst \in DOMAIN m_graph :
             \/ disconnect(src, dst)
             \/ \E edge \in Edges : disconnectEdge(src, dst, edge)

SpecWithDisconnect == Init /\ [][NextWithDisconnect]_vars

-----------------------------------------------------------------------------
\* A node's incoming connections are what the other nodes' outgoing connections
\* say, each as often: parallel edges, equal edges and self-loops included; and
\* every node named in a list has lists of its own.
Mirrored ==
    /\ \A n, m \in DOMAIN m_graph : \A edge \in Edges :
          Occurrences(m_graph[n].forward, m, edge) = Occurrences(m_graph[m].backward, n, edge)
    /\ \A n \in DOMAIN m_graph : \A entry \in Range(m_graph[n].forward) \cup Range(m_graph[n].backward) :
          entry.node \in DOMAIN m_graph

\* The connections, as the forward lists tell them.
Forward ==
    [c \in [src : NodeIds, dst : NodeIds, edge : Edges] |->
        IF c.src \in DOMAIN m_graph
          THEN Occurrences(m_graph[c.src].forward, c.dst, c.edge) ELSE 0]

Abstract == INSTANCE Multigraph WITH connections <- Forward

\* Seen from the forward lists the graph is a bag of connections, also when the
\* lists have been filtered from the other end or have traded places.
ImplementsMultigraph == Abstract!Spec

\* ASSERT(found, "Disconnection found in forward, but not backward").
AssertionHolds == status = "running"
=============================================================================
