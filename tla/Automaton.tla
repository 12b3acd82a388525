------------------------------ MODULE Automaton ------------------------------
(***************************************************************************)
(* GenericDFA and GenericPartialSatisfactionDFA as they are read from      *)
(* files, one connection at a time: the connections of the DFA file, and   *)
(* then, for each node and each of the connections it had, the one in      *)
(* which another letter substitutes the letter at a cost.  The edge of a   *)
(* GenericDFA is an observation; here it has a substitution cost of 0.     *)
(*                                                                         *)
(* A DFA file is its states and its connections, in the order of the maps  *)
(* they are read into.  A sub map file is its three parallel lists, or     *)
(* NoSubMap if it has no "From Observations".  Nodes start with 0, indices *)
(* into sequences with 1.                                                  *)
(***************************************************************************)
EXTENDS Integers, FiniteSets, SequencesExt

VARIABLES
    loading,     \* "idle", "connecting", "substituting", "loaded" or "refused"
    automaton,   \* the automaton being read
    data,        \* its DFA file
    sub_data,    \* its sub map file
    row,         \* the connections of the file read so far
    src_node,    \* the node whose letters are substituted
    edges,       \* a copy of the connections it had
    substituted  \* how many of them were looked at

loader_vars == <<loading, automaton, data, sub_data, row, src_node, edges, substituted>>

PartialSatisfactionEdge(observation, substitution_cost) ==
    [observation |-> observation, substitution_cost |-> substitution_cost]

NoData == [init |-> <<>>, accepting |-> {}, connections |-> <<>>]
NoSubMap == [from |-> <<>>, to |-> <<>>, costs |-> <<>>]

\* A new automaton, with the states of the file.
NewAutomaton(dfa_data) ==
    [m_init_states |-> dfa_data.init, m_accepting_states |-> dfa_data.accepting,
     m_alphabet |-> {}, m_graph |-> <<>>]

size(m) == Len(m.m_graph)
isAccepting(m, n) == n \in m.m_accepting_states

\* children(n) with outgoingEdges(n).
leaving(m, n) == IF n < size(m) THEN m.m_graph[n + 1] ELSE <<>>

Larger(x, y) == IF x > y THEN x ELSE y

\* Graph::connect: the graph grows up to the larger node.
Extended(m, src, dst, edge) ==
    [n \in 1 .. Larger(size(m), Larger(src, dst) + 1) |->
        leaving(m, n - 1) \o (IF n = src + 1 THEN <<[dst |-> dst, edge |-> edge]>> ELSE <<>>)]

\* A connection of src reads the letter already.
IsRead(m, src, letter) ==
    \E k \in DOMAIN leaving(m, src) : leaving(m, src)[k].edge.observation = letter

\* Slip seen by LabelsDetermineSuccessors: the guard compares whole edges.
ConnectUnlessEqual(m, src, dst, edge) ==
    IF \E k \in DOMAIN leaving(m, src) : leaving(m, src)[k].edge = edge THEN m
    ELSE [m EXCEPT !.m_graph = Extended(m, src, dst, edge)]

\* connect: "Do not connect if there is already".
connect(m, src, dst, edge) ==
    IF IsRead(m, src, edge.observation) THEN m
    ELSE [m EXCEPT !.m_graph = Extended(m, src, dst, edge)]

\* The letter joins the alphabet, whether or not it is connected.
Reads(m, src, dst, edge) ==
    connect([m EXCEPT !.m_alphabet = @ \cup {edge.observation}], src, dst, edge)

\* sub_map: of a letter with several substitutes, try_emplace keeps the first.
sub_map(sub) ==
    [letter \in Range(sub.from) |->
        LET first == CHOOSE k \in DOMAIN sub.from :
                        /\ sub.from[k] = letter
                        /\ \A j \in 1 .. k - 1 : sub.from[j] # letter
        IN  PartialSatisfactionEdge(sub.to[first], sub.costs[first])]

-----------------------------------------------------------------------------
LoaderInit ==
    /\ loading = "idle" /\ automaton = NewAutomaton(NoData)
    /\ data = NoData /\ sub_data = NoSubMap
    /\ row = 0 /\ src_node = 0 /\ edges = <<>> /\ substituted = 0

\* deserialize() of an automaton made for it.
Open(dfa_data, sub) ==
    /\ loading' = "connecting"
    /\ automaton' = NewAutomaton(dfa_data)
    /\ data' = dfa_data /\ sub_data' = sub
    /\ row' = 0 /\ src_node' = 0 /\ edges' = <<>> /\ substituted' = 0

\* The next connection of the file.
Connect ==
    /\ loading = "connecting" /\ row < Len(data.connections)
    /\ LET c == data.connections[row + 1]
       IN  automaton' = Reads(automaton, c.src, c.dst, PartialSatisfactionEdge(c.label, 0))
    /\ row' = row + 1
    /\ UNCHANGED <<loading, data, sub_data, src_node, edges, substituted>>

\* The sub map is read, and its lists asserted to be parallel.
BeginSubstitution ==
    /\ loading = "connecting" /\ row = Len(data.connections)
    /\ IF Len(sub_data.from) = Len(sub_data.to) /\ Len(sub_data.to) = Len(sub_data.costs)
         THEN loading' = "substituting" /\ edges' = leaving(automaton, 0)
         ELSE loading' = "refused" /\ UNCHANGED edges
    /\ UNCHANGED <<automaton, data, sub_data, row, src_node, substituted>>

\* Slip seen by SubstitutionsAreOfTheFile: the connections are not copied.
LiveEdges == leaving(automaton, src_node)

\* "Copy so that recursive substitutions do not happen".
CopiedEdges == edges

\* The next of them: the letter may have a substitute.
Substitute ==
    /\ loading = "substituting" /\ substituted < Len(CopiedEdges)
    /\ LET c == CopiedEdges[substituted + 1]
           substitutes == sub_map(sub_data)
       IN  automaton' =
             IF c.edge.observation \in DOMAIN substitutes
               THEN Reads(automaton, src_node, c.dst, substitutes[c.edge.observation])
               ELSE automaton
    /\ substituted' = substituted + 1
    /\ UNCHANGED <<loading, data, sub_data, row, src_node, edges>>

\* The next node, or the end.
NextNode ==
    /\ loading = "substituting" /\ substituted = Len(CopiedEdges)
    /\ src_node' = src_node + 1
    /\ substituted' = 0
    /\ edges' = leaving(automaton, src_node + 1)
    /\ loading' = IF src_node + 1 < size(automaton) THEN loading ELSE "loaded"
    /\ UNCHANGED <<automaton, data, sub_data, row>>

Load == Connect \/ BeginSubstitution \/ Substitute \/ NextNode
=============================================================================
