----------------------- MODULE PreferencePlannerProofs -----------------------
(***************************************************************************)
(* That the automata the planners read are deterministic at every moment   *)
(* of their reading, that what was read is what the files say, whatever    *)
(* they say, and that the plans that end up on the disk can be executed,   *)
(* do their tasks and cost what is written on them.                        *)
(*                                                                         *)
(* There are four invariants, each resting on those before it.  IInv adds  *)
(* to determinism that the graph is a sequence of sequences, that the      *)
(* connections copied for substitution lead to nodes, and that the files   *)
(* are those of the disk.  SInv says of each stage of the reading which    *)
(* connections are there: those of the rows read so far; then those of all *)
(* rows and, up to the node and the connection that were come to, the      *)
(* substitutes.  LInv says that what was read can be planned in: each      *)
(* connection leads to a node, and there is a node to start in.  TInv is   *)
(* about the planning: each walk of the search is a run of the tasks at    *)
(* the walk's cost, each plan is that of such a walk, and each file that   *)
(* of a plan.                                                              *)
(***************************************************************************)
EXTENDS PreferencePlanner, WellFoundedInduction, TLAPS

\* A list of connections to nodes; the entries' type is whatever they are.
IsList(list) == \E S : list \in Seq(S) /\ \A x \in S : x.dst \in Nat

IsGraph(g) == \E S : g \in Seq(Seq(S)) /\ \A x \in S : x.dst \in Nat

IsAutomaton(m) ==
    /\ m = [m_init_states |-> m.m_init_states, m_accepting_states |-> m.m_accepting_states,
            m_alphabet |-> m.m_alphabet, m_graph |-> m.m_graph]
    /\ IsGraph(m.m_graph)
    /\ Deterministic(m)

Kept(list) == \E S : list \in Seq(S) /\ \A m \in S : Deterministic(m)

IInv ==
    /\ task \in Tasks
    /\ data.connections \in Seq([src : Nat, dst : Nat, label : Letters])
    /\ row \in Nat /\ src_node \in Nat /\ substituted \in Nat
    /\ IsList(edges)
    /\ IsAutomaton(automaton)
    /\ Kept(dfas)

-----------------------------------------------------------------------------
LEMMA EmptyLists == IsList(<<>>) /\ IsGraph(<<>>) /\ Kept(<<>>)
<1> DEFINE E == {}
<1>1. \A x : x \notin E
  OBVIOUS
<1> HIDE DEF E
<1>2. <<>> \in Seq(E) /\ <<>> \in Seq(Seq(E))
  OBVIOUS
<1>3. (\A x \in E : x.dst \in Nat) /\ (\A m \in E : Deterministic(m))
  BY <1>1
<1>4. IsList(<<>>)
  BY <1>2, <1>3 DEF IsList
<1>5. IsGraph(<<>>)
  BY <1>2, <1>3 DEF IsGraph
<1>6. Kept(<<>>)
  BY <1>2, <1>3 DEF Kept
<1> QED BY <1>4, <1>5, <1>6

LEMMA NewAutomatonIsOne ==
    ASSUME NEW d
    PROVE  IsAutomaton(NewAutomaton(d))
BY EmptyLists DEF IsAutomaton, NewAutomaton, Deterministic

LEMMA LeavingIsAList ==
    ASSUME NEW m, IsAutomaton(m), NEW n \in Nat
    PROVE  IsList(leaving(m, n))
<1>1. PICK S : m.m_graph \in Seq(Seq(S)) /\ \A x \in S : x.dst \in Nat
  BY DEF IsAutomaton, IsGraph
<1>2. leaving(m, n) \in Seq(S)
  BY <1>1 DEF leaving, size
<1> QED BY <1>1, <1>2 DEF IsList

\* A letter that joins the alphabet disturbs nothing.
LEMMA AlphabetGrows ==
    ASSUME NEW m, IsAutomaton(m), NEW letter
    PROVE  LET read == [m EXCEPT !.m_alphabet = @ \cup {letter}]
           IN  IsAutomaton(read) /\ letter \in read.m_alphabet
<1> DEFINE read == [m EXCEPT !.m_alphabet = @ \cup {letter}]
<1>1. read = [m_init_states |-> m.m_init_states, m_accepting_states |-> m.m_accepting_states,
              m_alphabet |-> m.m_alphabet \cup {letter}, m_graph |-> m.m_graph]
  BY DEF IsAutomaton
<1> HIDE DEF read
<1>2. IsGraph(read.m_graph) /\ Deterministic(read)
  BY <1>1 DEF IsAutomaton, Deterministic
<1>3. IsAutomaton(read) /\ letter \in read.m_alphabet
  BY <1>1, <1>2 DEF IsAutomaton
<1> QED BY <1>3 DEF read

\* g is m's graph with one more entry in the list of src.
ExtendedBy(g, m, S, src, entry) ==
    /\ g \in Seq(Seq(S \cup {entry})) /\ size(m) <= Len(g) /\ src < Len(g)
    /\ \A n \in DOMAIN g :
          /\ leaving(m, n - 1) \in Seq(S)
          /\ n # src + 1 => g[n] = leaving(m, n - 1)
          /\ n = src + 1 => g[n] = Append(leaving(m, n - 1), entry)

\* Graph::connect extends the lists it does not touch with nothing.
LEMMA ExtendedGraph ==
    ASSUME NEW S, NEW m, m.m_graph \in Seq(Seq(S)),
           NEW src \in Nat, NEW dst \in Nat, NEW edge
    PROVE  ExtendedBy(Extended(m, src, dst, edge), m, S, src, [dst |-> dst, edge |-> edge])
<1> DEFINE entry == [dst |-> dst, edge |-> edge]
           g == Extended(m, src, dst, edge)
           T == S \cup {entry}
           top == Larger(size(m), Larger(src, dst) + 1)
<1>1. top \in Nat
  BY DEF Larger, size
<1>2. ASSUME NEW n \in 1 .. top PROVE leaving(m, n - 1) \in Seq(S)
  BY <1>1, <1>2 DEF leaving, size
<1>3. g = [n \in 1 .. top |-> leaving(m, n - 1) \o (IF n = src + 1 THEN <<entry>> ELSE <<>>)]
  BY DEF Extended
<1> HIDE DEF top, g, entry
<1>4. ASSUME NEW n \in 1 .. top
      PROVE  /\ g[n] \in Seq(T)
             /\ n # src + 1 => g[n] = leaving(m, n - 1)
             /\ n = src + 1 => g[n] = Append(leaving(m, n - 1), entry)
  <2>1. CASE n = src + 1
    <3>1. g[n] = leaving(m, n - 1) \o <<entry>>
      BY <1>3, <2>1
    <3>2. leaving(m, n - 1) \in Seq(T) /\ <<entry>> \in Seq(T)
      BY <1>2
    <3>3. g[n] = Append(leaving(m, n - 1), entry) /\ g[n] \in Seq(T)
      BY <3>1, <3>2
    <3> QED BY <3>3, <2>1
  <2>2. CASE n # src + 1
    <3>1. g[n] = leaving(m, n - 1) \o <<>>
      BY <1>3, <2>2
    <3>2. leaving(m, n - 1) \in Seq(T)
      BY <1>2
    <3>3. g[n] = leaving(m, n - 1) /\ g[n] \in Seq(T)
      BY <3>1, <3>2
    <3> QED BY <3>3, <2>2
  <2> QED BY <2>1, <2>2
<1>5. g \in Seq(Seq(T)) /\ DOMAIN g = 1 .. top
  <2>1. g \in [1 .. top -> Seq(T)]
    BY <1>3, <1>4
  <2> QED BY <2>1, <1>1
<1>6. ExtendedBy(g, m, S, src, entry)
  <2>1. Len(g) = top /\ size(m) <= top /\ src < top
    BY <1>1, <1>5 DEF top, Larger, size
  <2> QED BY <1>2, <1>4, <1>5, <2>1 DEF ExtendedBy
<1> QED BY <1>6 DEF g, entry

\* connect() keeps the automaton deterministic: the letter is in the alphabet
\* and was not read in src before.
LEMMA ConnectKeepsDeterministic ==
    ASSUME NEW m, IsAutomaton(m), NEW src \in Nat, NEW dst \in Nat, NEW edge,
           edge.observation \in m.m_alphabet
    PROVE  IsAutomaton(connect(m, src, dst, edge))
<1>1. CASE IsRead(m, src, edge.observation)
  BY <1>1 DEF connect
<1>2. CASE ~ IsRead(m, src, edge.observation)
  <2> DEFINE entry == [dst |-> dst, edge |-> edge]
             g == Extended(m, src, dst, edge)
             c == connect(m, src, dst, edge)
  <2>1. PICK S : m.m_graph \in Seq(Seq(S)) /\ \A x \in S : x.dst \in Nat
    BY DEF IsAutomaton, IsGraph
  <2>2. /\ entry = [dst |-> dst, edge |-> edge]
        /\ g = Extended(m, src, dst, edge)
        /\ c = connect(m, src, dst, edge)
    OBVIOUS
  <2> HIDE DEF entry, g, c
  <2>3. ExtendedBy(g, m, S, src, entry)
    BY <2>1, <2>2, ExtendedGraph
  <2>4. /\ g \in Seq(Seq(S \cup {entry}))
        /\ \A n \in DOMAIN g :
              /\ leaving(m, n - 1) \in Seq(S)
              /\ n # src + 1 => g[n] = leaving(m, n - 1)
              /\ n = src + 1 => g[n] = Append(leaving(m, n - 1), entry)
    BY <2>3 DEF ExtendedBy
  <2>5. c = [m_init_states |-> m.m_init_states, m_accepting_states |-> m.m_accepting_states,
             m_alphabet |-> m.m_alphabet, m_graph |-> g]
    BY <1>2, <2>2 DEF connect, IsAutomaton
  <2>6. entry.dst = dst /\ entry.edge = edge
    BY <2>2
  <2>7. IsGraph(g)
    <3>1. \A x \in S \cup {entry} : x.dst \in Nat
      BY <2>1, <2>6
    <3> QED BY <2>4, <3>1 DEF IsGraph
  <2>8. \A n \in Nat : \A j \in DOMAIN leaving(m, n) :
            /\ leaving(m, n)[j].edge.observation \in m.m_alphabet
            /\ \A k \in DOMAIN leaving(m, n) :
                  leaving(m, n)[j].edge.observation = leaving(m, n)[k].edge.observation => j = k
    BY <2>1 DEF leaving, size, IsAutomaton, Deterministic
  <2>9. ASSUME NEW n \in DOMAIN g, NEW j \in DOMAIN g[n]
        PROVE  /\ g[n][j].edge.observation \in m.m_alphabet
               /\ \A k \in DOMAIN g[n] :
                     g[n][j].edge.observation = g[n][k].edge.observation => j = k
    <3>1. n - 1 \in Nat /\ leaving(m, n - 1) \in Seq(S)
      BY <2>4
    <3>2. CASE n # src + 1
      BY <2>4, <2>8, <3>1, <3>2
    <3>3. CASE n = src + 1
      <4> DEFINE old == leaving(m, n - 1)
      <4>1. g[n] = Append(old, entry) /\ old \in Seq(S)
        BY <2>4, <3>3
      <4>2. \A k \in DOMAIN old : old[k].edge.observation # edge.observation
        BY <1>2, <3>3 DEF IsRead
      <4>3. \A i \in DOMAIN old :
               /\ old[i].edge.observation \in m.m_alphabet
               /\ \A k \in DOMAIN old : old[i].edge.observation = old[k].edge.observation => i = k
        BY <2>8, <3>1
      <4> HIDE DEF old
      <4>4. /\ DOMAIN g[n] = 1 .. Len(old) + 1 /\ DOMAIN old = 1 .. Len(old) /\ Len(old) \in Nat
            /\ g[n][Len(old) + 1] = entry
            /\ \A k \in 1 .. Len(old) : g[n][k] = old[k]
        BY <4>1
      <4> QED BY <4>2, <4>3, <4>4, <2>6
    <3> QED BY <3>2, <3>3
  <2>10. Deterministic(c)
    BY <2>5, <2>9 DEF Deterministic
  <2>11. IsAutomaton(c)
    BY <2>5, <2>7, <2>10 DEF IsAutomaton
  <2> QED BY <2>11 DEF c
<1> QED BY <1>1, <1>2

LEMMA ReadsKeepsDeterministic ==
    ASSUME NEW m, IsAutomaton(m), NEW src \in Nat, NEW dst \in Nat, NEW edge
    PROVE  IsAutomaton(Reads(m, src, dst, edge))
BY AlphabetGrows, ConnectKeepsDeterministic DEF Reads

-----------------------------------------------------------------------------
\* The reading of an automaton, in the terms of its own variables.
LEMMA LoadKeepsIInv ==
    ASSUME IInv, LoadDFA
    PROVE  IInv'
<1> USE DEF IInv
<1>1. UNCHANGED <<task, dfas, data>>
  BY DEF LoadDFA, Load, Connect, BeginSubstitution, Substitute, NextNode, main_vars
<1>2. CASE Connect
  <2> DEFINE c == data.connections[row + 1]
  <2>1. c \in [src : Nat, dst : Nat, label : Letters]
    <3> DEFINE Row == [src : Nat, dst : Nat, label : Letters]
               rows == data.connections
    <3>1. rows \in Seq(Row) /\ row \in Nat /\ row < Len(rows)
      BY <1>2 DEF Connect
    <3> HIDE DEF Row, rows
    <3>2. rows[row + 1] \in Row
      BY <3>1
    <3> QED BY <3>2 DEF Row, rows
  <2>2. automaton' = Reads(automaton, c.src, c.dst, PartialSatisfactionEdge(c.label, 0))
    BY <1>2 DEF Connect
  <2> HIDE DEF c
  <2>3. IsAutomaton(automaton')
    BY <2>1, <2>2, ReadsKeepsDeterministic
  <2> QED BY <1>1, <1>2, <2>3 DEF Connect
<1>3. CASE BeginSubstitution
  <2>1. IsList(leaving(automaton, 0))
    BY LeavingIsAList
  <2> QED BY <1>1, <1>3, <2>1 DEF BeginSubstitution
<1>4. CASE Substitute
  <2> DEFINE c == edges[substituted + 1]
             substitutes == sub_map(sub_data)
  <2>1. c.dst \in Nat
    BY <1>4 DEF Substitute, CopiedEdges, IsList
  <2>2. \/ automaton' = automaton
        \/ automaton' = Reads(automaton, src_node, c.dst, substitutes[c.edge.observation])
    BY <1>4 DEF Substitute, CopiedEdges
  <2> HIDE DEF c, substitutes
  <2>3. IsAutomaton(automaton')
    BY <2>1, <2>2, ReadsKeepsDeterministic
  <2> QED BY <1>1, <1>4, <2>3 DEF Substitute
<1>5. CASE NextNode
  <2>1. IsList(leaving(automaton, src_node + 1))
    BY LeavingIsAList
  <2> QED BY <1>1, <1>5, <2>1 DEF NextNode
<1> QED BY <1>2, <1>3, <1>4, <1>5 DEF LoadDFA, Load

LEMMA InitIInv == Init => IInv
<1> SUFFICES ASSUME Init PROVE IInv
  OBVIOUS
<1>1. IsAutomaton(automaton)
  BY NewAutomatonIsOne DEF Init, LoaderInit
<1>2. IsList(edges) /\ Kept(dfas)
  BY EmptyLists DEF Init, LoaderInit
<1>3. data.connections \in Seq([src : Nat, dst : Nat, label : Letters])
  BY DEF Init, LoaderInit, NoData
<1> QED BY <1>1, <1>2, <1>3 DEF Init, LoaderInit, IInv

LEMMA NextKeepsIInv == IInv /\ [Next]_vars => IInv'
<1> SUFFICES ASSUME IInv, [Next]_vars PROVE IInv'
  OBVIOUS
<1>1. CASE LoadDFA
  BY <1>1, LoadKeepsIInv
<1>2. CASE OpenDFA
  <2>1. CASE UNCHANGED loader_vars
    BY <1>2, <2>1 DEF OpenDFA, IInv, loader_vars
  <2>2. ASSUME NEW sub, Open(task.disk.dfas[dfa_filepath], sub), dfa_filepath \in DOMAIN task.disk.dfas
        PROVE  IInv'
    <3>1. data'.connections \in Seq([src : Nat, dst : Nat, label : Letters])
      BY <2>2, TasksAssumption DEF IInv, Open
    <3>2. IsAutomaton(automaton')
      BY <2>2, NewAutomatonIsOne DEF Open
    <3>3. edges' = <<>> /\ IsList(<<>>)
      BY <2>2, EmptyLists DEF Open
    <3> QED BY <1>2, <2>2, <3>1, <3>2, <3>3 DEF OpenDFA, Open, IInv
  <2> QED BY <1>2, <2>1, <2>2 DEF OpenDFA
<1>3. CASE KeepDFA
  <2>1. PICK S : dfas \in Seq(S) /\ \A m \in S : Deterministic(m)
    BY DEF IInv, Kept
  <2>2. dfas' \in Seq(S \cup {automaton})
    <3>1. dfas \in Seq(S \cup {automaton})
      BY <2>1
    <3> QED BY <1>3, <3>1 DEF KeepDFA
  <2>3. \A m \in S \cup {automaton} : Deterministic(m)
    BY <2>1 DEF IInv, IsAutomaton
  <2>4. Kept(dfas')
    BY <2>2, <2>3 DEF Kept
  <2> QED BY <1>3, <2>4 DEF KeepDFA, IInv
<1>4. CASE UNCHANGED <<loader_vars, task, dfas>>
  BY <1>4 DEF IInv, loader_vars
<1>5. ParseCommandLine \/ Generate \/ RefuseDFA \/ BeginPlan \/ EndPlan => UNCHANGED <<loader_vars, task, dfas>>
  BY DEF ParseCommandLine, Generate, RefuseDFA, BeginPlan, EndPlan
<1>6. Search => UNCHANGED <<loader_vars, task, dfas>>
  BY DEF Search
<1>7. WritePlan \/ Finish \/ Terminated \/ UNCHANGED vars => UNCHANGED <<loader_vars, task, dfas>>
  BY DEF WritePlan, Finish, Terminated, vars, main_vars
<1> QED BY <1>1, <1>2, <1>3, <1>4, <1>5, <1>6, <1>7 DEF Next

LEMMA IInvDeterminesSuccessors == IInv => LabelsDetermineSuccessors
<1> SUFFICES ASSUME IInv PROVE LabelsDetermineSuccessors
  OBVIOUS
<1>1. \A i \in DOMAIN dfas : Deterministic(dfas[i])
  BY DEF IInv, Kept
<1> QED BY <1>1 DEF IInv, IsAutomaton, LabelsDetermineSuccessors

\* Whatever the DFA files and the sub maps say, at no moment do two connections
\* of a node of an automaton read the same letter, and every letter read is in
\* the alphabet (PartialSatisfactionAutomaton.h:34-44).
THEOREM ReadingIsDeterministic == Spec => []LabelsDetermineSuccessors
<1>1. Spec => []IInv
  BY InitIInv, NextKeepsIInv, PTL DEF Spec
<1> QED BY <1>1, IInvDeterminesSuccessors, PTL
-----------------------------------------------------------------------------
(***************************************************************************)
(* What is read is what the files say.                                     *)
(***************************************************************************)
\* The connections of a node.
Listed(m, n) == {leaving(m, n)[j] : j \in DOMAIN leaving(m, n)}

\* The first rows are read, and all that is read of the nodes from one on is
\* what the rows say.
RowsRead(m, r) ==
    \A k \in 1 .. r : IsRead(m, data.connections[k].src, data.connections[k].label)

AllOriginal(n, X) == \A x \in X : IsOriginal(n, x)

AllOfTheFile(n, X) == \A x \in X : IsOriginal(n, x) \/ IsSubstitute(n, x)

SubstitutesRead(m, n) ==
    \A k \in RowsOf(n) : \A s \in DOMAIN sub_data.from :
        IsFirstFor(s, data.connections[k].label) => IsRead(m, n, sub_data.to[s])

Connecting ==
    /\ src_node = 0 /\ substituted = 0 /\ row <= Len(data.connections)
    /\ RowsRead(automaton, row)
    /\ \A n \in Nat : AllOriginal(n, Listed(automaton, n))

\* The copied connections are the rows of their node.
Copied ==
    /\ \A i \in DOMAIN edges : IsOriginal(src_node, edges[i])
    /\ \A k \in RowsOf(src_node) : \E i \in DOMAIN edges :
          edges[i].edge.observation = data.connections[k].label

Substituting ==
    /\ Copied /\ substituted <= Len(edges)
    /\ RowsRead(automaton, Len(data.connections))
    /\ \A n \in Nat : n > src_node => AllOriginal(n, Listed(automaton, n))
    /\ \A n \in Nat : AllOfTheFile(n, Listed(automaton, n))
    /\ \A n \in Nat : n < src_node => SubstitutesRead(automaton, n)
    /\ \A i \in 1 .. substituted : \A s \in DOMAIN sub_data.from :
          IsFirstFor(s, edges[i].edge.observation) => IsRead(automaton, src_node, sub_data.to[s])

Loaded ==
    /\ RowsRead(automaton, Len(data.connections))
    /\ \A n \in Nat : AllOfTheFile(n, Listed(automaton, n))
    /\ \A n \in Nat : SubstitutesRead(automaton, n)

SInv ==
    /\ sub_data.from \in Seq(Letters)
    /\ loading = "connecting" => Connecting
    /\ loading = "substituting" => Substituting
    /\ loading = "loaded" => Loaded

LEMMA ReadIsListed ==
    ASSUME NEW m, NEW n, NEW letter
    PROVE  IsRead(m, n, letter) <=> \E x \in Listed(m, n) : x.edge.observation = letter
BY Zenon DEF IsRead, Listed

\* Appending to a list adds a member.
LEMMA AppendAdds ==
    ASSUME NEW S, NEW list \in Seq(S), NEW longer, NEW x, longer = Append(list, x)
    PROVE  {longer[j] : j \in DOMAIN longer} = {list[j] : j \in DOMAIN list} \cup {x}
<1>1. /\ DOMAIN longer = 1 .. Len(list) + 1 /\ DOMAIN list = 1 .. Len(list) /\ Len(list) \in Nat
      /\ longer[Len(list) + 1] = x /\ \A k \in 1 .. Len(list) : longer[k] = list[k]
  OBVIOUS
<1>2. ASSUME NEW j \in DOMAIN longer PROVE longer[j] \in {list[i] : i \in DOMAIN list} \cup {x}
  <2>1. j \in DOMAIN list \/ j = Len(list) + 1
    BY <1>1
  <2> QED
    BY <1>1, <2>1
<1>3. ASSUME NEW i \in DOMAIN list PROVE list[i] \in {longer[j] : j \in DOMAIN longer}
  <2>1. i \in DOMAIN longer /\ longer[i] = list[i]
    BY <1>1
  <2> QED
    BY <2>1
<1>4. x \in {longer[j] : j \in DOMAIN longer}
  <2>1. Len(list) + 1 \in DOMAIN longer
    BY <1>1
  <2> QED
    BY <1>1, <2>1
<1> QED
  BY <1>2, <1>3, <1>4

\* A letter that is read adds a connection to one node, if it was not read there.
LEMMA ReadsAdds ==
    ASSUME NEW m, IsAutomaton(m), NEW src \in Nat, NEW dst \in Nat, NEW edge, NEW r,
           r = Reads(m, src, dst, edge)
    PROVE  /\ \A n \in Nat : n # src => Listed(r, n) = Listed(m, n)
           /\ IsRead(m, src, edge.observation) => Listed(r, src) = Listed(m, src)
           /\ ~ IsRead(m, src, edge.observation) =>
                Listed(r, src) = Listed(m, src) \cup {[dst |-> dst, edge |-> edge]}
<1> DEFINE grown == [m EXCEPT !.m_alphabet = @ \cup {edge.observation}]
           entry == [dst |-> dst, edge |-> edge]
           g == Extended(m, src, dst, edge)
<1>1. grown.m_graph = m.m_graph /\ IsAutomaton(grown)
  BY AlphabetGrows DEF IsAutomaton
<1>2. \A n : leaving(grown, n) = leaving(m, n)
  BY <1>1 DEF leaving, size
<1>3. IsRead(grown, src, edge.observation) <=> IsRead(m, src, edge.observation)
  <2>1. leaving(grown, src) = leaving(m, src)
    BY <1>2
  <2> HIDE DEF grown
  <2> QED
    BY <2>1 DEF IsRead
<1>4. r = connect(grown, src, dst, edge)
  BY DEF Reads
<1>5. Extended(grown, src, dst, edge) = g
  BY <1>1, <1>2 DEF Extended, size
<1> HIDE DEF grown, entry, g
<1>6. CASE IsRead(m, src, edge.observation)
  <2>1. r = grown
    BY <1>3, <1>4, <1>6, Zenon DEF connect
  <2>2. \A n : Listed(r, n) = Listed(m, n)
    BY <1>2, <2>1, Zenon DEF Listed
  <2> QED
    BY <1>6, <2>2
<1>7. CASE ~ IsRead(m, src, edge.observation)
  <2>1. r.m_graph = g
    <3>1. r = [grown EXCEPT !.m_graph = g]
      BY <1>3, <1>4, <1>5, <1>7, Zenon DEF connect
    <3> QED
      BY <1>1, <3>1 DEF IsAutomaton
  <2>2. PICK S : m.m_graph \in Seq(Seq(S))
    BY DEF IsAutomaton, IsGraph
  <2>3. ExtendedBy(g, m, S, src, entry)
    BY <2>2, ExtendedGraph DEF g, entry
  <2>4. /\ g \in Seq(Seq(S \cup {entry})) /\ size(m) <= Len(g) /\ src < Len(g) /\ Len(g) \in Nat
        /\ size(m) \in Nat
    BY <2>2, <2>3 DEF ExtendedBy, size
  <2>5. ASSUME NEW n \in Nat, n # src PROVE leaving(r, n) = leaving(m, n)
    <3>1. CASE n < Len(g)
      <4>1. n + 1 \in DOMAIN g /\ (n + 1) - 1 = n /\ n + 1 # src + 1
        BY <2>4, <2>5, <3>1
      <4>2. g[n + 1] = leaving(m, n)
        BY <2>3, <4>1 DEF ExtendedBy
      <4> QED
        BY <2>1, <3>1, <4>2 DEF leaving, size
    <3>2. CASE ~ (n < Len(g))
      BY <2>1, <2>4, <3>2 DEF leaving, size
    <3> QED
      BY <3>1, <3>2
  <2>6. leaving(r, src) = Append(leaving(m, src), entry) /\ leaving(m, src) \in Seq(S)
    <3>1. src + 1 \in DOMAIN g /\ (src + 1) - 1 = src
      BY <2>4
    <3>2. g[src + 1] = Append(leaving(m, src), entry) /\ leaving(m, src) \in Seq(S)
      BY <2>3, <3>1 DEF ExtendedBy
    <3> QED
      BY <2>1, <2>4, <3>2 DEF leaving, size
  <2>7. \A n \in Nat : n # src => Listed(r, n) = Listed(m, n)
    BY <2>5, Zenon DEF Listed
  <2>8. Listed(r, src) = Listed(m, src) \cup {entry}
    BY <2>6, AppendAdds DEF Listed
  <2> QED
    BY <1>7, <2>7, <2>8, Zenon DEF entry
<1> QED
  BY <1>6, <1>7

\* More is read than before.
LEMMA ReadsMore ==
    ASSUME NEW m, IsAutomaton(m), NEW src \in Nat, NEW dst \in Nat, NEW edge, NEW r,
           r = Reads(m, src, dst, edge)
    PROVE  /\ \A n \in Nat : \A letter : IsRead(m, n, letter) => IsRead(r, n, letter)
           /\ IsRead(r, src, edge.observation)
<1>1. ASSUME NEW n \in Nat PROVE Listed(m, n) \subseteq Listed(r, n)
  <2>1. /\ \A i \in Nat : i # src => Listed(r, i) = Listed(m, i)
        /\ IsRead(m, src, edge.observation) => Listed(r, src) = Listed(m, src)
        /\ ~ IsRead(m, src, edge.observation) =>
              Listed(r, src) = Listed(m, src) \cup {[dst |-> dst, edge |-> edge]}
    BY ReadsAdds
  <2>2. n # src => Listed(r, n) = Listed(m, n)
    BY <2>1
  <2> QED
    BY <2>1, <2>2
<1>2. ASSUME NEW n \in Nat, NEW letter, IsRead(m, n, letter) PROVE IsRead(r, n, letter)
  BY <1>1, <1>2, ReadIsListed, Zenon
<1>3. CASE IsRead(m, src, edge.observation)
  BY <1>2, <1>3, Zenon
<1>4. CASE ~ IsRead(m, src, edge.observation)
  <2>1. [dst |-> dst, edge |-> edge] \in Listed(r, src)
    BY <1>4, ReadsAdds
  <2>2. [dst |-> dst, edge |-> edge].edge = edge
    OBVIOUS
  <2>3. \E x \in Listed(r, src) : x.edge.observation = edge.observation
    BY <2>1, <2>2, Zenon
  <2>4. IsRead(r, src, edge.observation)
    BY <2>3, ReadIsListed, Zenon
  <2> QED
    BY <1>2, <2>4, Zenon
<1> QED
  BY <1>2, <1>3, <1>4, Zenon

LEMMA NothingListed ==
    ASSUME NEW d, NEW n \in Nat
    PROVE  Listed(NewAutomaton(d), n) = {}
<1>1. leaving(NewAutomaton(d), n) = <<>>
  BY DEF leaving, NewAutomaton, size
<1> QED
  BY <1>1 DEF Listed

\* What the files say of the words does not change while they are read.
LEMMA FilesKept ==
    ASSUME UNCHANGED <<data, sub_data>>
    PROVE  /\ \A n : RowsOf(n)' = RowsOf(n)
           /\ \A n, x : IsOriginal(n, x)' = IsOriginal(n, x)
           /\ \A n, x : IsSubstitute(n, x)' = IsSubstitute(n, x)
           /\ \A s, letter : IsFirstFor(s, letter)' = IsFirstFor(s, letter)
<1>1. \A n : RowsOf(n)' = RowsOf(n)
  BY DEF RowsOf
<1>2. \A k : IsFirst(k)' = IsFirst(k)
  BY DEF IsFirst, RowsOf
<1>3. \A s, letter : IsFirstFor(s, letter)' = IsFirstFor(s, letter)
  BY DEF IsFirstFor
<1>4. \A n, x : IsOriginal(n, x)' = IsOriginal(n, x)
  BY <1>1, <1>2 DEF IsOriginal
<1>5. \A n, x : IsSubstitute(n, x)' = IsSubstitute(n, x)
  BY <1>1, <1>2, <1>3 DEF IsSubstitute
<1> QED
  BY <1>1, <1>3, <1>4, <1>5

\* The next row is read, and it is the first for its letter if it was not.
LEMMA ConnectKeepsSInv ==
    ASSUME IInv, SInv, Connect
    PROVE  SInv'
<1> DEFINE c == data.connections[row + 1]
           edge == PartialSatisfactionEdge(c.label, 0)
           entry == [dst |-> c.dst, edge |-> edge]
<1>1. /\ loading = "connecting" /\ loading' = "connecting" /\ row < Len(data.connections) /\ row' = row + 1
      /\ UNCHANGED <<data, sub_data, src_node, substituted>>
      /\ automaton' = Reads(automaton, c.src, c.dst, edge)
  BY DEF Connect
<1>2. /\ data.connections \in Seq([src : Nat, dst : Nat, label : Letters]) /\ row \in Nat
      /\ IsAutomaton(automaton) /\ Connecting
  BY <1>1 DEF IInv, SInv
<1>3. /\ row + 1 \in DOMAIN data.connections /\ c.src \in Nat /\ c.dst \in Nat
      /\ Len(data.connections) \in Nat /\ DOMAIN data.connections = 1 .. Len(data.connections)
  <2> DEFINE Row == [src : Nat, dst : Nat, label : Letters]
             rows == data.connections
  <2>1. rows \in Seq(Row)
    BY <1>2
  <2> HIDE DEF Row, rows
  <2>2. row + 1 \in DOMAIN rows /\ rows[row + 1] \in Row /\ Len(rows) \in Nat /\ DOMAIN rows = 1 .. Len(rows)
    BY <1>1, <1>2, <2>1 DEF rows
  <2> QED
    BY <2>2 DEF Row, rows
<1>4. edge.observation = c.label
  BY DEF PartialSatisfactionEdge
<1> HIDE DEF c, edge, entry
<1>5. /\ \A n \in Nat : \A letter : IsRead(automaton, n, letter) => IsRead(automaton', n, letter)
      /\ IsRead(automaton', c.src, c.label)
  <2>1. /\ \A n \in Nat : \A letter : IsRead(automaton, n, letter) => IsRead(automaton', n, letter)
        /\ IsRead(automaton', c.src, edge.observation)
    BY <1>1, <1>2, <1>3, ReadsMore
  <2> QED
    BY <1>4, <2>1
<1>6. \A k \in DOMAIN data.connections : data.connections[k].src \in Nat
  <2> DEFINE Row == [src : Nat, dst : Nat, label : Letters]
             rows == data.connections
  <2>1. rows \in Seq(Row) /\ \A x \in Row : x.src \in Nat
    BY <1>2
  <2> HIDE DEF Row, rows
  <2>2. \A k \in DOMAIN rows : rows[k] \in Row
    BY <2>1
  <2> QED
    BY <2>1, <2>2 DEF rows
<1>7. \A k \in 1 .. row + 1 : IsRead(automaton', data.connections[k].src, data.connections[k].label)
  <2> SUFFICES ASSUME NEW k \in 1 .. row + 1
               PROVE  IsRead(automaton', data.connections[k].src, data.connections[k].label)
    OBVIOUS
  <2>1. CASE k = row + 1
    BY <1>5, <2>1 DEF c
  <2>2. CASE k # row + 1
    <3>1. k \in 1 .. row /\ k \in DOMAIN data.connections
      BY <1>1, <1>2, <1>3, <2>2
    <3>2. IsRead(automaton, data.connections[k].src, data.connections[k].label)
      BY <1>2, <3>1, Zenon DEF Connecting, RowsRead
    <3> QED
      BY <1>5, <1>6, <3>1, <3>2, Zenon
  <2> QED
    BY <2>1, <2>2
<1>8. ~ IsRead(automaton, c.src, c.label) => IsOriginal(c.src, entry)
  <2> SUFFICES ASSUME ~ IsRead(automaton, c.src, c.label) PROVE IsOriginal(c.src, entry)
    OBVIOUS
  <2>1. row + 1 \in RowsOf(c.src)
    BY <1>3, Zenon DEF RowsOf, c
  <2>2. ASSUME NEW j \in RowsOf(c.src), j < row + 1 PROVE data.connections[j].label # c.label
    <3>1. j \in DOMAIN data.connections /\ data.connections[j].src = c.src
      BY DEF RowsOf
    <3>2. j \in 1 .. row
      BY <1>2, <1>3, <2>2, <3>1
    <3>3. IsRead(automaton, data.connections[j].src, data.connections[j].label)
      BY <1>2, <3>2, Zenon DEF Connecting, RowsRead
    <3> QED
      BY <3>1, <3>3, Zenon
  <2>3. IsFirst(row + 1)
    BY <2>2, Zenon DEF IsFirst, c
  <2> QED
    BY <2>1, <2>3, Zenon DEF IsOriginal, entry, edge, c
<1>9. ASSUME NEW n \in Nat, NEW x \in Listed(automaton', n) PROVE IsOriginal(n, x)
  <2>1. x \in Listed(automaton, n) \/ (n = c.src /\ ~ IsRead(automaton, c.src, c.label) /\ x = entry)
    <3>1. /\ n # c.src => Listed(automaton', n) = Listed(automaton, n)
          /\ IsRead(automaton, c.src, edge.observation) => Listed(automaton', c.src) = Listed(automaton, c.src)
          /\ ~ IsRead(automaton, c.src, edge.observation) =>
               Listed(automaton', c.src) = Listed(automaton, c.src) \cup {entry}
      BY <1>1, <1>2, <1>3, ReadsAdds DEF entry
    <3> QED
      BY <1>4, <1>9, <3>1, Zenon
  <2> QED
    BY <1>2, <1>8, <2>1, Zenon DEF Connecting, AllOriginal
<1>10. RowsRead(automaton, row)' /\ (\A n \in Nat : AllOriginal(n, Listed(automaton, n))')
  <2>1. \A n, x : IsOriginal(n, x)' = IsOriginal(n, x)
    BY <1>1, FilesKept
  <2>2. \A n \in Nat : \A x \in Listed(automaton', n) : IsOriginal(n, x)'
    BY <1>9, <2>1
  <2>3. RowsRead(automaton, row)'
    BY <1>1, <1>7 DEF RowsRead
  <2> QED
    BY <2>2, <2>3 DEF AllOriginal, Listed, leaving, size
<1>11. Connecting'
  <2>1. row + 1 <= Len(data.connections)
    BY <1>1, <1>2, <1>3
  <2>2. src_node' = 0 /\ substituted' = 0
    BY <1>1, <1>2 DEF Connecting
  <2> QED
    BY <1>1, <1>10, <2>1, <2>2 DEF Connecting
<1> QED
  BY <1>1, <1>11 DEF SInv

\* The copy of a node's connections, before any letter of it was substituted.
LEMMA CopyIsOfTheRows ==
    ASSUME IInv, src_node' \in Nat, edges' = leaving(automaton, src_node'),
           RowsRead(automaton, Len(data.connections)),
           AllOriginal(src_node', Listed(automaton, src_node')),
           UNCHANGED <<data, sub_data>>
    PROVE  Copied'
<1>1. ASSUME NEW i \in DOMAIN edges' PROVE IsOriginal(src_node', edges'[i])
  <2>1. edges'[i] \in Listed(automaton, src_node')
    BY Zenon DEF Listed
  <2> QED
    BY <2>1, Zenon DEF AllOriginal
<1>2. ASSUME NEW k \in RowsOf(src_node')
      PROVE  \E i \in DOMAIN edges' : edges'[i].edge.observation = data.connections[k].label
  <2>1. k \in DOMAIN data.connections /\ data.connections[k].src = src_node'
    BY DEF RowsOf
  <2>2. k \in 1 .. Len(data.connections)
    BY <2>1 DEF IInv
  <2>3. IsRead(automaton, src_node', data.connections[k].label)
    BY <2>1, <2>2, Zenon DEF RowsRead
  <2> QED
    BY <2>3, Zenon DEF IsRead
<1>3. \A n : RowsOf(n)' = RowsOf(n)
  BY FilesKept
<1>4. \A n, x : IsOriginal(n, x)' = IsOriginal(n, x)
  BY FilesKept
<1>5. \A i \in DOMAIN edges' : IsOriginal(src_node, edges[i])'
  BY <1>1, <1>4
<1>6. \A k \in RowsOf(src_node)' : \E i \in DOMAIN edges' :
        edges'[i].edge.observation = data'.connections[k].label
  BY <1>2, <1>3
<1> QED
  BY <1>5, <1>6 DEF Copied

\* All rows are read, and nothing was substituted yet.
LEMMA BeginSubstitutionKeepsSInv ==
    ASSUME IInv, SInv, BeginSubstitution
    PROVE  SInv'
<1>1. /\ UNCHANGED <<automaton, data, sub_data, src_node, substituted>>
      /\ Connecting /\ row = Len(data.connections)
      /\ \/ loading' = "refused"
         \/ loading' = "substituting" /\ edges' = leaving(automaton, 0)
  BY DEF BeginSubstitution, SInv
<1>2. CASE loading' = "refused"
  BY <1>1, <1>2 DEF SInv
<1>3. CASE loading' = "substituting" /\ edges' = leaving(automaton, 0)
  <2>1. /\ src_node' = 0 /\ src_node = 0 /\ substituted' = 0
        /\ RowsRead(automaton, Len(data.connections))
        /\ \A n \in Nat : AllOriginal(n, Listed(automaton, n))
    BY <1>1 DEF Connecting
  <2>2. Copied'
    BY <1>1, <1>3, <2>1, CopyIsOfTheRows
  <2>3. substituted' <= Len(edges')
    <3>1. IsList(edges')
      BY <1>3, LeavingIsAList DEF IInv
    <3> QED
      BY <2>1, <3>1 DEF IsList
  <2>4. RowsRead(automaton, Len(data.connections))'
    BY <1>1, <2>1 DEF RowsRead, IsRead, leaving, size
  <2>5. \A n \in Nat : Listed(automaton, n)' = Listed(automaton, n)
    BY <1>1 DEF Listed, leaving, size
  <2>6. \A n, x : IsOriginal(n, x)' = IsOriginal(n, x)
    BY <1>1, FilesKept
  <2>7. \A n \in Nat : AllOriginal(n, Listed(automaton, n))'
    BY <2>1, <2>5, <2>6 DEF AllOriginal
  <2>8. \A n \in Nat : AllOfTheFile(n, Listed(automaton, n))'
    BY <2>7 DEF AllOriginal, AllOfTheFile
  <2>9. Substituting'
    BY <2>1, <2>2, <2>3, <2>4, <2>7, <2>8 DEF Substituting
  <2> QED
    BY <1>1, <1>3, <2>9 DEF SInv
<1> QED
  BY <1>1, <1>2, <1>3

NatLess == {ss \in Nat \X Nat : ss[1] < ss[2]}

\* A set of numbers that is not empty has a least one.
LEMMA LeastNumber ==
    ASSUME NEW T \in SUBSET Nat, T # {}
    PROVE  \E x \in T : \A y \in T : x <= y
<1>1. OpToRel(<, Nat) = NatLess
  BY Zenon DEF OpToRel, NatLess
<1>2. \E x \in T : \A y \in T : <<y, x>> \notin NatLess
  BY <1>1, NatLessThanWellFounded, WFMin, Zenon
<1>3. PICK x \in T : \A y \in T : <<y, x>> \notin NatLess
  BY <1>2
<1>4. ASSUME NEW y \in T PROVE x <= y
  <2>1. x \in Nat /\ y \in Nat /\ <<y, x>> \notin NatLess
    BY <1>3
  <2>2. ~ (y < x)
    BY <2>1, SMT DEF NatLess
  <2> QED
    BY <2>1, <2>2, SMT
<1> QED
  BY <1>4

\* A letter of the list of letters is first somewhere, and only there.
LEMMA FirstForALetter ==
    ASSUME sub_data.from \in Seq(Letters), NEW letter
    PROVE  /\ letter \in Range(sub_data.from) => \E s \in DOMAIN sub_data.from : IsFirstFor(s, letter)
           /\ \A s, t \in DOMAIN sub_data.from : IsFirstFor(s, letter) /\ IsFirstFor(t, letter) => s = t
<1> DEFINE from == sub_data.from
           T == {s \in DOMAIN from : from[s] = letter}
<1>1. DOMAIN from = 1 .. Len(from) /\ Len(from) \in Nat
  OBVIOUS
<1>2. ASSUME letter \in Range(from) PROVE \E s \in DOMAIN from : IsFirstFor(s, letter)
  <2>1. T \in SUBSET Nat /\ T # {}
    BY <1>1, <1>2 DEF Range
  <2>2. PICK s \in T : \A k \in T : s <= k
    <3> HIDE DEF T
    <3> QED
      BY <2>1, LeastNumber
  <2>3. s \in DOMAIN from /\ from[s] = letter
    BY <2>2
  <2>4. ASSUME NEW r \in 1 .. s - 1 PROVE from[r] # letter
    <3>1. r \in DOMAIN from /\ ~ (s <= r)
      BY <1>1, <2>3
    <3> QED
      BY <2>2, <3>1
  <2> QED
    BY <2>3, <2>4 DEF IsFirstFor
<1>3. ASSUME NEW s \in DOMAIN from, NEW t \in DOMAIN from, IsFirstFor(s, letter), IsFirstFor(t, letter)
      PROVE  s = t
  <2>1. ~ (s \in 1 .. t - 1) /\ ~ (t \in 1 .. s - 1)
    BY <1>3 DEF IsFirstFor
  <2> QED
    BY <1>1, <2>1
<1> QED
  BY <1>2, <1>3

\* The map has for a letter what the lists have where it is first.
LEMMA SubMapIsFirst ==
    ASSUME sub_data.from \in Seq(Letters), NEW letter
    PROVE  /\ letter \notin DOMAIN sub_map(sub_data) =>
                \A s \in DOMAIN sub_data.from : ~ IsFirstFor(s, letter)
           /\ letter \in DOMAIN sub_map(sub_data) =>
                \E s \in DOMAIN sub_data.from :
                    /\ IsFirstFor(s, letter)
                    /\ sub_map(sub_data)[letter] =
                          PartialSatisfactionEdge(sub_data.to[s], sub_data.costs[s])
<1> DEFINE first == CHOOSE k \in DOMAIN sub_data.from :
                        /\ sub_data.from[k] = letter
                        /\ \A j \in 1 .. k - 1 : sub_data.from[j] # letter
<1>1. DOMAIN sub_map(sub_data) = Range(sub_data.from)
  BY DEF sub_map
<1>2. ASSUME letter \notin Range(sub_data.from), NEW s \in DOMAIN sub_data.from PROVE ~ IsFirstFor(s, letter)
  BY <1>2 DEF IsFirstFor, Range
<1>3. ASSUME letter \in Range(sub_data.from)
      PROVE  \E s \in DOMAIN sub_data.from :
                /\ IsFirstFor(s, letter)
                /\ sub_map(sub_data)[letter] = PartialSatisfactionEdge(sub_data.to[s], sub_data.costs[s])
  <2>1. sub_map(sub_data)[letter] = PartialSatisfactionEdge(sub_data.to[first], sub_data.costs[first])
    BY <1>3 DEF sub_map
  <2>2. \E k \in DOMAIN sub_data.from :
            sub_data.from[k] = letter /\ \A j \in 1 .. k - 1 : sub_data.from[j] # letter
    BY <1>3, FirstForALetter DEF IsFirstFor
  <2>3. /\ first \in DOMAIN sub_data.from /\ sub_data.from[first] = letter
        /\ \A j \in 1 .. first - 1 : sub_data.from[j] # letter
    BY <2>2, Zenon
  <2>4. first \in DOMAIN sub_data.from /\ IsFirstFor(first, letter)
    BY <2>3, Zenon DEF IsFirstFor
  <2> HIDE DEF first
  <2> QED
    BY <2>1, <2>4
<1> QED
  BY <1>1, <1>2, <1>3

\* What is read in an automaton whose connections are kept or joined by others
\* covers the rows and the substitutes it covered.
LEMMA StillRead ==
    ASSUME NEW m, NEW r, \A n \in Nat : \A letter : IsRead(m, n, letter) => IsRead(r, n, letter),
           IInv
    PROVE  /\ RowsRead(m, Len(data.connections)) => RowsRead(r, Len(data.connections))
           /\ \A n \in Nat : SubstitutesRead(m, n) => SubstitutesRead(r, n)
<1>1. \A k \in 1 .. Len(data.connections) : data.connections[k].src \in Nat
  <2> DEFINE Row == [src : Nat, dst : Nat, label : Letters]
             rows == data.connections
  <2>1. rows \in Seq(Row) /\ \A x \in Row : x.src \in Nat
    BY DEF IInv
  <2> HIDE DEF Row, rows
  <2>2. \A k \in 1 .. Len(rows) : rows[k] \in Row
    BY <2>1
  <2> QED
    BY <2>1, <2>2 DEF rows
<1>2. RowsRead(m, Len(data.connections)) => RowsRead(r, Len(data.connections))
  BY <1>1, Zenon DEF RowsRead
<1>3. \A n \in Nat : SubstitutesRead(m, n) => SubstitutesRead(r, n)
  BY Zenon DEF SubstitutesRead
<1> QED
  BY <1>2, <1>3

\* What the substitution of a letter leaves: nothing, or the automaton with the
\* substitute read.
Substituted(c, s) ==
    /\ s \in DOMAIN sub_data.from /\ IsFirstFor(s, c.edge.observation)
    /\ automaton' = Reads(automaton, src_node, c.dst,
                          PartialSatisfactionEdge(sub_data.to[s], sub_data.costs[s]))

\* The node's connections are of the file after a substitution.
LEMMA SubstitutedIsOfTheFile ==
    ASSUME IInv, SInv, Substituting, NEW c, c.dst \in Nat, IsOriginal(src_node, c),
           NEW s, Substituted(c, s)
    PROVE  /\ \A n \in Nat : n # src_node => Listed(automaton', n) = Listed(automaton, n)
           /\ AllOfTheFile(src_node, Listed(automaton', src_node))
           /\ \A n \in Nat : \A letter : IsRead(automaton, n, letter) => IsRead(automaton', n, letter)
           /\ IsRead(automaton', src_node, sub_data.to[s])
<1> DEFINE edge == PartialSatisfactionEdge(sub_data.to[s], sub_data.costs[s])
           entry == [dst |-> c.dst, edge |-> edge]
<1>1. src_node \in Nat /\ IsAutomaton(automaton) /\ automaton' = Reads(automaton, src_node, c.dst, edge)
  BY DEF IInv, Substituted
<1>2. edge.observation = sub_data.to[s]
  BY DEF PartialSatisfactionEdge
<1> HIDE DEF edge
<1>3. /\ \A n \in Nat : n # src_node => Listed(automaton', n) = Listed(automaton, n)
      /\ IsRead(automaton, src_node, edge.observation) =>
            Listed(automaton', src_node) = Listed(automaton, src_node)
      /\ ~ IsRead(automaton, src_node, edge.observation) =>
            Listed(automaton', src_node) = Listed(automaton, src_node) \cup {entry}
  BY <1>1, ReadsAdds
<1>4. /\ \A n \in Nat : \A letter : IsRead(automaton, n, letter) => IsRead(automaton', n, letter)
      /\ IsRead(automaton', src_node, edge.observation)
  BY <1>1, ReadsMore
<1>5. ~ IsRead(automaton, src_node, sub_data.to[s]) => IsSubstitute(src_node, entry)
  <2> SUFFICES ASSUME ~ IsRead(automaton, src_node, sub_data.to[s]) PROVE IsSubstitute(src_node, entry)
    OBVIOUS
  <2>1. PICK k \in RowsOf(src_node) :
            /\ IsFirst(k)
            /\ c = [dst |-> data.connections[k].dst,
                    edge |-> PartialSatisfactionEdge(data.connections[k].label, 0)]
    BY DEF IsOriginal
  <2>2. c.dst = data.connections[k].dst /\ c.edge.observation = data.connections[k].label
    BY <2>1 DEF PartialSatisfactionEdge
  <2>3. s \in DOMAIN sub_data.from /\ IsFirstFor(s, data.connections[k].label)
    BY <2>2 DEF Substituted
  <2>4. ASSUME NEW j \in RowsOf(src_node) PROVE data.connections[j].label # sub_data.to[s]
    <3>1. j \in DOMAIN data.connections /\ data.connections[j].src = src_node
      BY DEF RowsOf
    <3>2. j \in 1 .. Len(data.connections)
      BY <3>1 DEF IInv
    <3>3. IsRead(automaton, data.connections[j].src, data.connections[j].label)
      BY <3>2, Zenon DEF Substituting, RowsRead
    <3> QED
      BY <3>1, <3>3
  <2>5. entry = [dst |-> data.connections[k].dst,
                 edge |-> PartialSatisfactionEdge(sub_data.to[s], sub_data.costs[s])]
    BY <2>2 DEF edge
  <2> HIDE DEF entry
  <2> QED
    BY <2>1, <2>3, <2>4, <2>5, Zenon DEF IsSubstitute
<1>6. AllOfTheFile(src_node, Listed(automaton', src_node))
  <2>1. AllOfTheFile(src_node, Listed(automaton, src_node))
    BY <1>1 DEF Substituting
  <2> HIDE DEF entry
  <2>2. \/ Listed(automaton', src_node) = Listed(automaton, src_node)
        \/ /\ Listed(automaton', src_node) = Listed(automaton, src_node) \cup {entry}
           /\ IsSubstitute(src_node, entry)
    BY <1>2, <1>3, <1>5, Zenon
  <2> QED
    BY <2>1, <2>2 DEF AllOfTheFile
<1> QED
  BY <1>2, <1>3, <1>4, <1>6

\* The next letter was looked at: it has its substitute, if the map has one.
LEMMA SubstituteKeepsSInv ==
    ASSUME IInv, SInv, Substitute
    PROVE  SInv'
<1> DEFINE c == edges[substituted + 1]
<1>1. /\ loading = "substituting" /\ loading' = loading /\ substituted < Len(edges)
      /\ substituted' = substituted + 1 /\ UNCHANGED <<data, sub_data, src_node, edges>>
      /\ \/ c.edge.observation \notin DOMAIN sub_map(sub_data) /\ automaton' = automaton
         \/ /\ c.edge.observation \in DOMAIN sub_map(sub_data)
            /\ automaton' = Reads(automaton, src_node, c.dst, sub_map(sub_data)[c.edge.observation])
  BY Zenon DEF Substitute, CopiedEdges
<1>2. /\ Substituting /\ sub_data.from \in Seq(Letters)
      /\ substituted \in Nat /\ src_node \in Nat
  BY <1>1 DEF SInv, IInv
<1>3. Len(edges) \in Nat /\ DOMAIN edges = 1 .. Len(edges) /\ substituted + 1 \in DOMAIN edges /\ c.dst \in Nat
  BY <1>1, <1>2 DEF IInv, IsList
<1>4. IsOriginal(src_node, c)
  BY <1>2, <1>3 DEF Substituting, Copied
<1> HIDE DEF c
<1>5. /\ \A n \in Nat : n # src_node => Listed(automaton', n) = Listed(automaton, n)
      /\ AllOfTheFile(src_node, Listed(automaton', src_node))
      /\ \A n \in Nat : \A letter : IsRead(automaton, n, letter) => IsRead(automaton', n, letter)
      /\ \A s \in DOMAIN sub_data.from :
            IsFirstFor(s, c.edge.observation) => IsRead(automaton', src_node, sub_data.to[s])
  <2>1. CASE c.edge.observation \notin DOMAIN sub_map(sub_data) /\ automaton' = automaton
    <3>1. \A s \in DOMAIN sub_data.from : ~ IsFirstFor(s, c.edge.observation)
      BY <1>2, <2>1, SubMapIsFirst
    <3>2. AllOfTheFile(src_node, Listed(automaton, src_node))
      BY <1>2 DEF Substituting
    <3> QED
      BY <2>1, <3>1, <3>2
  <2>2. CASE /\ c.edge.observation \in DOMAIN sub_map(sub_data)
             /\ automaton' = Reads(automaton, src_node, c.dst, sub_map(sub_data)[c.edge.observation])
    <3>1. PICK s \in DOMAIN sub_data.from :
              /\ IsFirstFor(s, c.edge.observation)
              /\ sub_map(sub_data)[c.edge.observation] =
                    PartialSatisfactionEdge(sub_data.to[s], sub_data.costs[s])
      BY <1>2, <2>2, SubMapIsFirst
    <3>2. Substituted(c, s)
      BY <2>2, <3>1 DEF Substituted
    <3>3. /\ \A n \in Nat : n # src_node => Listed(automaton', n) = Listed(automaton, n)
          /\ AllOfTheFile(src_node, Listed(automaton', src_node))
          /\ \A n \in Nat : \A letter : IsRead(automaton, n, letter) => IsRead(automaton', n, letter)
          /\ IsRead(automaton', src_node, sub_data.to[s])
      BY <1>2, <1>3, <1>4, <3>2, SubstitutedIsOfTheFile
    <3>4. ASSUME NEW t \in DOMAIN sub_data.from, IsFirstFor(t, c.edge.observation)
          PROVE  IsRead(automaton', src_node, sub_data.to[t])
      <4>1. t = s
        BY <1>2, <3>1, <3>4, FirstForALetter
      <4> QED
        BY <3>3, <4>1
    <3> QED
      BY <3>3, <3>4
  <2> QED
    BY <1>1, <2>1, <2>2
<1>6. /\ \A n : RowsOf(n)' = RowsOf(n)
      /\ \A n, x : IsOriginal(n, x)' = IsOriginal(n, x)
      /\ \A n, x : IsSubstitute(n, x)' = IsSubstitute(n, x)
      /\ \A s, letter : IsFirstFor(s, letter)' = IsFirstFor(s, letter)
  BY <1>1, FilesKept
<1>7. Copied'
  BY <1>1, <1>2, <1>6 DEF Substituting, Copied
<1>8. RowsRead(automaton, Len(data.connections))' /\ (\A n \in Nat : n < src_node => SubstitutesRead(automaton, n))'
  <2>1. /\ RowsRead(automaton', Len(data.connections))
        /\ \A n \in Nat : n < src_node => SubstitutesRead(automaton', n)
    BY <1>2, <1>5, StillRead DEF Substituting
  <2>2. RowsRead(automaton, Len(data.connections))'
    BY <1>1, <2>1 DEF RowsRead, IsRead, leaving, size
  <2>3. \A n \in Nat : n < src_node => SubstitutesRead(automaton, n)'
    <3>1. \A n : SubstitutesRead(automaton, n)' <=> SubstitutesRead(automaton', n)
      BY <1>1, <1>6, Zenon DEF SubstitutesRead, IsRead, leaving, size
    <3> QED
      BY <2>1, <3>1
  <2> QED
    BY <1>1, <2>2, <2>3
<1>9. \A n \in Nat : n > src_node => AllOriginal(n, Listed(automaton', n))
  BY <1>2, <1>5 DEF Substituting
<1>10. \A n \in Nat : AllOfTheFile(n, Listed(automaton', n))
  <2> SUFFICES ASSUME NEW n \in Nat PROVE AllOfTheFile(n, Listed(automaton', n))
    OBVIOUS
  <2>1. CASE n = src_node
    BY <1>5, <2>1
  <2>2. CASE n # src_node
    BY <1>2, <1>5, <2>2 DEF Substituting
  <2> QED
    BY <2>1, <2>2
<1>11. \A n : Listed(automaton, n)' = Listed(automaton', n)
  BY DEF Listed, leaving, size
<1>12. (\A n \in Nat : n > src_node => AllOriginal(n, Listed(automaton, n)))'
  <2>1. \A n \in Nat : n > src_node => AllOriginal(n, Listed(automaton, n))'
    BY <1>6, <1>9, <1>11 DEF AllOriginal
  <2> QED
    BY <1>1, <2>1
<1>13. (\A n \in Nat : AllOfTheFile(n, Listed(automaton, n)))'
  BY <1>6, <1>10, <1>11 DEF AllOfTheFile
<1>14. \A i \in 1 .. substituted + 1 : \A s \in DOMAIN sub_data.from :
          IsFirstFor(s, edges[i].edge.observation) => IsRead(automaton', src_node, sub_data.to[s])
  <2> SUFFICES ASSUME NEW i \in 1 .. substituted + 1, NEW s \in DOMAIN sub_data.from,
                      IsFirstFor(s, edges[i].edge.observation)
               PROVE  IsRead(automaton', src_node, sub_data.to[s])
    OBVIOUS
  <2>1. CASE i = substituted + 1
    BY <1>5, <2>1 DEF c
  <2>2. CASE i # substituted + 1
    <3>1. i \in 1 .. substituted
      BY <1>2, <2>2
    <3>2. IsRead(automaton, src_node, sub_data.to[s])
      BY <1>2, <3>1 DEF Substituting
    <3> QED
      BY <1>2, <1>5, <3>2
  <2> QED
    BY <2>1, <2>2
<1>15. (\A i \in 1 .. substituted : \A s \in DOMAIN sub_data.from :
          IsFirstFor(s, edges[i].edge.observation) => IsRead(automaton, src_node, sub_data.to[s]))'
  <2>1. \A n, letter : IsRead(automaton, n, letter)' <=> IsRead(automaton', n, letter)
    BY DEF IsRead, leaving, size
  <2> QED
    BY <1>1, <1>6, <1>14, <2>1
<1>16. substituted' <= Len(edges')
  BY <1>1, <1>2, <1>3
<1>17. Substituting'
  BY <1>7, <1>8, <1>12, <1>13, <1>15, <1>16 DEF Substituting
<1> QED
  BY <1>1, <1>2, <1>17 DEF SInv

\* All letters of a node were looked at: the next node, or the end.
LEMMA NextNodeKeepsSInv ==
    ASSUME IInv, SInv, NextNode
    PROVE  SInv'
<1>1. /\ loading = "substituting" /\ substituted = Len(edges) /\ src_node' = src_node + 1
      /\ substituted' = 0 /\ edges' = leaving(automaton, src_node')
      /\ UNCHANGED <<automaton, data, sub_data>>
      /\ \/ loading' = "substituting"
         \/ loading' = "loaded" /\ ~ (src_node + 1 < size(automaton))
  BY DEF NextNode, CopiedEdges
<1>2. /\ Substituting /\ sub_data.from \in Seq(Letters)
      /\ src_node \in Nat /\ src_node' \in Nat
  BY <1>1 DEF SInv, IInv
<1>3. SubstitutesRead(automaton, src_node)
  <2> SUFFICES ASSUME NEW k \in RowsOf(src_node), NEW s \in DOMAIN sub_data.from,
                      IsFirstFor(s, data.connections[k].label)
               PROVE  IsRead(automaton, src_node, sub_data.to[s])
    BY DEF SubstitutesRead
  <2>1. PICK i \in DOMAIN edges : edges[i].edge.observation = data.connections[k].label
    BY <1>2 DEF Substituting, Copied
  <2>2. i \in 1 .. substituted
    BY <1>1 DEF IInv, IsList
  <2> QED
    BY <1>2, <2>1, <2>2 DEF Substituting
<1>4. \A n \in Nat : n < src_node' => SubstitutesRead(automaton, n)
  <2> SUFFICES ASSUME NEW n \in Nat, n < src_node' PROVE SubstitutesRead(automaton, n)
    OBVIOUS
  <2>1. n = src_node \/ n < src_node
    BY <1>1, <1>2
  <2> QED
    BY <1>2, <1>3, <2>1 DEF Substituting
<1>5. /\ \A n : RowsOf(n)' = RowsOf(n)
      /\ \A n, x : IsOriginal(n, x)' = IsOriginal(n, x)
      /\ \A n, x : IsSubstitute(n, x)' = IsSubstitute(n, x)
      /\ \A s, letter : IsFirstFor(s, letter)' = IsFirstFor(s, letter)
  BY <1>1, FilesKept
<1>6. /\ \A n, letter : IsRead(automaton, n, letter)' <=> IsRead(automaton, n, letter)
      /\ \A n : Listed(automaton, n)' = Listed(automaton, n)
  BY <1>1 DEF IsRead, Listed, leaving, size
<1>7. RowsRead(automaton, Len(data.connections))'
  BY <1>1, <1>2, <1>6 DEF Substituting, RowsRead
<1>8. \A n \in Nat : AllOfTheFile(n, Listed(automaton, n))'
  BY <1>2, <1>5, <1>6 DEF Substituting, AllOfTheFile
<1>9. \A n \in Nat : SubstitutesRead(automaton, n) => SubstitutesRead(automaton, n)'
  BY <1>1, <1>5, <1>6 DEF SubstitutesRead
<1>10. CASE loading' = "substituting"
  <2>1. \A n \in Nat : n > src_node' => AllOriginal(n, Listed(automaton, n))'
    <3>1. \A n \in Nat : n > src_node' => AllOriginal(n, Listed(automaton, n))
      BY <1>1, <1>2 DEF Substituting
    <3> QED
      BY <3>1, <1>5, <1>6 DEF AllOriginal
  <2>2. Copied'
    <3>1. AllOriginal(src_node', Listed(automaton, src_node'))
      BY <1>1, <1>2 DEF Substituting
    <3> QED
      BY <1>1, <1>2, <3>1, CopyIsOfTheRows DEF Substituting
  <2>3. substituted' <= Len(edges')
    <3>1. IsList(edges')
      BY <1>1, <1>2, LeavingIsAList DEF IInv
    <3> QED
      BY <1>1, <3>1 DEF IsList
  <2>4. \A n \in Nat : n < src_node' => SubstitutesRead(automaton, n)'
    BY <1>4, <1>9
  <2>5. \A i \in 1 .. substituted' : FALSE
    BY <1>1
  <2>6. (\A i \in 1 .. substituted : \A s \in DOMAIN sub_data.from :
            IsFirstFor(s, edges[i].edge.observation) => IsRead(automaton, src_node, sub_data.to[s]))'
    BY <2>5
  <2>7. Substituting'
    BY <1>7, <1>8, <2>1, <2>2, <2>3, <2>4, <2>6 DEF Substituting
  <2> QED
    BY <1>1, <1>2, <1>10, <2>7 DEF SInv
<1>11. CASE loading' = "loaded" /\ ~ (src_node + 1 < size(automaton))
  <2>1. ASSUME NEW n \in Nat, ~ (n < src_node') PROVE SubstitutesRead(automaton, n)
    <3>1. ~ (n < size(automaton))
      BY <1>1, <1>2, <1>11, <2>1 DEF IInv, IsAutomaton, IsGraph, size
    <3>2. \A letter : ~ IsRead(automaton, n, letter)
      BY <3>1 DEF IsRead, leaving
    <3>3. ASSUME NEW k \in RowsOf(n) PROVE FALSE
      <4>1. k \in DOMAIN data.connections /\ data.connections[k].src = n
        BY DEF RowsOf
      <4>2. k \in 1 .. Len(data.connections)
        BY <4>1 DEF IInv
      <4>3. IsRead(automaton, n, data.connections[k].label)
        BY <1>2, <4>1, <4>2, Zenon DEF Substituting, RowsRead
      <4> QED
        BY <3>2, <4>3
    <3> QED
      BY <3>3 DEF SubstitutesRead
  <2>2. \A n \in Nat : SubstitutesRead(automaton, n)'
    BY <1>4, <1>9, <2>1
  <2>3. Loaded'
    BY <1>7, <1>8, <2>2 DEF Loaded
  <2> QED
    BY <1>1, <1>2, <1>11, <2>3 DEF SInv
<1> QED
  BY <1>1, <1>10, <1>11

\* The files of the next automaton: nothing is read yet.
LEMMA OpenKeepsSInv ==
    ASSUME NEW dfa_data, dfa_data.connections \in Seq([src : Nat, dst : Nat, label : Letters]),
           NEW sub, sub.from \in Seq(Letters), Open(dfa_data, sub)
    PROVE  SInv'
<1>1. \A n \in Nat : Listed(automaton', n) = {}
  BY NothingListed DEF Open
<1>2. \A n \in Nat : Listed(automaton, n)' = {}
  BY <1>1 DEF Listed, leaving, size
<1>3. \A n \in Nat : AllOriginal(n, Listed(automaton, n))'
  BY <1>2 DEF AllOriginal
<1>4. row' = 0 /\ src_node' = 0 /\ substituted' = 0 /\ loading' = "connecting" /\ data' = dfa_data /\ sub_data' = sub
  BY DEF Open
<1>5. \A k \in 1 .. row' : FALSE
  BY <1>4
<1>6. RowsRead(automaton, row)'
  BY <1>5 DEF RowsRead
<1>7. row' <= Len(data'.connections)
  BY <1>4
<1>8. Connecting'
  BY <1>3, <1>4, <1>6, <1>7 DEF Connecting
<1> QED
  BY <1>4, <1>8 DEF SInv

LEMMA InitSInv == Init => SInv
BY DEF Init, LoaderInit, NoSubMap, SInv

LEMMA NextKeepsSInv == IInv /\ SInv /\ [Next]_vars => SInv'
<1> SUFFICES ASSUME IInv, SInv, [Next]_vars PROVE SInv'
  OBVIOUS
<1>1. CASE LoadDFA
  BY <1>1, ConnectKeepsSInv, BeginSubstitutionKeepsSInv, SubstituteKeepsSInv, NextNodeKeepsSInv
  DEF LoadDFA, Load
<1>2. CASE UNCHANGED loader_vars
  <2>1. UNCHANGED <<data, sub_data>>
    BY <1>2 DEF loader_vars
  <2>2. SInv' = SInv
    BY <1>2 DEF loader_vars, SInv, Connecting, Substituting, Loaded, Copied, RowsRead, AllOriginal,
       AllOfTheFile, SubstitutesRead, Listed, IsRead, leaving, size, IsOriginal, IsSubstitute, IsFirst,
       IsFirstFor, RowsOf
  <2> QED
    BY <2>2
<1>3. CASE OpenDFA
  <2>1. CASE \/ dfa_filepath \notin DOMAIN task.disk.dfas
             \/ IsPartial /\ sub_map_filepath \notin DOMAIN task.disk.sub_maps
    BY <1>2, <1>3, <2>1 DEF OpenDFA
  <2>2. CASE ~ (\/ dfa_filepath \notin DOMAIN task.disk.dfas
                \/ IsPartial /\ sub_map_filepath \notin DOMAIN task.disk.sub_maps)
    <3> DEFINE dfa_data == task.disk.dfas[dfa_filepath]
               sub == IF IsPartial THEN task.disk.sub_maps[sub_map_filepath] ELSE NoSubMap
    <3>1. Open(dfa_data, sub)
      BY <1>3, <2>2 DEF OpenDFA
    <3>2. dfa_data.connections \in Seq([src : Nat, dst : Nat, label : Letters])
      BY <2>2, TasksAssumption DEF IInv
    <3>3. sub.from \in Seq(Letters)
      <4>1. CASE IsPartial
        BY <2>2, <4>1, TasksAssumption DEF IInv
      <4>2. CASE ~ IsPartial
        BY <4>2 DEF NoSubMap
      <4> QED
        BY <4>1, <4>2
    <3> HIDE DEF dfa_data, sub
    <3> QED
      BY <3>1, <3>2, <3>3, OpenKeepsSInv
  <2> QED
    BY <2>1, <2>2
<1>4. CASE KeepDFA
  BY <1>4 DEF KeepDFA, SInv
<1>5. ParseCommandLine \/ Generate \/ RefuseDFA \/ BeginPlan \/ EndPlan => UNCHANGED loader_vars
  BY DEF ParseCommandLine, Generate, RefuseDFA, BeginPlan, EndPlan
<1>6. Search => UNCHANGED loader_vars
  BY DEF Search
<1>7. WritePlan \/ Finish \/ Terminated \/ UNCHANGED vars => UNCHANGED loader_vars
  BY DEF WritePlan, Finish, Terminated, vars
<1> QED
  BY <1>1, <1>2, <1>3, <1>4, <1>5, <1>6, <1>7 DEF Next

LEMMA LoadedIsOfTheFile == IInv /\ SInv => SubstitutionsAreOfTheFile
<1> SUFFICES ASSUME IInv, SInv, loading = "loaded" PROVE SubstitutionsAreOfTheFile
  BY DEF SubstitutionsAreOfTheFile
<1>1. Loaded
  BY DEF SInv
<1>2. ASSUME NEW n \in DOMAIN automaton.m_graph, NEW j \in DOMAIN automaton.m_graph[n]
      PROVE  \/ IsOriginal(n - 1, automaton.m_graph[n][j])
             \/ IsSubstitute(n - 1, automaton.m_graph[n][j])
  <2>1. n - 1 \in Nat /\ leaving(automaton, n - 1) = automaton.m_graph[n]
    BY DEF IInv, IsAutomaton, IsGraph, leaving, size
  <2>2. automaton.m_graph[n][j] \in Listed(automaton, n - 1)
    BY <2>1 DEF Listed
  <2> QED
    BY <1>1, <2>1, <2>2 DEF Loaded, AllOfTheFile
<1>3. ASSUME NEW k \in DOMAIN data.connections
      PROVE  /\ IsRead(automaton, data.connections[k].src, data.connections[k].label)
             /\ \A s \in DOMAIN sub_data.from :
                   IsFirstFor(s, data.connections[k].label) =>
                      IsRead(automaton, data.connections[k].src, sub_data.to[s])
  <2> DEFINE Row == [src : Nat, dst : Nat, label : Letters]
             rows == data.connections
  <2>1. rows \in Seq(Row) /\ \A x \in Row : x.src \in Nat
    BY DEF IInv
  <2> HIDE DEF Row, rows
  <2>2. rows[k].src \in Nat /\ k \in 1 .. Len(rows)
    BY <1>3, <2>1 DEF rows
  <2>3. k \in RowsOf(rows[k].src)
    BY DEF RowsOf, rows
  <2>4. /\ IsRead(automaton, rows[k].src, rows[k].label)
        /\ SubstitutesRead(automaton, rows[k].src)
    BY <1>1, <2>2 DEF Loaded, RowsRead, rows
  <2> QED
    BY <2>3, <2>4, Zenon DEF SubstitutesRead, rows
<1> QED
  BY <1>2, <1>3, Zenon DEF SubstitutionsAreOfTheFile

\* Whatever the DFA files and the sub maps say: an automaton that was read has
\* the connections of its files and no other, each letter substituted at most
\* once and for what the map asks, and lacks no substitute
\* (PartialSatisfactionAutomaton.h:81-95).
THEOREM FilesAreFollowed == Spec => []SubstitutionsAreOfTheFile
<1>1. Spec => []IInv
  BY InitIInv, NextKeepsIInv, PTL DEF Spec
<1>2. Spec => []SInv
  BY <1>1, InitSInv, NextKeepsSInv, PTL DEF Spec
<1> QED BY <1>1, <1>2, LoadedIsOfTheFile, PTL

-----------------------------------------------------------------------------
\* What is proved of a product does not depend on which products there are, nor
\* on the state of a product's cache.
Symbolic == INSTANCE SymbolicProductProofs WITH
    Products <- {}, CacheSizes <- {}, Uses <- {},
    product <- 0, max_size <- 0, uses <- 0, m_cache <- 0, status <- 0, last <- 0

\* A planner asks for no accepting node and for one initial node only, so the
\* states a file says are accepting, and the further initial ones, need not be
\* nodes: the product is seen without them.
WithoutStates(a) ==
    [size |-> a.size, connections |-> a.connections, init |-> <<a.init[1]>>, accepting |-> {a.init[1]}]

Seen(p) ==
    [model |-> p.model, observe |-> p.observe,
     automata |-> [a \in DOMAIN p.automata |-> WithoutStates(p.automata[a])]]

IsPlannable(p) ==
    /\ \E n \in Nat : DOMAIN p.automata = 1 .. n /\ p.automata = [a \in 1 .. n |-> p.automata[a]]
    /\ IsProduct(Seen(p))

\* Of each graph, its size and its connections are seen.
LEMMA SeenGraphs ==
    ASSUME NEW p, IsPlannable(p)
    PROVE  /\ DOMAIN Seen(p).automata = DOMAIN p.automata
           /\ Seen(p).model = p.model /\ Seen(p).observe = p.observe
           /\ \A a \in DOMAIN p.automata : /\ Seen(p).automata[a].size = p.automata[a].size
                                           /\ Seen(p).automata[a].connections = p.automata[a].connections
           /\ DOMAIN graphs(Seen(p)) = DOMAIN graphs(p)
           /\ \A k \in DOMAIN graphs(p) : graphs(Seen(p))[k].size = graphs(p)[k].size
<1> DEFINE q == Seen(p)
<1>1. PICK n \in Nat : DOMAIN p.automata = 1 .. n /\ p.automata = [a \in 1 .. n |-> p.automata[a]]
  BY DEF IsPlannable
<1>2. q.automata = [a \in 1 .. n |-> WithoutStates(p.automata[a])] /\ q.model = p.model /\ q.observe = p.observe
  BY <1>1 DEF Seen
<1> HIDE DEF q
<1>3. DOMAIN q.automata = 1 .. n /\ q.automata = [a \in 1 .. n |-> q.automata[a]]
      /\ \A a \in 1 .. n : q.automata[a] = WithoutStates(p.automata[a])
  BY <1>2
<1>4. \A a \in 1 .. n : q.automata[a].size = p.automata[a].size /\ q.automata[a].connections = p.automata[a].connections
  <2>1. \A a : WithoutStates(a).size = a.size /\ WithoutStates(a).connections = a.connections
    BY DEF WithoutStates
  <2> QED
    BY <1>3, <2>1
<1>5. /\ DOMAIN graphs(p) = 1 .. n + 1 /\ graphs(p)[1] = p.model
      /\ \A k \in 1 .. n : graphs(p)[k + 1] = p.automata[k]
  BY <1>1, Symbolic!Prepended DEF graphs
<1>6. /\ DOMAIN graphs(q) = 1 .. n + 1 /\ graphs(q)[1] = q.model
      /\ \A k \in 1 .. n : graphs(q)[k + 1] = q.automata[k]
  BY <1>3, Symbolic!Prepended DEF graphs
<1>7. ASSUME NEW k \in 1 .. n + 1 PROVE graphs(q)[k].size = graphs(p)[k].size
  <2>1. CASE k = 1
    BY <1>2, <1>5, <1>6, <2>1
  <2>2. CASE k # 1
    <3>1. k - 1 \in 1 .. n /\ (k - 1) + 1 = k
      BY <2>2
    <3>2. graphs(q)[(k - 1) + 1] = q.automata[k - 1] /\ graphs(p)[(k - 1) + 1] = p.automata[k - 1]
      BY <1>5, <1>6, <3>1
    <3> QED
      BY <1>4, <3>1, <3>2
  <2> QED
    BY <2>1, <2>2
<1>8. /\ DOMAIN q.automata = DOMAIN p.automata /\ q.model = p.model /\ q.observe = p.observe
      /\ \A a \in DOMAIN p.automata : /\ q.automata[a].size = p.automata[a].size
                                      /\ q.automata[a].connections = p.automata[a].connections
      /\ DOMAIN graphs(q) = DOMAIN graphs(p)
      /\ \A k \in DOMAIN graphs(p) : graphs(q)[k].size = graphs(p)[k].size
  BY <1>1, <1>2, <1>3, <1>4, <1>5, <1>6, <1>7
<1> QED
  BY <1>8 DEF q

\* The theorems' product numbers its nodes as the planner's does.
LEMMA SameNumbering ==
    ASSUME NEW p, IsPlannable(p)
    PROVE  /\ Symbolic!IsProduct(Seen(p))
           /\ Symbolic!WideNode(Seen(p)) = WideNode(p)
           /\ \A node : Symbolic!unwrap(Seen(p), node) = unwrap(p, node)
           /\ \A inds : Symbolic!wrap(Seen(p), inds) = wrap(p, inds)
<1> DEFINE q == Seen(p)
<1>1. ASSUME NEW v PROVE Symbolic!Times(v) = Times(v) /\ Symbolic!Plus(v) = Plus(v)
  <2>1. Symbolic!Times(v) = Times(v)
    BY DEF Symbolic!Times, Times, Symbolic!FoldLeft, FoldLeft, Symbolic!MapThenFoldSet, MapThenFoldSet, Symbolic!Max, Max
  <2>2. Symbolic!Plus(v) = Plus(v)
    BY DEF Symbolic!Plus, Plus, Symbolic!FoldLeft, FoldLeft, Symbolic!MapThenFoldSet, MapThenFoldSet, Symbolic!Max, Max
  <2> QED
    BY <2>1, <2>2
<1>2. \A sizes, k : Symbolic!temp(sizes, k) = temp(sizes, k)
  BY <1>1 DEF Symbolic!temp, temp
<1>3. Symbolic!graphs(q) = graphs(q)
  BY DEF Symbolic!graphs, graphs
<1>4. Symbolic!m_graph_sizes(q) = m_graph_sizes(q)
  BY <1>3 DEF Symbolic!m_graph_sizes, m_graph_sizes
<1>5. \A g : Symbolic!Node(g) = Node(g)
  BY DEF Symbolic!Node, Node
<1>6. \A f : Symbolic!Range(f) = Range(f)
  BY DEF Symbolic!Range, Range
<1>7. Symbolic!IsProduct(q)
  BY <1>1, <1>3, <1>4, <1>5, <1>6 DEF Symbolic!IsProduct, IsProduct, IsPlannable
<1>8. DOMAIN graphs(q) = DOMAIN graphs(p) /\ \A k \in DOMAIN graphs(p) : graphs(q)[k].size = graphs(p)[k].size
  BY SeenGraphs
<1> HIDE DEF q
<1>9. m_graph_sizes(q) = m_graph_sizes(p)
  BY <1>8 DEF m_graph_sizes
<1>10. Symbolic!WideNode(q) = WideNode(p)
  BY <1>1, <1>4, <1>9 DEF Symbolic!WideNode, WideNode
<1>11. ASSUME NEW node PROVE Symbolic!unwrap(q, node) = unwrap(p, node)
  BY <1>2, <1>4, <1>9 DEF Symbolic!unwrap, unwrap
<1>12. ASSUME NEW inds PROVE Symbolic!wrap(q, inds) = wrap(p, inds)
  BY <1>1, <1>2, <1>3, <1>4, <1>8, <1>9 DEF Symbolic!wrap, wrap
<1> QED
  BY <1>7, <1>10, <1>11, <1>12 DEF q

\* And it has the same connections.
LEMMA SameSteps ==
    ASSUME NEW p, IsPlannable(p), NEW node
    PROVE  /\ Symbolic!Outward(Seen(p), node, Symbolic!post(Seen(p), node)) = Outward(p, node, post(p, node))
           /\ \A n : \A a \in DOMAIN p.automata : Symbolic!outgoing(Seen(p).automata[a], n) = outgoing(p.automata[a], n)
           /\ \A n : Symbolic!outgoing(Seen(p).model, n) = outgoing(p.model, n)
<1> DEFINE q == Seen(p)
<1>1. ASSUME NEW v, NEW S PROVE Symbolic!Among(v, S) = Among(v, S)
  BY DEF Symbolic!Among, Among, Symbolic!FoldLeft, FoldLeft, Symbolic!MapThenFoldSet, MapThenFoldSet, Symbolic!Max, Max
<1>2. \A f : Symbolic!Range(f) = Range(f)
  BY DEF Symbolic!Range, Range
<1>3. /\ DOMAIN q.automata = DOMAIN p.automata /\ q.model = p.model /\ q.observe = p.observe
      /\ \A a \in DOMAIN p.automata : q.automata[a].connections = p.automata[a].connections
  BY SeenGraphs
<1>4. Symbolic!unwrap(q, node) = unwrap(p, node)
  BY SameNumbering
<1> HIDE DEF q
<1>5. ASSUME NEW g, NEW h, g.connections = h.connections, NEW n PROVE Symbolic!outgoing(g, n) = outgoing(h, n)
  BY <1>1, <1>2, <1>5 DEF Symbolic!outgoing, outgoing
<1>6. /\ \A n : \A a \in DOMAIN p.automata : Symbolic!outgoing(q.automata[a], n) = outgoing(p.automata[a], n)
      /\ \A n : Symbolic!outgoing(q.model, n) = outgoing(p.model, n)
  <2>1. ASSUME NEW n, NEW a \in DOMAIN p.automata
        PROVE  Symbolic!outgoing(q.automata[a], n) = outgoing(p.automata[a], n)
    <3>1. q.automata[a].connections = p.automata[a].connections
      BY <1>3
    <3> QED
      BY <1>5, <3>1
  <2>2. ASSUME NEW n PROVE Symbolic!outgoing(q.model, n) = outgoing(p.model, n)
    <3>1. q.model.connections = p.model.connections
      BY <1>3
    <3> QED
      BY <1>5, <3>1
  <2> QED
    BY <2>1, <2>2
<1>7. \A sp, cs : Symbolic!OptionsInto(q, sp, cs) = OptionsInto(p, sp, cs)
  <2>1. \A sp, o : Symbolic!observe(q, sp, o) <=> observe(p, sp, o)
    BY <1>3 DEF Symbolic!observe, observe
  <2> SUFFICES ASSUME NEW sp, NEW cs PROVE Symbolic!OptionsInto(q, sp, cs) = OptionsInto(p, sp, cs)
    OBVIOUS
  <2> QED
    BY <1>1, <2>1 DEF Symbolic!OptionsInto, OptionsInto
<1> DEFINE u == unwrap(p, node)
           mc == outgoing(p.model, u[1])
           ac == [a \in DOMAIN p.automata |-> outgoing(p.automata[a], u[a + 1])]
<1>8. /\ Symbolic!outgoing(q.model, Symbolic!unwrap(q, node)[1]) = mc
      /\ [a \in DOMAIN q.automata |-> Symbolic!outgoing(q.automata[a], Symbolic!unwrap(q, node)[a + 1])] = ac
  BY <1>3, <1>4, <1>6
<1>9. Symbolic!post(q, node) = post(p, node)
  <2> DEFINE perm(k) == [ts_ind_option |-> k,
                         automaton_set_ind_options |->
                           [a \in DOMAIN p.automata |-> OptionsInto(p, mc[k].dst, ac[a])]]
             perms == [k \in DOMAIN mc |-> perm(k)]
             open == {x \in Range(perms) : <<>> \notin Range(x.automaton_set_ind_options)}
  <2>1. post(p, node) = Among(perms, open)
    BY DEF post
  <2> DEFINE seen_mc == Symbolic!outgoing(q.model, Symbolic!unwrap(q, node)[1])
             seen_ac == [a \in DOMAIN q.automata |-> Symbolic!outgoing(q.automata[a], Symbolic!unwrap(q, node)[a + 1])]
             seen_perm(k) == [ts_ind_option |-> k,
                              automaton_set_ind_options |->
                                [a \in DOMAIN q.automata |-> Symbolic!OptionsInto(q, seen_mc[k].dst, seen_ac[a])]]
             seen_perms == [k \in DOMAIN seen_mc |-> seen_perm(k)]
             seen_open == {x \in Symbolic!Range(seen_perms) :
                             <<>> \notin Symbolic!Range(x.automaton_set_ind_options)}
  <2>2. Symbolic!post(q, node) = Symbolic!Among(seen_perms, seen_open)
    BY DEF Symbolic!post
  <2>3. seen_mc = mc /\ seen_ac = ac
    BY <1>8
  <2> HIDE DEF seen_mc, seen_ac, u, mc, ac
  <2>4. seen_perms = perms
    BY <1>3, <1>7, <2>3
  <2> HIDE DEF seen_perms, perms
  <2>5. seen_open = open
    BY <1>2, <2>4
  <2> HIDE DEF seen_open, open
  <2> QED
    BY <1>1, <2>1, <2>2, <2>4, <2>5
<1>10. ASSUME NEW options PROVE Symbolic!Picks(options) = Picks(options)
  <2>1. ASSUME NEW v PROVE Symbolic!Times(v) = Times(v)
    BY DEF Symbolic!Times, Times, Symbolic!FoldLeft, FoldLeft, Symbolic!MapThenFoldSet, MapThenFoldSet, Symbolic!Max, Max
  <2>2. \A sizes, k : Symbolic!temp(sizes, k) = temp(sizes, k)
    BY <2>1 DEF Symbolic!temp, temp
  <2>3. \A o : Symbolic!permutations(o) = permutations(o)
    BY <2>1, <2>2 DEF Symbolic!permutations, permutations
  <2> QED
    BY <2>3 DEF Symbolic!Picks, Picks
<1>11. \A m, ch, au : Symbolic!Combine(m, ch, au) = Combine(m, ch, au)
  BY DEF Symbolic!Combine, Combine
<1>12. ASSUME NEW seqs PROVE Symbolic!FlattenSeq(seqs) = FlattenSeq(seqs)
  BY DEF Symbolic!FlattenSeq, FlattenSeq
<1>13. ASSUME NEW array PROVE Symbolic!Outward(q, node, array) = Outward(p, node, array)
  <2>1. Outward(p, node, array) =
          FlattenSeq([k \in DOMAIN array |-> Combine(mc[array[k].ts_ind_option],
                                                     Picks(array[k].automaton_set_ind_options), ac)])
    BY DEF Outward
  <2> HIDE DEF u, mc, ac
  <2> QED
    BY <1>8, <1>10, <1>11, <1>12, <2>1 DEF Symbolic!Outward
<1> QED
  BY <1>6, <1>9, <1>13 DEF q

-----------------------------------------------------------------------------
\* The connections that leave a node, worked out from what enables them.
Connected(p, node) == Outward(p, node, post(p, node))

\* A connection of the model with one of each automaton, from the parts of a
\* node, that each automaton may follow.
IsStep(p, node, x) ==
    /\ DOMAIN x.automata = DOMAIN p.automata
    /\ x.model \in Range(p.model.connections) /\ x.model.src = unwrap(p, node)[1]
    /\ \A a \in DOMAIN p.automata :
          /\ x.automata[a] \in Range(p.automata[a].connections)
          /\ x.automata[a].src = unwrap(p, node)[a + 1]
          /\ observe(p, x.model.dst, x.automata[a].edge)

\* A node that has these parts.
HasParts(p, node, sp, f) ==
    /\ node \in WideNode(p) /\ unwrap(p, node)[1] = sp
    /\ \A a \in DOMAIN p.automata : unwrap(p, node)[a + 1] = f[a]

\* What leaves a node are such connections, each to the node of its ends.
LEMMA ConnectionsLeave ==
    ASSUME NEW p, IsPlannable(p), NEW node \in WideNode(p)
    PROVE  /\ Connected(p, node) \in Seq(Range(Connected(p, node)))
           /\ \A x \in Range(Connected(p, node)) :
                 /\ IsStep(p, node, x)
                 /\ HasParts(p, Destination(p, x), x.model.dst, [a \in DOMAIN p.automata |-> x.automata[a].dst])
           /\ \A y : IsStep(p, node, y) =>
                 \E x \in Range(Connected(p, node)) :
                    x.model = y.model /\ \A a \in DOMAIN p.automata : x.automata[a] = y.automata[a]
<1> DEFINE q == Seen(p)
           u == unwrap(p, node)
           listed == Range(Connected(p, node))
<1>1. /\ Symbolic!IsProduct(q) /\ Symbolic!WideNode(q) = WideNode(p)
      /\ \A n : Symbolic!unwrap(q, n) = unwrap(p, n)
      /\ \A inds : Symbolic!wrap(q, inds) = wrap(p, inds)
  BY SameNumbering
<1>2. /\ DOMAIN q.automata = DOMAIN p.automata /\ q.model = p.model /\ q.observe = p.observe
      /\ \A a \in DOMAIN p.automata : q.automata[a].connections = p.automata[a].connections
  BY SeenGraphs
<1>3. \A f : Symbolic!Range(f) = Range(f)
  BY DEF Symbolic!Range, Range
<1>4. /\ Symbolic!Outward(q, node, Symbolic!post(q, node)) = Connected(p, node)
      /\ \A n : \A a \in DOMAIN p.automata : Symbolic!outgoing(q.automata[a], n) = outgoing(p.automata[a], n)
      /\ \A n : Symbolic!outgoing(q.model, n) = outgoing(p.model, n)
  BY SameSteps DEF Connected
<1>5. LET su == Symbolic!unwrap(q, node)
          sl == Symbolic!Range(Symbolic!Outward(q, node, Symbolic!post(q, node)))
      IN  /\ \A x \in sl : DOMAIN x.automata = DOMAIN q.automata /\ Symbolic!Leads(q, su, x.model, x.automata)
          /\ \A m, f : Symbolic!Leads(q, su, m, f) =>
                \E x \in sl : x.model = m /\ \A a \in DOMAIN q.automata : x.automata[a] = f[a]
          /\ Symbolic!Outward(q, node, Symbolic!post(q, node)) \in Seq(sl)
  BY <1>1, Symbolic!OutwardElements
<1> HIDE DEF q
<1>6. /\ \A x \in listed : DOMAIN x.automata = DOMAIN q.automata /\ Symbolic!Leads(q, u, x.model, x.automata)
      /\ \A m, f : Symbolic!Leads(q, u, m, f) =>
            \E x \in listed : x.model = m /\ \A a \in DOMAIN q.automata : x.automata[a] = f[a]
      /\ Connected(p, node) \in Seq(listed)
  BY <1>1, <1>3, <1>4, <1>5
<1> HIDE DEF u, listed
<1>7. ASSUME NEW g, g.connections \in Seq(Range(g.connections)), NEW n
      PROVE  Range(Symbolic!outgoing(g, n)) = {x \in Range(g.connections) : x.src = n}
  <2>1. Symbolic!Range(Symbolic!outgoing(g, n)) = {x \in Symbolic!Range(g.connections) : x.src = n}
    BY <1>3, <1>7, Symbolic!Connections
  <2> QED
    BY <1>3, <2>1
<1>8. /\ q.model.connections \in Seq(Range(q.model.connections))
      /\ \A a \in DOMAIN q.automata : q.automata[a].connections \in Seq(Range(q.automata[a].connections))
  BY <1>1, <1>3, Symbolic!ProductGraphs
<1>9. ASSUME NEW x \in listed
      PROVE  /\ IsStep(p, node, x)
             /\ HasParts(p, Destination(p, x), x.model.dst, [a \in DOMAIN p.automata |-> x.automata[a].dst])
  <2>1. /\ DOMAIN x.automata = DOMAIN q.automata
        /\ x.model \in Range(Symbolic!outgoing(q.model, u[1]))
        /\ \A a \in DOMAIN q.automata : /\ x.automata[a] \in Range(Symbolic!outgoing(q.automata[a], u[a + 1]))
                                        /\ Symbolic!observe(q, x.model.dst, x.automata[a].edge)
    BY <1>3, <1>6 DEF Symbolic!Leads
  <2>2. x.model \in Range(p.model.connections) /\ x.model.src = u[1]
    BY <1>2, <1>7, <1>8, <2>1
  <2>3. \A a \in DOMAIN p.automata : x.automata[a] \in Range(p.automata[a].connections) /\ x.automata[a].src = u[a + 1]
    BY <1>2, <1>7, <1>8, <2>1
  <2>4. \A a \in DOMAIN p.automata : observe(p, x.model.dst, x.automata[a].edge)
    BY <1>2, <2>1 DEF Symbolic!observe, observe
  <2>5. IsStep(p, node, x)
    BY <1>2, <2>1, <2>2, <2>3, <2>4 DEF IsStep, u
  <2> DEFINE D == Symbolic!Destination(q, x)
  <2>6. /\ D \in Symbolic!WideNode(q) /\ Symbolic!unwrap(q, D)[1] = x.model.dst
        /\ \A a \in DOMAIN q.automata : Symbolic!unwrap(q, D)[a + 1] = x.automata[a].dst
    <3>1. /\ x.model \in Symbolic!Range(q.model.connections)
          /\ \A a \in DOMAIN q.automata : x.automata[a] \in Symbolic!Range(q.automata[a].connections)
      BY <1>2, <1>3, <2>2, <2>3
    <3> QED
      BY <1>1, <2>1, <3>1, Symbolic!Ends
  <2>7. D = Destination(p, x)
    BY <1>1 DEF Symbolic!Destination, Destination
  <2> HIDE DEF D
  <2>8. HasParts(p, Destination(p, x), x.model.dst, [a \in DOMAIN p.automata |-> x.automata[a].dst])
    BY <1>1, <1>2, <2>6, <2>7 DEF HasParts
  <2> QED
    BY <2>5, <2>8
<1>10. ASSUME NEW y, IsStep(p, node, y)
       PROVE  \E x \in listed : x.model = y.model /\ \A a \in DOMAIN p.automata : x.automata[a] = y.automata[a]
  <2>1. y.model \in Range(Symbolic!outgoing(q.model, u[1]))
    BY <1>2, <1>7, <1>8, <1>10 DEF IsStep, u
  <2>2. ASSUME NEW a \in DOMAIN q.automata
        PROVE  /\ y.automata[a] \in Range(Symbolic!outgoing(q.automata[a], u[a + 1]))
               /\ Symbolic!observe(q, y.model.dst, y.automata[a].edge)
    <3>1. /\ y.automata[a] \in Range(q.automata[a].connections) /\ y.automata[a].src = u[a + 1]
          /\ observe(p, y.model.dst, y.automata[a].edge)
      BY <1>2, <1>10, <2>2 DEF IsStep, u
    <3>2. y.automata[a] \in Range(Symbolic!outgoing(q.automata[a], u[a + 1]))
      BY <1>7, <1>8, <2>2, <3>1
    <3> QED
      BY <1>2, <3>1, <3>2 DEF Symbolic!observe, observe
  <2>3. Symbolic!Leads(q, u, y.model, y.automata)
    BY <1>3, <2>1, <2>2 DEF Symbolic!Leads
  <2> QED
    BY <1>2, <1>6, <2>3
<1> QED
  BY <1>6, <1>9, <1>10 DEF listed

\* A walk starts at a node of the product, in the first cell, with every
\* automaton in its first initial state.
LEMMA StartIsANode ==
    ASSUME NEW p, IsPlannable(p)
    PROVE  HasParts(p, init_node(p), 0, [a \in DOMAIN p.automata |-> p.automata[a].init[1]])
<1> DEFINE q == Seen(p)
           first == [a \in DOMAIN p.automata |-> p.automata[a].init[1]]
<1>1. /\ Symbolic!IsProduct(q) /\ Symbolic!WideNode(q) = WideNode(p)
      /\ \A n : Symbolic!unwrap(q, n) = unwrap(p, n)
      /\ \A inds : Symbolic!wrap(q, inds) = wrap(p, inds)
  BY SameNumbering
<1>2. DOMAIN q.automata = DOMAIN p.automata /\ q.model = p.model
  BY SeenGraphs
<1>3. \A a \in DOMAIN p.automata : q.automata[a].init = <<p.automata[a].init[1]>>
  BY DEF Seen, WithoutStates
<1>4. init_node(p) = wrap(p, <<0>> \o first)
  BY DEF init_node, Mapped
<1> HIDE DEF q
<1>5. IsProduct(q)
  BY DEF IsPlannable, q
<1>6. \A a \in DOMAIN q.automata : q.automata[a].init[1] \in Node(q.automata[a])
  <2>1. ASSUME NEW a \in DOMAIN q.automata PROVE q.automata[a].init[1] \in Node(q.automata[a])
    <3>1. /\ q.automata[a].init # <<>> /\ q.automata[a].init \in Seq(Range(q.automata[a].init))
          /\ Range(q.automata[a].init) \subseteq Node(q.automata[a])
      BY <1>5 DEF IsProduct
    <3> DEFINE v == q.automata[a].init
    <3>2. 1 \in DOMAIN v
      BY <3>1
    <3> QED
      BY <3>1, <3>2 DEF Range
  <2> QED
    BY <2>1
<1>7. \A a \in DOMAIN q.automata : first[a] \in Node(q.automata[a])
  BY <1>2, <1>3, <1>6
<1>8. 0 \in Node(q.model)
  <2>1. graphs(q)[1] = q.model /\ 1 \in DOMAIN graphs(q)
    BY <1>5 DEF graphs, IsProduct
  <2>2. q.model.size \in Nat \ {0}
    BY <1>5, <2>1 DEF IsProduct
  <2> QED
    BY <2>2 DEF Node
<1>9. first = [a \in DOMAIN q.automata |-> first[a]]
  BY <1>2
<1> HIDE DEF first
<1>10. \A g : Symbolic!Node(g) = Node(g)
  BY DEF Symbolic!Node, Node
<1>11. Symbolic!HasParts(q, Symbolic!wrap(q, <<0>> \o first), 0, first)
  BY <1>1, <1>7, <1>8, <1>9, <1>10, Symbolic!PutTogether
<1>12. HasParts(p, init_node(p), 0, first)
  BY <1>1, <1>2, <1>4, <1>11 DEF Symbolic!HasParts, HasParts
<1> QED
  BY <1>12 DEF first

-----------------------------------------------------------------------------
\* The nodes of an automaton.
States(m) == 0 .. size(m) - 1

\* A connection leads to a node.
StaysInside(m) ==
    \A n \in DOMAIN m.m_graph : \A j \in DOMAIN m.m_graph[n] : m.m_graph[n][j].dst \in States(m)

\* An automaton that was read from a file.
IsRun(m) ==
    /\ IsAutomaton(m) /\ StaysInside(m)
    /\ m.m_init_states # <<>> /\ m.m_init_states[1] \in States(m)

\* A connection of an automaton's graph is one of the list of its node.
IsListed(m, c) ==
    /\ c.src \in States(m) /\ c.dst \in States(m)
    /\ \E x \in Range(leaving(m, c.src)) : c.dst = x.dst /\ c.edge = x.edge

LEMMA GraphOfAutomaton ==
    ASSUME NEW m, IsRun(m)
    PROVE  /\ GraphOf(m).connections \in Seq(Range(GraphOf(m).connections))
           /\ \A c \in Range(GraphOf(m).connections) : IsListed(m, c)
           /\ \A n \in States(m) : \A x \in Range(leaving(m, n)) :
                 [src |-> n, dst |-> x.dst, edge |-> x.edge] \in Range(GraphOf(m).connections)
           /\ GraphOf(m).size \in Nat \ {0}
           /\ GraphOf(m).init = m.m_init_states /\ GraphOf(m).size = size(m)
           /\ GraphOf(m).accepting = m.m_accepting_states
<1> DEFINE row_of(n) == Mapped(m.m_graph[n], LAMBDA x : [src |-> n - 1, dst |-> x.dst, edge |-> x.edge])
           rows == [n \in DOMAIN m.m_graph |-> row_of(n)]
           N == Len(m.m_graph)
<1>1. PICK S : m.m_graph \in Seq(Seq(S)) /\ \A x \in S : x.dst \in Nat
  BY DEF IsRun, IsAutomaton, IsGraph
<1>2. N \in Nat /\ DOMAIN m.m_graph = 1 .. N /\ size(m) = N
  BY <1>1 DEF size
<1>3. ASSUME NEW n \in 1 .. N
      PROVE  /\ rows[n] \in Seq(Range(rows[n]))
             /\ \A c \in Range(rows[n]) : IsListed(m, c)
  <2> DEFINE list == m.m_graph[n]
             l == Len(list)
  <2>1. list \in Seq(S)
    BY <1>1, <1>2
  <2>2. l \in Nat /\ DOMAIN list = 1 .. l
    BY <2>1
  <2>3. rows[n] = [j \in DOMAIN list |-> [src |-> n - 1, dst |-> list[j].dst, edge |-> list[j].edge]]
    BY <1>2 DEF Mapped
  <2>4. leaving(m, n - 1) = list
    BY <1>2 DEF leaving
  <2>5. \A j \in DOMAIN list : list[j].dst \in States(m)
    BY <1>2 DEF IsRun, StaysInside
  <2>6. n - 1 \in States(m)
    BY <1>2 DEF States
  <2> HIDE DEF rows, list, l
  <2>7. DOMAIN rows[n] = 1 .. l /\ rows[n] = [j \in 1 .. l |-> rows[n][j]]
    BY <2>2, <2>3
  <2>8. rows[n] \in Seq(Range(rows[n]))
    <3> DEFINE r == rows[n]
    <3> HIDE DEF r
    <3>1. r \in [1 .. l -> Range(r)]
      <4>1. \A j \in 1 .. l : r[j] \in Range(r)
        BY <2>7 DEF Range, r
      <4> QED
        BY <2>7, <4>1 DEF r
    <3> QED
      BY <2>2, <3>1 DEF r
  <2>9. ASSUME NEW c \in Range(rows[n]) PROVE IsListed(m, c)
    <3>1. PICK j \in DOMAIN list : c = [src |-> n - 1, dst |-> list[j].dst, edge |-> list[j].edge]
      BY <2>3, <2>9 DEF Range
    <3>2. c.src = n - 1 /\ c.dst = list[j].dst /\ c.edge = list[j].edge
      BY <3>1
    <3>3. list[j] \in Range(leaving(m, c.src))
      BY <2>4, <3>1, <3>2 DEF Range
    <3> QED
      BY <2>5, <2>6, <3>1, <3>2, <3>3 DEF IsListed
  <2> QED
    BY <2>8, <2>9
<1>4. GraphOf(m).connections = FlattenSeq(rows)
  BY DEF GraphOf
<1>5. rows = [n \in 1 .. N |-> rows[n]]
  BY <1>2
<1> HIDE DEF rows
<1>6. \A f : Symbolic!Range(f) = Range(f)
  BY DEF Symbolic!Range, Range
<1>7. Symbolic!FlattenSeq(rows) = FlattenSeq(rows)
  BY DEF Symbolic!FlattenSeq, FlattenSeq
<1>8. LET T == UNION {Symbolic!Range(rows[i]) : i \in 1 .. N}
      IN  Symbolic!FlattenSeq(rows) \in Seq(T) /\ Symbolic!Range(Symbolic!FlattenSeq(rows)) = T
  <2>1. \A i \in 1 .. N : rows[i] \in Seq(Symbolic!Range(rows[i]))
    BY <1>3, <1>6
  <2> HIDE DEF N
  <2> QED
    BY <1>2, <1>5, <2>1, Symbolic!Flattened
<1>9. LET T == UNION {Range(rows[i]) : i \in 1 .. N}
      IN  FlattenSeq(rows) \in Seq(T) /\ Range(FlattenSeq(rows)) = T
  BY <1>6, <1>7, <1>8
<1>10. GraphOf(m).connections \in Seq(Range(GraphOf(m).connections))
  BY <1>4, <1>9
<1>11. \A c \in Range(GraphOf(m).connections) : IsListed(m, c)
  BY <1>3, <1>4, <1>9
<1>12. GraphOf(m).init = m.m_init_states /\ GraphOf(m).size = size(m) /\ GraphOf(m).accepting = m.m_accepting_states
  BY DEF GraphOf
<1>13. size(m) \in Nat \ {0}
  BY <1>2 DEF IsRun, States
<1>14. ASSUME NEW n \in States(m), NEW x \in Range(leaving(m, n))
       PROVE  [src |-> n, dst |-> x.dst, edge |-> x.edge] \in Range(GraphOf(m).connections)
  <2>1. n + 1 \in 1 .. N /\ (n + 1) - 1 = n /\ leaving(m, n) = m.m_graph[n + 1]
    BY <1>2, <1>13 DEF States, leaving
  <2>2. PICK j \in DOMAIN m.m_graph[n + 1] : x = m.m_graph[n + 1][j]
    BY <2>1 DEF Range
  <2>3. /\ DOMAIN rows[n + 1] = DOMAIN m.m_graph[n + 1]
        /\ rows[n + 1][j] = [src |-> n, dst |-> x.dst, edge |-> x.edge]
    BY <1>2, <2>1, <2>2 DEF rows, Mapped
  <2>4. [src |-> n, dst |-> x.dst, edge |-> x.edge] \in Range(rows[n + 1])
    BY <2>2, <2>3 DEF Range
  <2> QED
    BY <1>4, <1>9, <2>1, <2>4
<1> QED
  BY <1>10, <1>11, <1>12, <1>13, <1>14

\* What the planners plan in, when the automata were read from files, and there
\* is one at least.
LEMMA ProductIsPlannable ==
    ASSUME IsWorld(ts), NEW n \in Nat \ {0}, DOMAIN dfas = 1 .. n, \A i \in 1 .. n : IsRun(dfas[i])
    PROVE  IsPlannable(SymbolicProductGraph)
<1> DEFINE p == SymbolicProductGraph
           q == Seen(p)
<1>1. p.automata = [i \in 1 .. n |-> GraphOf(dfas[i])] /\ p.model = ts.model
  BY DEF SymbolicProductGraph, Mapped
<1> HIDE DEF p
<1>2. /\ DOMAIN p.automata = 1 .. n /\ p.automata = [i \in 1 .. n |-> p.automata[i]]
      /\ \A i \in 1 .. n : p.automata[i] = GraphOf(dfas[i])
  BY <1>1
<1>3. q = [model |-> ts.model, observe |-> p.observe, automata |-> [a \in 1 .. n |-> WithoutStates(p.automata[a])]]
  BY <1>1, <1>2 DEF Seen
<1> HIDE DEF q
<1>4. /\ DOMAIN q = {"model", "observe", "automata"}
      /\ q.model = ts.model /\ q.automata = [a \in 1 .. n |-> q.automata[a]] /\ DOMAIN q.automata = 1 .. n
      /\ \A a \in 1 .. n : q.automata[a] = WithoutStates(GraphOf(dfas[a]))
  BY <1>2, <1>3
<1>5. q.automata \in Seq(Range(q.automata)) /\ q.automata # <<>>
  <2> DEFINE r == q.automata
  <2> HIDE DEF r
  <2>1. DOMAIN r = 1 .. n /\ r = [a \in 1 .. n |-> r[a]]
    BY <1>4 DEF r
  <2>2. r \in [1 .. n -> Range(r)]
    <3>1. \A a \in 1 .. n : r[a] \in Range(r)
      BY <2>1 DEF Range
    <3> QED
      BY <2>1, <3>1
  <2>3. r \in Seq(Range(r)) /\ 1 \in DOMAIN r
    BY <2>1, <2>2
  <2> QED
    BY <2>3 DEF r
<1>6. ASSUME NEW a \in 1 .. n
      PROVE  LET g == q.automata[a]
             IN  /\ g.size \in Nat \ {0} /\ g.connections \in Seq(Range(g.connections))
                 /\ \A c \in Range(g.connections) : {c.src, c.dst} \subseteq Node(g)
                 /\ g.init = <<dfas[a].m_init_states[1]>> /\ g.accepting = {dfas[a].m_init_states[1]}
                 /\ dfas[a].m_init_states[1] \in Node(g)
  <2> DEFINE g == q.automata[a]
             h == GraphOf(dfas[a])
  <2>1. /\ h.connections \in Seq(Range(h.connections))
        /\ \A c \in Range(h.connections) : IsListed(dfas[a], c)
        /\ h.size \in Nat \ {0}
        /\ h.init = dfas[a].m_init_states /\ h.size = size(dfas[a])
    BY GraphOfAutomaton
  <2>2. g = WithoutStates(h)
    BY <1>4
  <2> HIDE DEF g, h
  <2>3. g.size = h.size /\ g.connections = h.connections /\ g.init = <<h.init[1]>> /\ g.accepting = {h.init[1]}
    BY <2>2 DEF WithoutStates
  <2>4. \A x \in States(dfas[a]) : x \in Node(g)
    BY <2>1, <2>3 DEF States, Node
  <2>5. dfas[a].m_init_states[1] \in Node(g)
    BY <2>4 DEF IsRun
  <2>6. \A c \in Range(g.connections) : {c.src, c.dst} \subseteq Node(g)
    BY <2>1, <2>3, <2>4 DEF IsListed
  <2>7. /\ g.size \in Nat \ {0} /\ g.connections \in Seq(Range(g.connections))
        /\ \A c \in Range(g.connections) : {c.src, c.dst} \subseteq Node(g)
        /\ g.init = <<dfas[a].m_init_states[1]>> /\ g.accepting = {dfas[a].m_init_states[1]}
        /\ dfas[a].m_init_states[1] \in Node(g)
    BY <2>1, <2>3, <2>5, <2>6
  <2> QED
    BY <2>7 DEF g
<1>7. /\ DOMAIN graphs(q) = 1 .. n + 1 /\ graphs(q)[1] = q.model
      /\ \A k \in 1 .. n : graphs(q)[k + 1] = q.automata[k]
  BY <1>4, Symbolic!Prepended DEF graphs
<1>8. ASSUME NEW k \in 1 .. n + 1
      PROVE  LET g == graphs(q)[k]
             IN  /\ g.size \in Nat \ {0} /\ g.connections \in Seq(Range(g.connections))
                 /\ \A c \in Range(g.connections) : {c.src, c.dst} \subseteq Node(g)
  <2>1. CASE k = 1
    BY <1>4, <1>7, <2>1 DEF IsWorld
  <2>2. CASE k # 1
    <3>1. k - 1 \in 1 .. n /\ (k - 1) + 1 = k
      BY <2>2
    <3>2. graphs(q)[(k - 1) + 1] = q.automata[k - 1]
      BY <1>7, <3>1
    <3>3. graphs(q)[k] = q.automata[k - 1]
      BY <3>1, <3>2
    <3> QED
      BY <1>6, <3>1, <3>3
  <2> QED
    BY <2>1, <2>2
<1>9. Times(m_graph_sizes(q)) \in Nat \ {0}
  <2> DEFINE sizes == m_graph_sizes(q)
             N == n + 1
  <2>1. sizes = [k \in 1 .. N |-> graphs(q)[k].size]
    BY <1>7 DEF m_graph_sizes
  <2>2. N \in Nat /\ N \in 0 .. N
    OBVIOUS
  <2> HIDE DEF sizes, N
  <2>3. sizes \in [1 .. N -> Nat \ {0}]
    BY <1>8, <2>1 DEF N
  <2>4. sizes \in [1 .. N -> Nat]
    BY <2>3
  <2>5. Symbolic!temp(sizes, N + 1) \in Nat /\ Symbolic!temp(sizes, N + 1) > 0
    BY <2>2, <2>3, Symbolic!PositiveWeights
  <2>6. Symbolic!temp(sizes, N + 1) = Symbolic!Times(sizes)
    BY <2>2, <2>4, Symbolic!Weights
  <2>7. Symbolic!Times(sizes) = Times(sizes)
    BY DEF Symbolic!Times, Times, Symbolic!FoldLeft, FoldLeft, Symbolic!MapThenFoldSet, MapThenFoldSet, Symbolic!Max, Max
  <2>8. Times(sizes) \in Nat /\ Times(sizes) > 0
    BY <2>5, <2>6, <2>7
  <2> QED
    BY <2>8 DEF sizes
<1>10. ASSUME NEW a \in DOMAIN q.automata
       PROVE  /\ q.automata[a].init # <<>> /\ q.automata[a].init \in Seq(Range(q.automata[a].init))
              /\ Range(q.automata[a].init) \subseteq Node(q.automata[a])
              /\ q.automata[a].accepting # {} /\ q.automata[a].accepting \subseteq Node(q.automata[a])
  <2> DEFINE x == dfas[a].m_init_states[1]
  <2>1. q.automata[a].init = <<x>> /\ q.automata[a].accepting = {x} /\ x \in Node(q.automata[a])
    BY <1>4, <1>6, <1>10
  <2> HIDE DEF x
  <2>2. <<x>> \in Seq({x}) /\ Range(<<x>>) = {x} /\ <<x>> # <<>>
    BY DEF Range
  <2> QED
    BY <2>1, <2>2
<1>11. \A k \in DOMAIN graphs(q) :
          LET g == graphs(q)[k]
          IN  /\ g.size \in Nat \ {0}
              /\ g.connections \in Seq(Range(g.connections))
              /\ \A j \in DOMAIN g.connections : {g.connections[j].src, g.connections[j].dst} \subseteq Node(g)
  <2>1. ASSUME NEW k \in DOMAIN graphs(q), NEW j \in DOMAIN graphs(q)[k].connections
        PROVE  graphs(q)[k].connections[j] \in Range(graphs(q)[k].connections)
    BY <2>1 DEF Range
  <2> QED
    BY <1>7, <1>8, <2>1
<1>12. IsProduct(q)
  BY <1>4, <1>5, <1>9, <1>10, <1>11 DEF IsProduct
<1> QED
  BY <1>2, <1>12 DEF IsPlannable, p, q

-----------------------------------------------------------------------------
\* What was read so far can be planned in: the automata that are kept are runs,
\* the one that is read leads to its own nodes, and has the states of its file.
AllRead(list) == \E S : list \in Seq(S) /\ \A m \in S : IsRun(m)

LInv ==
    /\ loading \in {"idle", "connecting", "substituting", "loaded", "refused"}
    /\ IsWorld(ts)
    /\ AllRead(dfas)
    /\ StaysInside(automaton)
    /\ \A i \in DOMAIN edges : edges[i].dst \in States(automaton)
    /\ automaton.m_init_states = data.init
    /\ loading # "idle" => IsDFA(data)

\* A connection of a closed automaton leads to its nodes.
LEMMA LeavingIsClosed ==
    ASSUME NEW m, IsAutomaton(m), StaysInside(m), NEW n \in Nat
    PROVE  \A i \in DOMAIN leaving(m, n) : leaving(m, n)[i].dst \in States(m)
<1>1. PICK S : m.m_graph \in Seq(Seq(S))
  BY DEF IsAutomaton, IsGraph
<1>2. CASE n < size(m)
  <2>1. n + 1 \in DOMAIN m.m_graph /\ leaving(m, n) = m.m_graph[n + 1]
    BY <1>1, <1>2 DEF leaving, size
  <2> QED
    BY <2>1 DEF StaysInside
<1>3. CASE ~ (n < size(m))
  BY <1>3 DEF leaving
<1> QED
  BY <1>2, <1>3

\* connect() makes the nodes it connects.
LEMMA ReadsKeepsClosed ==
    ASSUME NEW m, IsAutomaton(m), StaysInside(m), NEW src \in Nat, NEW dst \in Nat, NEW edge
    PROVE  LET r == Reads(m, src, dst, edge)
           IN  /\ StaysInside(r) /\ States(m) \subseteq States(r)
               /\ r.m_init_states = m.m_init_states
<1> DEFINE grown == [m EXCEPT !.m_alphabet = @ \cup {edge.observation}]
           entry == [dst |-> dst, edge |-> edge]
           g == Extended(m, src, dst, edge)
           r == Reads(m, src, dst, edge)
<1>1. /\ grown.m_graph = m.m_graph /\ grown.m_init_states = m.m_init_states
      /\ IsAutomaton(grown)
  BY AlphabetGrows DEF IsAutomaton
<1>2. r = IF IsRead(grown, src, edge.observation) THEN grown
          ELSE [grown EXCEPT !.m_graph = Extended(grown, src, dst, edge)]
  BY DEF Reads, connect
<1>3. Extended(grown, src, dst, edge) = g
  BY <1>1 DEF Extended, size, leaving
<1>4. entry.dst = dst
  OBVIOUS
<1> HIDE DEF grown, g, r, entry
<1>5. CASE IsRead(grown, src, edge.observation)
  <2>1. r = grown
    BY <1>2, <1>5
  <2> QED
    BY <1>1, <2>1 DEF StaysInside, States, size, r
<1>6. CASE ~ IsRead(grown, src, edge.observation)
  <2>1. r.m_graph = g /\ r.m_init_states = m.m_init_states
    <3>1. r = [grown EXCEPT !.m_graph = g]
      BY <1>2, <1>3, <1>6
    <3> QED
      BY <1>1, <3>1 DEF IsAutomaton
  <2>2. PICK S : m.m_graph \in Seq(Seq(S))
    BY DEF IsAutomaton, IsGraph
  <2>3. ExtendedBy(g, m, S, src, entry)
    BY <2>2, ExtendedGraph DEF g, entry
  <2>4. /\ size(m) \in Nat /\ size(r) \in Nat /\ size(m) <= size(r) /\ dst < size(r)
        /\ DOMAIN r.m_graph = 1 .. size(r)
    <3>1. Len(g) = Larger(size(m), Larger(src, dst) + 1) /\ size(m) \in Nat
      BY <2>2, <2>3 DEF g, Extended, Larger, size, ExtendedBy
    <3>2. g \in Seq(Seq(S \cup {entry}))
      BY <2>3 DEF ExtendedBy
    <3> QED
      BY <2>1, <3>1, <3>2 DEF size, Larger
  <2>5. States(m) \subseteq States(r) /\ dst \in States(r)
    BY <2>4 DEF States
  <2>6. ASSUME NEW n \in DOMAIN r.m_graph, NEW j \in DOMAIN r.m_graph[n]
        PROVE  r.m_graph[n][j].dst \in States(r)
    <3> DEFINE old == leaving(m, n - 1)
    <3>1. /\ n - 1 \in Nat /\ old \in Seq(S)
          /\ n # src + 1 => g[n] = old
          /\ n = src + 1 => g[n] = Append(old, entry)
      BY <2>1, <2>3, <2>4 DEF ExtendedBy
    <3>2. \A i \in DOMAIN old : old[i].dst \in States(m)
      BY <3>1, LeavingIsClosed
    <3> HIDE DEF old
    <3>3. CASE n # src + 1
      BY <2>1, <2>5, <3>1, <3>2, <3>3
    <3>4. CASE n = src + 1
      <4>1. g[n] = Append(old, entry) /\ j \in DOMAIN g[n]
        BY <2>1, <3>1, <3>4
      <4>2. CASE j \in DOMAIN old
        <5>1. g[n][j] = old[j]
          BY <3>1, <4>1, <4>2
        <5> QED
          BY <2>1, <2>5, <3>2, <4>2, <5>1
      <4>3. CASE j \notin DOMAIN old
        <5>1. g[n][j] = entry
          BY <3>1, <4>1, <4>3
        <5> QED
          BY <1>4, <2>1, <2>5, <5>1
      <4> QED
        BY <4>2, <4>3
    <3> QED
      BY <3>3, <3>4
  <2> QED
    BY <2>1, <2>5, <2>6 DEF StaysInside, r
<1> QED
  BY <1>5, <1>6

\* An automaton that was read is one that can be planned in: the row that brings
\* about its initial state was read, and nothing else was read in its place.
LEMMA LoadedIsRun ==
    ASSUME IInv, SInv, LInv, loading = "loaded"
    PROVE  IsRun(automaton)
<1> DEFINE m == automaton
           rows == data.connections
           Row == [src : Nat, dst : Nat, label : Letters]
           start == data.init[1]
<1>1. /\ IsAutomaton(m) /\ StaysInside(m) /\ m.m_init_states = data.init
      /\ IsDFA(data) /\ Loaded /\ rows \in Seq(Row)
  BY DEF IInv, SInv, LInv
<1>2. PICK k \in DOMAIN rows :
          /\ start <= rows[k].src \/ start <= rows[k].dst
          /\ \A j \in 1 .. k - 1 : rows[j].src = rows[k].src => rows[j].label # rows[k].label
  BY <1>1 DEF IsDFA
<1>3. data.init # <<>> /\ start \in Nat
  BY <1>1 DEF IsDFA
<1>4. /\ k \in Nat /\ DOMAIN rows \subseteq Nat /\ k \in 1 .. Len(rows)
      /\ \A j \in DOMAIN rows : rows[j].src \in Nat /\ rows[j].dst \in Nat
  <2>1. \A x \in Row : x.src \in Nat /\ x.dst \in Nat
    OBVIOUS
  <2> HIDE DEF rows, Row
  <2>2. \A j \in DOMAIN rows : rows[j] \in Row
    BY <1>1
  <2>3. DOMAIN rows = 1 .. Len(rows) /\ Len(rows) \in Nat
    BY <1>1
  <2> QED
    BY <2>1, <2>2, <2>3
<1> DEFINE src == rows[k].src
           letter == rows[k].label
<1>5. k \in RowsOf(src)
  BY DEF RowsOf
<1>6. IsRead(m, src, letter)
  BY <1>1, <1>4 DEF Loaded, RowsRead
<1>7. PICK x \in Listed(m, src) : x.edge.observation = letter
  BY <1>6, ReadIsListed
<1>8. IsOriginal(src, x) \/ IsSubstitute(src, x)
  BY <1>1, <1>4 DEF Loaded, AllOfTheFile
<1>9. ~ IsSubstitute(src, x)
  <2> SUFFICES ASSUME IsSubstitute(src, x) PROVE FALSE
    OBVIOUS
  <2>1. PICK i \in RowsOf(src), s \in DOMAIN sub_data.from :
           /\ x = [dst |-> data.connections[i].dst,
                   edge |-> PartialSatisfactionEdge(sub_data.to[s], sub_data.costs[s])]
           /\ \A j \in RowsOf(src) : data.connections[j].label # sub_data.to[s]
    BY Zenon DEF IsSubstitute
  <2>2. x.edge.observation = sub_data.to[s]
    BY <2>1 DEF PartialSatisfactionEdge
  <2> QED
    BY <1>5, <1>7, <2>1, <2>2
<1>10. PICK i \in RowsOf(src) :
           /\ IsFirst(i)
           /\ x = [dst |-> data.connections[i].dst,
                   edge |-> PartialSatisfactionEdge(data.connections[i].label, 0)]
  BY <1>8, <1>9 DEF IsOriginal
<1>11. x.dst = rows[i].dst /\ rows[i].label = letter
  BY <1>7, <1>10 DEF PartialSatisfactionEdge
<1>12. i = k
  <2>1. i \in DOMAIN rows /\ rows[i].src = src /\ i \in Nat /\ i >= 1
    <3>1. i \in DOMAIN rows /\ rows[i].src = src
      BY DEF RowsOf
    <3> HIDE DEF src, letter, rows
    <3> QED
      BY <1>1, <3>1
  <2>2. ~ (k < i)
    BY <1>5, <1>10, <1>11, <2>1 DEF IsFirst
  <2>3. ~ (i \in 1 .. k - 1)
    BY <1>2, <1>11, <2>1
  <2> HIDE DEF rows, src, letter
  <2> QED
    BY <1>4, <2>1, <2>2, <2>3
<1>13. size(m) \in Nat /\ src < size(m) /\ x.dst \in States(m)
  <2>1. PICK S : m.m_graph \in Seq(Seq(S))
    BY <1>1 DEF IsAutomaton, IsGraph
  <2>2. size(m) \in Nat
    BY <2>1 DEF size
  <2>3. PICK j \in DOMAIN leaving(m, src) : x = leaving(m, src)[j]
    BY <1>7 DEF Listed
  <2>4. src < size(m)
    BY <2>3 DEF leaving
  <2>5. x.dst \in States(m)
    BY <1>1, <1>4, <2>3, LeavingIsClosed
  <2> QED
    BY <2>2, <2>4, <2>5
<1>14. start \in States(m)
  <2>1. start \in Nat /\ src \in Nat /\ rows[k].dst \in Nat /\ rows[k].dst \in States(m)
        /\ (start <= src \/ start <= rows[k].dst)
    BY <1>2, <1>3, <1>4, <1>11, <1>12, <1>13
  <2> HIDE DEF start, src, rows
  <2> QED
    BY <1>13, <2>1 DEF States
<1> QED
  BY <1>1, <1>3, <1>14 DEF IsRun

LEMMA LoadKeepsLInv ==
    ASSUME IInv, LInv, LoadDFA
    PROVE  LInv'
<1>1. UNCHANGED <<ts, dfas, data>>
  BY DEF LoadDFA, Load, Connect, BeginSubstitution, Substitute, NextNode, main_vars
<1>2. /\ IsWorld(ts)' /\ AllRead(dfas)'
      /\ IsDFA(data) => IsDFA(data)'
  BY <1>1 DEF LInv, IsWorld, Node, AllRead, IsDFA
<1>3. IsAutomaton(automaton) /\ StaysInside(automaton) /\ automaton.m_init_states = data.init
      /\ \A i \in DOMAIN edges : edges[i].dst \in States(automaton)
  BY DEF IInv, LInv
<1>4. ASSUME NEW src \in Nat, NEW dst \in Nat, NEW edge, automaton' = Reads(automaton, src, dst, edge)
      PROVE  /\ StaysInside(automaton') /\ States(automaton) \subseteq States(automaton')
             /\ automaton'.m_init_states = data.init
  BY <1>3, <1>4, ReadsKeepsClosed
<1>5. CASE Connect
  <2> DEFINE c == data.connections[row + 1]
  <2>1. c.src \in Nat /\ c.dst \in Nat
    <3> DEFINE Row == [src : Nat, dst : Nat, label : Letters]
               rows == data.connections
    <3>1. rows \in Seq(Row) /\ row \in Nat /\ row < Len(rows)
      BY <1>5 DEF Connect, IInv
    <3>2. \A x \in Row : x.src \in Nat /\ x.dst \in Nat
      OBVIOUS
    <3> HIDE DEF Row, rows
    <3>3. rows[row + 1] \in Row
      BY <3>1
    <3> QED
      BY <3>2, <3>3 DEF rows
  <2>2. automaton' = Reads(automaton, c.src, c.dst, PartialSatisfactionEdge(c.label, 0))
        /\ loading' = loading /\ loading = "connecting" /\ edges' = edges
    BY <1>5 DEF Connect
  <2> HIDE DEF c
  <2>3. /\ StaysInside(automaton') /\ States(automaton) \subseteq States(automaton')
        /\ automaton'.m_init_states = data.init
    BY <1>4, <2>1, <2>2
  <2>4. \A i \in DOMAIN edges' : edges'[i].dst \in States(automaton')
    BY <1>3, <2>2, <2>3
  <2> QED
    BY <1>1, <1>2, <2>2, <2>3, <2>4 DEF LInv, StaysInside, States, size
<1>6. CASE BeginSubstitution
  <2>1. /\ automaton' = automaton /\ loading = "connecting"
        /\ loading' \in {"substituting", "refused"}
        /\ edges' = edges \/ edges' = leaving(automaton, 0)
    BY <1>6 DEF BeginSubstitution
  <2>2. \A i \in DOMAIN edges' : edges'[i].dst \in States(automaton)
    BY <1>3, <2>1, LeavingIsClosed
  <2> QED
    BY <1>1, <1>2, <1>3, <2>1, <2>2 DEF LInv, StaysInside, States, size
<1>7. CASE Substitute
  <2> DEFINE c == edges[substituted + 1]
             substitutes == sub_map(sub_data)
  <2>1. c.dst \in Nat /\ src_node \in Nat
    BY <1>7 DEF Substitute, CopiedEdges, IsList, IInv
  <2>2. \/ automaton' = automaton
        \/ automaton' = Reads(automaton, src_node, c.dst, substitutes[c.edge.observation])
    BY <1>7 DEF Substitute, CopiedEdges
  <2>3. loading' = loading /\ loading = "substituting" /\ edges' = edges
    BY <1>7 DEF Substitute
  <2> HIDE DEF c, substitutes
  <2>4. /\ StaysInside(automaton') /\ States(automaton) \subseteq States(automaton')
        /\ automaton'.m_init_states = data.init
    BY <1>3, <1>4, <2>1, <2>2
  <2>5. \A i \in DOMAIN edges' : edges'[i].dst \in States(automaton')
    BY <1>3, <2>3, <2>4
  <2> QED
    BY <1>1, <1>2, <2>3, <2>4, <2>5 DEF LInv, StaysInside, States, size
<1>8. CASE NextNode
  <2>1. /\ automaton' = automaton /\ loading = "substituting"
        /\ loading' \in {"substituting", "loaded"}
        /\ edges' = leaving(automaton, src_node + 1) /\ src_node + 1 \in Nat
    BY <1>8 DEF NextNode, IInv
  <2>2. \A i \in DOMAIN edges' : edges'[i].dst \in States(automaton)
    BY <1>3, <2>1, LeavingIsClosed
  <2> QED
    BY <1>1, <1>2, <1>3, <2>1, <2>2 DEF LInv, StaysInside, States, size
<1> QED
  BY <1>5, <1>6, <1>7, <1>8 DEF LoadDFA, Load

LEMMA InitLInv == Init => LInv
<1> SUFFICES ASSUME Init PROVE LInv
  OBVIOUS
<1>1. IsWorld(ts)
  BY PlannableAssumption DEF Init
<1>2. AllRead(dfas)
  <2>1. dfas \in Seq({}) /\ \A m \in {} : IsRun(m)
    BY DEF Init
  <2> QED
    BY <2>1 DEF AllRead
<1>3. automaton.m_graph = <<>> /\ automaton.m_init_states = <<>> /\ data.init = <<>>
      /\ edges = <<>> /\ loading = "idle"
  BY DEF Init, LoaderInit, NewAutomaton, NoData
<1> QED
  BY <1>1, <1>2, <1>3 DEF LInv, StaysInside

\* What reads nothing, keeps what was read.
LEMMA NothingRead ==
    ASSUME LInv, UNCHANGED <<loader_vars, dfas>>, IsWorld(ts')
    PROVE  LInv'
<1>1. IsWorld(ts)'
  BY DEF IsWorld, Node
<1> QED
  BY <1>1 DEF LInv, loader_vars, AllRead, StaysInside, States, size, IsDFA

LEMMA NextKeepsLInv == IInv /\ SInv /\ LInv /\ [Next]_vars => LInv'
<1> SUFFICES ASSUME IInv, SInv, LInv, [Next]_vars PROVE LInv'
  OBVIOUS
<1>1. CASE LoadDFA
  BY <1>1, LoadKeepsLInv
<1>2. CASE OpenDFA
  <2>1. CASE UNCHANGED loader_vars
    BY <1>2, <2>1, NothingRead DEF OpenDFA, LInv
  <2>2. ASSUME NEW sub, Open(task.disk.dfas[dfa_filepath], sub), dfa_filepath \in DOMAIN task.disk.dfas
        PROVE  LInv'
    <3> DEFINE f == task.disk.dfas[dfa_filepath]
    <3>1. IsDFA(f)
      BY <2>2, PlannableAssumption DEF IInv
    <3>2. data' = f /\ automaton' = NewAutomaton(f) /\ edges' = <<>> /\ loading' = "connecting"
      BY <2>2 DEF Open
    <3> HIDE DEF f
    <3>3. automaton'.m_graph = <<>> /\ automaton'.m_init_states = f.init
      BY <3>2 DEF NewAutomaton
    <3>4. ts' = ts /\ dfas' = dfas
      BY <1>2 DEF OpenDFA
    <3>5. IsWorld(ts)' /\ AllRead(dfas)' /\ IsDFA(data)'
      BY <3>1, <3>2, <3>4 DEF LInv, IsWorld, Node, AllRead, IsDFA
    <3> QED
      BY <3>2, <3>3, <3>5 DEF LInv, StaysInside
  <2> QED BY <1>2, <2>1, <2>2 DEF OpenDFA
<1>3. CASE KeepDFA
  <2>1. /\ dfas' = Append(dfas, automaton) /\ loading' = "idle" /\ loading = "loaded"
        /\ UNCHANGED <<automaton, data, edges, ts>>
    BY <1>3 DEF KeepDFA
  <2>2. IsRun(automaton)
    BY <2>1, LoadedIsRun
  <2>3. PICK S : dfas \in Seq(S) /\ \A m \in S : IsRun(m)
    BY DEF LInv, AllRead
  <2>4. dfas' \in Seq(S \cup {automaton})
    <3>1. dfas \in Seq(S \cup {automaton})
      BY <2>3
    <3> QED
      BY <2>1, <3>1
  <2>5. \A m \in S \cup {automaton} : IsRun(m)
    BY <2>2, <2>3
  <2>6. AllRead(dfas')
    BY <2>4, <2>5 DEF AllRead
  <2>7. IsWorld(ts)' /\ AllRead(dfas)'
    BY <2>1, <2>6 DEF LInv, IsWorld, Node, AllRead
  <2> QED
    BY <2>1, <2>7 DEF LInv, StaysInside, States, size
<1>4. CASE Generate
  <2>1. UNCHANGED <<loader_vars, dfas>>
    BY <1>4 DEF Generate
  <2>2. IsWorld(ts')
    <3>1. ts' = ts \/ (get("config-filepath") \in DOMAIN task.disk.configs
                        /\ ts' = task.disk.configs[get("config-filepath")])
      BY <1>4 DEF Generate
    <3> DEFINE name == get("config-filepath")
    <3> HIDE DEF name
    <3> QED
      BY <3>1, PlannableAssumption DEF LInv, IInv, name
  <2> QED
    BY <2>1, <2>2, NothingRead
<1>5. CASE UNCHANGED <<loader_vars, dfas, ts>>
  BY <1>5, NothingRead DEF LInv
<1>6. ParseCommandLine \/ RefuseDFA \/ BeginPlan \/ EndPlan => UNCHANGED <<loader_vars, dfas, ts>>
  BY DEF ParseCommandLine, RefuseDFA, BeginPlan, EndPlan
<1>7. Search => UNCHANGED <<loader_vars, dfas, ts>>
  BY DEF Search
<1>8. WritePlan \/ Finish \/ Terminated \/ UNCHANGED vars => UNCHANGED <<loader_vars, dfas, ts>>
  BY DEF WritePlan, Finish, Terminated, vars, main_vars
<1> QED BY <1>1, <1>2, <1>3, <1>4, <1>5, <1>6, <1>7, <1>8 DEF Next

\* What can be planned in, at any time.
LEMMA ReadIsKept == Spec => [](IInv /\ SInv /\ LInv)
<1>1. Init => IInv /\ SInv /\ LInv
  BY InitIInv, InitSInv, InitLInv
<1>2. (IInv /\ SInv /\ LInv) /\ [Next]_vars => (IInv /\ SInv /\ LInv)'
  BY NextKeepsIInv, NextKeepsSInv, NextKeepsLInv
<1> QED
  BY <1>1, <1>2, PTL DEF Spec

-----------------------------------------------------------------------------
(***************************************************************************)
(* Four definitions are folds: what the command line was parsed to, the    *)
(* ways the automata can read a cell together, the runs along a plan, and  *)
(* those of up to so many moves.  A fold's values on the prefixes say what *)
(* it is.                                                                  *)
(***************************************************************************)
\* A parse() after those that were done.
ParsedOn(so_far, option) ==
    IF so_far.outcome # "parsed" THEN so_far
    ELSE LET next == _parse(so_far.parser, option)
         IN  [parser |-> next.parser, outcome |-> next.outcome,
              answers |-> Append(so_far.answers, next.argument)]

\* How one automaton can read a cell.
Ways(states, cell, i) ==
    {x \in Range(leaving(dfas[i], states[i])) : <<cell, x.edge.observation>> \in ts.observed}

\* What a run becomes with the k-th step of a plan.
MovedAlong(run, plan, k) ==
    UNION {{Moved(run, c, reading) : reading \in Readings(run.states, c.dst)} :
           c \in {x \in MovesOf(run) : /\ x.dst = plan.state_sequence[k + 1]
                                       /\ x.edge.action = plan.action_sequence[k]}}

\* What is chosen so far, one automaton on; and runs, one step on.
ChosenOn(states, cell, chosen, i) == UNION {{Append(w, x) : x \in Ways(states, cell, i)} : w \in chosen}

AllMoved(plan, runs, k) == UNION {MovedAlong(run, plan, k) : run \in runs}

\* Runs, one move on, unless they satisfy the tasks.
Longer(runs) ==
    UNION {UNION {{Moved(run, c, reading) : reading \in Readings(run.states, c.dst)} :
                  c \in MovesOf(run)} : run \in {x \in runs : ~ Satisfied(x)}}

\* What each fold starts with, and one step of it.
FoldBase(fold, S) ==
    IF fold = "parsed" THEN [parser |-> NewParser(S), outcome |-> "parsed", answers |-> <<>>]
    ELSE IF fold = "readings" THEN {<<>>} ELSE {Start}

FoldStep(fold, S, value, x) ==
    IF fold = "parsed" THEN ParsedOn(value, x)
    ELSE IF fold = "readings" THEN ChosenOn(S.states, S.cell, value, x)
    ELSE IF fold = "runs" THEN AllMoved(S, value, x)
    ELSE value \cup Longer(value)

\* The recursion of a fold over the first n elements of s.
FoldsTo(fold, S, s, n, g) ==
    g = [T \in SUBSET (1 .. n) |->
            IF T = {} THEN FoldBase(fold, S)
                      ELSE FoldStep(fold, S, g[T \ {Max(T)}], s[Max(T)])]

\* A nonempty set of numbers up to n has a greatest.
LEMMA GreatestNumber ==
    ASSUME NEW n \in Nat, NEW T \in SUBSET (1 .. n), T # {}
    PROVE  Max(T) \in T /\ \A y \in T : Max(T) >= y
<1> DEFINE U == {n - x : x \in T}
<1>1. U \in SUBSET Nat /\ U # {}
  <2>1. \A x \in T : n - x \in Nat
    OBVIOUS
  <2> QED
    BY <2>1
<1>2. PICK u \in U : \A y \in U : u <= y
  <2> HIDE DEF U
  <2> QED
    BY <1>1, LeastNumber
<1>3. PICK x \in T : u = n - x
  BY <1>2
<1>4. \A y \in T : x >= y
  <2> SUFFICES ASSUME NEW y \in T PROVE x >= y
    OBVIOUS
  <2>1. n - x <= n - y
    BY <1>2, <1>3
  <2>2. x \in Int /\ y \in Int
    OBVIOUS
  <2> HIDE DEF U
  <2> QED
    BY <2>1, <2>2
<1> QED
  BY <1>4 DEF Max

\* The recursion has a solution.
LEMMA FoldIsSolved ==
    ASSUME NEW fold, NEW S, NEW s, NEW n \in Nat
    PROVE  \E g : FoldsTo(fold, S, s, n, g)
<1> DEFINE Fold(g, T) == IF T = {} THEN FoldBase(fold, S)
                                   ELSE FoldStep(fold, S, g[T \ {Max(T)}], s[Max(T)])
           Solved(l) == \E g : g = [T \in SUBSET (1 .. l) |-> Fold(g, T)]
           Missed == {l \in Nat : ~ Solved(l)}
<1>1. Solved(0)
  <2> DEFINE g == [T \in SUBSET (1 .. 0) |-> FoldBase(fold, S)]
  <2>1. \A T \in SUBSET (1 .. 0) : T = {}
    OBVIOUS
  <2>2. g = [T \in SUBSET (1 .. 0) |-> Fold(g, T)]
    BY <2>1
  <2> QED
    BY <2>2
<1>2. ASSUME NEW l \in Nat, Solved(l) PROVE Solved(l + 1)
  <2>1. PICK g : g = [T \in SUBSET (1 .. l) |-> Fold(g, T)]
    BY <1>2
  <2> DEFINE h == [T \in SUBSET (1 .. l + 1) |->
                      IF l + 1 \in T THEN FoldStep(fold, S, g[T \ {l + 1}], s[l + 1])
                                        ELSE g[T]]
  <2>2. ASSUME NEW T \in SUBSET (1 .. l + 1) PROVE h[T] = Fold(h, T)
    <3>1. CASE l + 1 \in T
      <4>1. Max(T) = l + 1
        <5>1. l + 1 \in Nat /\ T # {}
          BY <3>1
        <5>2. Max(T) \in T /\ \A y \in T : Max(T) >= y
          BY <5>1, GreatestNumber
        <5>3. Max(T) \in 1 .. l + 1 /\ Max(T) >= l + 1
          BY <3>1, <5>2
        <5> QED
          BY <5>3
      <4>2. T \ {l + 1} \in SUBSET (1 .. l + 1) /\ l + 1 \notin T \ {l + 1}
        OBVIOUS
      <4>3. h[T \ {l + 1}] = g[T \ {l + 1}]
        BY <4>2
      <4>4. h[T] = FoldStep(fold, S, g[T \ {l + 1}], s[l + 1])
        BY <3>1
      <4> QED
        BY <3>1, <4>1, <4>3, <4>4
    <3>2. CASE l + 1 \notin T
      <4>1. T \in SUBSET (1 .. l)
        BY <3>2
      <4>2. h[T] = g[T] /\ g[T] = Fold(g, T)
        BY <2>1, <3>2, <4>1
      <4>3. CASE T = {}
        BY <4>2, <4>3
      <4>4. CASE T # {}
        <5>1. T \ {Max(T)} \in SUBSET (1 .. l + 1) /\ l + 1 \notin T \ {Max(T)}
          BY <3>2
        <5>2. h[T \ {Max(T)}] = g[T \ {Max(T)}]
          BY <5>1
        <5> QED
          BY <4>2, <4>4, <5>2
      <4> QED
        BY <4>3, <4>4
    <3> QED
      BY <3>1, <3>2
  <2>3. h = [T \in SUBSET (1 .. l + 1) |-> Fold(h, T)]
    <3> HIDE DEF Fold
    <3> QED
      BY <2>2
  <2> QED
    BY <2>3
<1>3. Missed = {}
  <2> SUFFICES ASSUME Missed # {} PROVE FALSE
    OBVIOUS
  <2>1. PICK l \in Missed : \A k \in Missed : l <= k
    <3>1. Missed \in SUBSET Nat
      OBVIOUS
    <3> HIDE DEF Missed
    <3> QED
      BY <3>1, LeastNumber
  <2>2. l \in Nat /\ ~ Solved(l)
    BY <2>1
  <2> HIDE DEF Solved
  <2>3. l # 0
    BY <1>1, <2>2
  <2>4. l - 1 \in Nat /\ (l - 1) + 1 = l /\ ~ (l <= l - 1)
    BY <2>2, <2>3
  <2>5. l - 1 \notin Missed
    BY <2>1, <2>4
  <2>6. Solved(l - 1)
    BY <2>4, <2>5
  <2>7. Solved((l - 1) + 1)
    BY <1>2, <2>4, <2>6
  <2> QED
    BY <2>2, <2>4, <2>7
<1>4. Solved(n)
  BY <1>3
<1> QED
  BY <1>4 DEF FoldsTo

\* The values of a fold on the prefixes of a list.
FoldsStepwise(fold, S, s, n, h) ==
    /\ h[1 .. 0] = FoldBase(fold, S)
    /\ \A k \in 1 .. n : h[1 .. k] = FoldStep(fold, S, h[1 .. k - 1], s[k])

LEMMA PrefixValues ==
    ASSUME NEW fold, NEW S, NEW s, NEW n \in Nat, NEW h, FoldsTo(fold, S, s, n, h)
    PROVE  FoldsStepwise(fold, S, s, n, h)
<1>1. h[1 .. 0] = FoldBase(fold, S)
  <2>1. 1 .. 0 = {} /\ {} \in SUBSET (1 .. n)
    OBVIOUS
  <2>2. h[{}] = FoldBase(fold, S)
    BY <2>1 DEF FoldsTo
  <2> QED
    BY <2>1, <2>2
<1>2. ASSUME NEW k \in 1 .. n PROVE h[1 .. k] = FoldStep(fold, S, h[1 .. k - 1], s[k])
  <2>1. /\ 1 .. k \in SUBSET (1 .. n) /\ 1 .. k # {} /\ k \in Nat
        /\ (1 .. k) \ {k} = 1 .. k - 1
    <3>1. k \in Nat /\ k \in 1 .. k
      OBVIOUS
    <3>2. (1 .. k) \ {k} = 1 .. k - 1
      OBVIOUS
    <3>3. 1 .. k \in SUBSET (1 .. n)
      OBVIOUS
    <3> QED
      BY <3>1, <3>2, <3>3
  <2>2. Max(1 .. k) = k
    <3>1. 1 .. k \in SUBSET (1 .. k)
      OBVIOUS
    <3>2. Max(1 .. k) \in 1 .. k /\ \A y \in 1 .. k : Max(1 .. k) >= y
      BY <2>1, <3>1, GreatestNumber
    <3>3. Max(1 .. k) >= k /\ Max(1 .. k) <= k /\ Max(1 .. k) \in Nat
      BY <2>1, <3>2
    <3> QED
      BY <2>1, <3>3
  <2> QED
    BY <2>1, <2>2 DEF FoldsTo
<1> QED
  BY <1>1, <1>2 DEF FoldsStepwise

-----------------------------------------------------------------------------
(***************************************************************************)
(* What the command line was parsed to.                                    *)
(***************************************************************************)
Outcomes == {"parsed", "exit 1", "abort"}

\* What taking and parsing an option leave of a parser.
IsParser(p) == DOMAIN p = {"argv", "m_checked", "m_help", "m_unique_keys", "m_unique_flags"}

\* Three lists after one another.
LEMMA Concatenated ==
    ASSUME NEW S, NEW A \in Seq(S), NEW M \in Seq(S), NEW B \in Seq(S)
    PROVE  /\ DOMAIN (A \o M \o B) = 1 .. Len(A) + Len(M) + Len(B)
           /\ \A i \in 1 .. Len(A) : (A \o M \o B)[i] = A[i]
           /\ \A i \in 1 .. Len(M) : (A \o M \o B)[Len(A) + i] = M[i]
           /\ \A i \in 1 .. Len(B) : (A \o M \o B)[Len(A) + Len(M) + i] = B[i]
OBVIOUS

\* The option "n-dfas" is the last but one.
LEMMA NDfasIsListed ==
    ASSUME NEW program
    PROVE  \E n \in Nat : \E k \in 1 .. n :
              /\ DOMAIN Options(program) = 1 .. n
              /\ Options(program)[k] = Option("n-dfas", "n", "uint32_t", << 1 >>)
              /\ \A i \in 1 .. n : Options(program)[i].key = "n-dfas" => i = k
<1> DEFINE a1 == Option("", "v", "void", <<>>)
           a2 == Option("dfa-directory", "d", "string", <<"./dfas">>)
           a3 == Option("dfa-file-template", "", "string", <<"dfa_#.yaml">>)
           m1 == Option("sub-map-file-template", "", "string", <<"sub_map_#.yaml">>)
           b1 == Option("config-filepath", "c", "string", <<>>)
           b2 == Option("plan-directory", "w", "string", <<>>)
           b3 == Option("plan-file-template", "", "string", <<"plan_#.yaml">>)
           b4 == Option("n-dfas", "n", "uint32_t", << 1 >>)
           b5 == Option("pareto-front-filepath", "", "string", <<>>)
           A == <<a1, a2, a3>>
           M == IF program = "PartialSatisfaction" THEN <<m1>> ELSE <<>>
           B == <<b1, b2, b3, b4, b5>>
           S == {a1, a2, a3, m1, b1, b2, b3, b4, b5}
           o == Options(program)
<1>1. o = A \o M \o B
  BY DEF Options
<1>2. /\ a1.key # "n-dfas" /\ a2.key # "n-dfas" /\ a3.key # "n-dfas" /\ m1.key # "n-dfas"
      /\ b1.key # "n-dfas" /\ b2.key # "n-dfas" /\ b3.key # "n-dfas" /\ b5.key # "n-dfas"
  BY DEF Option
<1>3. b4 = Option("n-dfas", "n", "uint32_t", << 1 >>)
  OBVIOUS
<1> HIDE DEF a1, a2, a3, m1, b1, b2, b3, b4, b5, o
<1>4. A \in Seq(S) /\ B \in Seq(S) /\ M \in Seq(S)
  OBVIOUS
<1>5. Len(A) = 3 /\ Len(B) = 5 /\ B[4] = b4 /\ Len(M) \in {0, 1}
  OBVIOUS
<1>6. /\ \A i \in 1 .. 3 : A[i].key # "n-dfas"
      /\ \A i \in 1 .. 5 : i # 4 => B[i].key # "n-dfas"
      /\ \A i \in 1 .. Len(M) : M[i].key # "n-dfas"
  <2>1. \A i \in 1 .. 3 : i \in {1, 2, 3}
    OBVIOUS
  <2>2. \A i \in 1 .. 5 : i \in {1, 2, 3, 4, 5}
    OBVIOUS
  <2>3. \A i \in 1 .. 3 : A[i] \in {a1, a2, a3}
    BY <2>1
  <2>4. \A i \in 1 .. 5 : i # 4 => B[i] \in {b1, b2, b3, b5}
    BY <2>2
  <2>5. \A i \in 1 .. Len(M) : M[i] = m1
    OBVIOUS
  <2> HIDE DEF A, B, M
  <2> QED
    BY <1>2, <2>3, <2>4, <2>5
<1> DEFINE m == Len(M)
<1> HIDE DEF A, B, M, S
<1>7. /\ DOMAIN o = 1 .. 8 + m
      /\ \A i \in 1 .. 3 : o[i] = A[i]
      /\ \A i \in 1 .. m : o[3 + i] = M[i]
      /\ \A i \in 1 .. 5 : o[3 + m + i] = B[i]
  <2>1. /\ DOMAIN (A \o M \o B) = 1 .. Len(A) + Len(M) + Len(B)
        /\ \A i \in 1 .. Len(A) : (A \o M \o B)[i] = A[i]
        /\ \A i \in 1 .. Len(M) : (A \o M \o B)[Len(A) + i] = M[i]
        /\ \A i \in 1 .. Len(B) : (A \o M \o B)[Len(A) + Len(M) + i] = B[i]
    BY <1>4, Concatenated
  <2>2. Len(A) + Len(M) + Len(B) = 8 + m
    BY <1>5
  <2> QED
    BY <1>1, <1>5, <2>1, <2>2
<1>8. m \in {0, 1}
  BY <1>5
<1> HIDE DEF m
<1>9. o[7 + m] = b4
  <2>1. 4 \in 1 .. 5 /\ 3 + m + 4 = 7 + m
    BY <1>8
  <2> QED
    BY <1>5, <1>7, <2>1
<1>10. ASSUME NEW i \in 1 .. 8 + m, i # 7 + m PROVE o[i].key # "n-dfas"
  <2>1. CASE i \in 1 .. 3
    BY <1>6, <1>7, <2>1
  <2>2. CASE i \notin 1 .. 3 /\ i - 3 \in 1 .. m
    <3>1. 3 + (i - 3) = i
      BY <1>8, <1>10
    <3>2. o[3 + (i - 3)] = M[i - 3] /\ M[i - 3].key # "n-dfas"
      BY <1>6, <1>7, <2>2 DEF m
    <3> QED
      BY <3>1, <3>2
  <2>3. CASE i \notin 1 .. 3 /\ i - 3 \notin 1 .. m
    <3>1. i - (3 + m) \in 1 .. 5 /\ 3 + m + (i - (3 + m)) = i /\ i - (3 + m) # 4
      BY <1>8, <1>10, <2>3
    <3>2. o[3 + m + (i - (3 + m))] = B[i - (3 + m)] /\ B[i - (3 + m)].key # "n-dfas"
      BY <1>6, <1>7, <3>1
    <3> QED
      BY <3>1, <3>2
  <2> QED
    BY <2>1, <2>2, <2>3
<1>11. 8 + m \in Nat /\ 7 + m \in 1 .. 8 + m
  BY <1>8
<1> QED
  BY <1>3, <1>7, <1>9, <1>10, <1>11 DEF o

\* What a word is converted to is a number, also where the one in it is not: the
\* cast wraps it.
LEMMA ReadAsNumber ==
    ASSUME NEW text, converts("uint32_t", text)
    PROVE  to("uint32_t", text) \in Nat
<1>1. text \in DOMAIN stoi
  BY DEF converts
<1>2. INT_MAX \in Nat /\ stoi[text] \in Int
  BY <1>1, NumbersAssumption
<1>3. to("uint32_t", text) = stoi[text] % (2 * (INT_MAX + 1))
  BY DEF to
<1>4. \A n \in Int, m \in Nat : m > 0 => n % m \in Nat
  OBVIOUS
<1> QED
  BY <1>2, <1>3, <1>4

\* Taking an option leaves what the constructor found out, and converts a number.
LEMMA TakenAnswers ==
    ASSUME NEW p, NEW o, NEW i, IsParser(p)
    PROVE  /\ IsParser(Taken(p, o, i).parser)
           /\ Taken(p, o, i).parser.m_help = p.m_help
           /\ Taken(p, o, i).outcome \in Outcomes
           /\ Taken(p, o, i).outcome = "parsed" /\ o.type = "uint32_t" =>
                 \E v \in Nat : Taken(p, o, i).argument = Given(v)
<1> DEFINE after == Checked(p, Slot(o, i))
           text == p.argv[i + 1].text
           follows == ~ (i = Len(p.argv) \/ ~ isValue(p.argv[i + 1]))
           ends(outcome) == [parser |-> after, argument |-> NotGiven, outcome |-> outcome]
           answer(argument) == [parser |-> after, argument |-> argument, outcome |-> "parsed"]
<1>1. IsParser(after) /\ after.m_help = p.m_help
  BY DEF IsParser, Checked
<1>2. Taken(p, o, i) = IF o.type = "void" THEN answer(Indicated)
                       ELSE IF ~ follows THEN ends("exit 1")
                       ELSE IF ~ converts(o.type, text) THEN ends("abort")
                       ELSE answer(Given(to(o.type, text)))
  BY DEF Taken
<1>3. /\ \A x : ends(x).parser = after /\ ends(x).outcome = x
      /\ \A x : answer(x).parser = after /\ answer(x).outcome = "parsed" /\ answer(x).argument = x
  OBVIOUS
<1> HIDE DEF after, text, follows, ends, answer
<1>4. CASE o.type = "void"
  <2>1. Taken(p, o, i) = answer(Indicated)
    BY <1>2, <1>4, Zenon
  <2>2. Taken(p, o, i).parser = after /\ Taken(p, o, i).outcome = "parsed"
    BY <1>3, <2>1, Zenon
  <2>3. "parsed" \in Outcomes /\ o.type # "uint32_t"
    BY <1>4 DEF Outcomes
  <2> QED
    BY <1>1, <2>2, <2>3
<1>5. CASE o.type # "void" /\ ~ (follows /\ converts(o.type, text))
  <2>1. Taken(p, o, i) = ends("exit 1") \/ Taken(p, o, i) = ends("abort")
    BY <1>2, <1>5, Zenon
  <2>2. /\ Taken(p, o, i).parser = after
        /\ Taken(p, o, i).outcome = "exit 1" \/ Taken(p, o, i).outcome = "abort"
    BY <1>3, <2>1, Zenon
  <2>3. "exit 1" # "parsed" /\ "abort" # "parsed" /\ {"exit 1", "abort"} \subseteq Outcomes
    BY DEF Outcomes
  <2> QED
    BY <1>1, <2>2, <2>3
<1>6. CASE o.type # "void" /\ follows /\ converts(o.type, text)
  <2>1. Taken(p, o, i) = answer(Given(to(o.type, text)))
    BY <1>2, <1>6, Zenon
  <2>2. ASSUME o.type = "uint32_t" PROVE to(o.type, text) \in Nat
    BY <1>6, <2>2, ReadAsNumber
  <2>3. Taken(p, o, i).parser = after /\ Taken(p, o, i).outcome = "parsed"
        /\ Taken(p, o, i).argument = Given(to(o.type, text))
    BY <1>3, <2>1, Zenon
  <2>4. "parsed" \in Outcomes
    BY DEF Outcomes
  <2> QED
    BY <1>1, <2>2, <2>3, <2>4
<1> QED
  BY <1>4, <1>5, <1>6

\* So does a parse(), and answers the default where the option was not found.
LEMMA ParseAnswers ==
    ASSUME NEW p, NEW o, IsParser(p)
    PROVE  /\ IsParser(_parse(p, o).parser)
           /\ _parse(p, o).parser.m_help = p.m_help
           /\ _parse(p, o).outcome \in Outcomes
           /\ _parse(p, o).outcome = "parsed" /\ ~ p.m_help /\ o = Option("n-dfas", "n", "uint32_t", << 1 >>) =>
                 \E v \in Nat : _parse(p, o).argument = Given(v)
<1> DEFINE found == {i \in DOMAIN p.argv : ~ p.m_checked[i] /\ Names(o, p.argv[i])}
           first == CHOOSE i \in found : \A j \in found : i <= j
           documented == Documented(p, o)
           given == IF o.default = <<>> THEN NotGiven ELSE Given(o.default[1])
           answer(argument) == [parser |-> documented, argument |-> argument, outcome |-> "parsed"]
<1>1. IsParser(documented) /\ documented.m_help = p.m_help
  BY DEF IsParser, Documented
<1>2. _parse(p, o) = IF ~ IsNewOption(p, o) THEN [answer(NotGiven) EXCEPT !.outcome = "exit 1"]
                     ELSE IF p.m_help THEN answer(Indicated)
                     ELSE IF found # {} THEN Taken(documented, o, first)
                     ELSE answer(given)
  BY DEF _parse
<1>3. \A x : answer(x).parser = documented /\ answer(x).outcome = "parsed" /\ answer(x).argument = x
  OBVIOUS
<1>4. o = Option("n-dfas", "n", "uint32_t", << 1 >>) => given = Given(1) /\ o.type = "uint32_t"
  BY DEF Option
<1>5. [answer(NotGiven) EXCEPT !.outcome = "exit 1"].parser = documented
      /\ [answer(NotGiven) EXCEPT !.outcome = "exit 1"].outcome = "exit 1"
  OBVIOUS
<1>6. "parsed" \in Outcomes /\ "exit 1" \in Outcomes /\ "exit 1" # "parsed"
  BY DEF Outcomes
<1> HIDE DEF documented, found, first, given, answer
<1>7. CASE ~ IsNewOption(p, o)
  <2>1. _parse(p, o) = [answer(NotGiven) EXCEPT !.outcome = "exit 1"]
    BY <1>2, <1>7, Zenon
  <2>2. _parse(p, o).parser = documented /\ _parse(p, o).outcome = "exit 1"
    BY <1>5, <2>1, Zenon
  <2> QED
    BY <1>1, <1>6, <2>2, Zenon
<1>8. CASE IsNewOption(p, o) /\ p.m_help
  <2>1. _parse(p, o) = answer(Indicated)
    BY <1>2, <1>8, Zenon
  <2> QED
    BY <1>1, <1>3, <1>6, <1>8, <2>1, Zenon
<1>9. CASE IsNewOption(p, o) /\ ~ p.m_help /\ found # {}
  <2>1. _parse(p, o) = Taken(documented, o, first)
    BY <1>2, <1>9, Zenon
  <2> QED
    BY <1>1, <1>4, <2>1, TakenAnswers
<1>10. CASE IsNewOption(p, o) /\ ~ p.m_help /\ found = {}
  <2>1. _parse(p, o) = answer(given)
    BY <1>2, <1>10, Zenon
  <2>2. o = Option("n-dfas", "n", "uint32_t", << 1 >>) => \E v \in Nat : _parse(p, o).argument = Given(v)
    BY <1>3, <1>4, <2>1
  <2> QED
    BY <1>1, <1>3, <1>6, <2>1, <2>2, Zenon
<1> QED
  BY <1>7, <1>8, <1>9, <1>10

\* What the first k options were parsed to.
ParsedUpTo(options, help, k, so_far) ==
    /\ IsParser(so_far.parser) /\ so_far.parser.m_help = help
    /\ so_far.outcome \in Outcomes
    /\ so_far.outcome = "parsed" =>
          /\ \E S : so_far.answers \in Seq(S)
          /\ Len(so_far.answers) = k
          /\ ~ help => \A i \in 1 .. k : options[i] = Option("n-dfas", "n", "uint32_t", << 1 >>) =>
                          \E v \in Nat : so_far.answers[i] = Given(v)

LEMMA OneMoreParsed ==
    ASSUME NEW options, NEW help, NEW k \in Nat, NEW so_far, ParsedUpTo(options, help, k, so_far)
    PROVE  ParsedUpTo(options, help, k + 1, ParsedOn(so_far, options[k + 1]))
<1> DEFINE o == options[k + 1]
           next == _parse(so_far.parser, o)
           r == ParsedOn(so_far, o)
<1>1. CASE so_far.outcome # "parsed"
  <2>1. r = so_far
    BY <1>1 DEF ParsedOn
  <2> QED
    BY <1>1, <2>1 DEF ParsedUpTo
<1>2. CASE so_far.outcome = "parsed"
  <2>1. r = [parser |-> next.parser, outcome |-> next.outcome, answers |-> Append(so_far.answers, next.argument)]
    BY <1>2 DEF ParsedOn
  <2> HIDE DEF r
  <2>2. r.parser = next.parser /\ r.outcome = next.outcome /\ r.answers = Append(so_far.answers, next.argument)
    BY <2>1
  <2>3. /\ IsParser(next.parser) /\ next.parser.m_help = help /\ next.outcome \in Outcomes
        /\ next.outcome = "parsed" /\ ~ help /\ o = Option("n-dfas", "n", "uint32_t", << 1 >>) =>
              \E v \in Nat : next.argument = Given(v)
    BY ParseAnswers DEF ParsedUpTo
  <2> HIDE DEF next
  <2>4. PICK S : so_far.answers \in Seq(S)
    BY <1>2 DEF ParsedUpTo
  <2>5. /\ r.answers \in Seq(S \cup {next.argument}) /\ Len(r.answers) = k + 1
        /\ r.answers[k + 1] = next.argument
        /\ \A i \in 1 .. k : r.answers[i] = so_far.answers[i]
    <3> DEFINE w == so_far.answers
               x == next.argument
    <3>1. w \in Seq(S) /\ Len(w) = k /\ r.answers = Append(w, x)
      BY <1>2, <2>2, <2>4 DEF ParsedUpTo
    <3> HIDE DEF w, x
    <3>2. w \in Seq(S \cup {x})
      BY <3>1
    <3> QED
      BY <3>1, <3>2 DEF x, w
  <2>6. ASSUME ~ help, r.outcome = "parsed", NEW i \in 1 .. k + 1, options[i] = Option("n-dfas", "n", "uint32_t", << 1 >>)
        PROVE  \E v \in Nat : r.answers[i] = Given(v)
    <3>1. CASE i = k + 1
      BY <2>2, <2>3, <2>5, <2>6, <3>1
    <3>2. CASE i # k + 1
      <4>1. i \in 1 .. k
        BY <3>2
      <4>2. \E v \in Nat : so_far.answers[i] = Given(v)
        BY <1>2, <2>6, <4>1 DEF ParsedUpTo
      <4> QED
        BY <2>5, <4>1, <4>2
    <3> QED
      BY <3>1, <3>2
  <2> HIDE DEF o
  <2>7. ParsedUpTo(options, help, k + 1, r)
    BY <2>2, <2>3, <2>5, <2>6, Zenon DEF ParsedUpTo
  <2> QED
    BY <2>7 DEF r, o
<1> QED
  BY <1>1, <1>2

\* All of it.
LEMMA WhatIsParsed ==
    ASSUME NEW t \in Tasks
    PROVE  \E n \in Nat : /\ DOMAIN Options(t.program) = 1 .. n
                          /\ ParsedUpTo(Options(t.program), NewParser(t.argv).m_help, n, Parsed[t])
<1> DEFINE options == Options(t.program)
           help == NewParser(t.argv).m_help
           S == t.argv
           base == [parser |-> NewParser(S), outcome |-> "parsed", answers |-> <<>>]
           Fold(g, T) == IF T = {} THEN base ELSE ParsedOn(g[T \ {Max(T)}], options[Max(T)])
<1>1. PICK n \in Nat : DOMAIN options = 1 .. n
  BY NDfasIsListed
<1>2. \A g : FoldsTo("parsed", S, options, n, g) <=> g = [T \in SUBSET DOMAIN options |-> Fold(g, T)]
  BY <1>1 DEF FoldsTo, FoldBase, FoldStep
<1>3. \E g : g = [T \in SUBSET DOMAIN options |-> Fold(g, T)]
  BY <1>2, FoldIsSolved
<1>4. PICK h : h = [T \in SUBSET DOMAIN options |-> Fold(h, T)] /\ Parsed[t] = h[DOMAIN options]
  BY <1>3 DEF Parsed, ParsedOn, FoldLeft, MapThenFoldSet
<1>5. /\ h[1 .. 0] = FoldBase("parsed", S)
      /\ \A k \in 1 .. n : h[1 .. k] = FoldStep("parsed", S, h[1 .. k - 1], options[k])
  <2>1. FoldsTo("parsed", S, options, n, h)
    BY <1>2, <1>4
  <2> QED
    BY <2>1, PrefixValues DEF FoldsStepwise
<1>6. h[1 .. 0] = base /\ \A k \in 1 .. n : h[1 .. k] = ParsedOn(h[1 .. k - 1], options[k])
  BY <1>5 DEF FoldBase, FoldStep
<1> DEFINE Holds(k) == ParsedUpTo(options, help, k, h[1 .. k])
           Missed == {k \in 0 .. n : ~ Holds(k)}
<1>7. Holds(0)
  <2>1. base.parser = NewParser(S) /\ base.outcome = "parsed" /\ base.answers = <<>>
    OBVIOUS
  <2>2. IsParser(NewParser(S))
    BY DEF IsParser, NewParser
  <2>3. \E T : <<>> \in Seq(T)
    OBVIOUS
  <2> HIDE DEF base
  <2>4. Len(base.answers) = 0 /\ \A i \in 1 .. 0 : FALSE
    BY <2>1
  <2>5. "parsed" \in Outcomes
    BY DEF Outcomes
  <2>6. ParsedUpTo(options, help, 0, base)
    BY <2>1, <2>2, <2>3, <2>4, <2>5 DEF ParsedUpTo
  <2> QED
    BY <1>6, <2>6 DEF base
<1>8. ASSUME NEW k \in 0 .. n, k # n, Holds(k) PROVE Holds(k + 1)
  <2>1. k \in Nat /\ k + 1 \in 1 .. n /\ (k + 1) - 1 = k
    BY <1>8
  <2>2. h[1 .. k + 1] = ParsedOn(h[1 .. k], options[k + 1])
    <3>1. h[1 .. k + 1] = ParsedOn(h[1 .. (k + 1) - 1], options[k + 1])
      BY <1>6, <2>1
    <3> QED
      BY <2>1, <3>1
  <2> HIDE DEF options, help
  <2> QED
    BY <1>8, <2>1, <2>2, OneMoreParsed
<1>9. Missed = {}
  <2> SUFFICES ASSUME Missed # {} PROVE FALSE
    OBVIOUS
  <2>1. PICK l \in Missed : \A k \in Missed : l <= k
    <3>1. Missed \in SUBSET Nat
      OBVIOUS
    <3> HIDE DEF Missed
    <3> QED
      BY <3>1, LeastNumber
  <2>2. l \in 0 .. n /\ ~ Holds(l)
    BY <2>1
  <2> HIDE DEF Holds
  <2>3. l # 0
    BY <1>7, <2>2
  <2>4. l - 1 \in 0 .. n /\ (l - 1) + 1 = l /\ ~ (l <= l - 1) /\ l - 1 # n
    BY <2>2, <2>3
  <2>5. Holds(l - 1)
    BY <2>1, <2>4
  <2>6. Holds((l - 1) + 1)
    BY <1>8, <2>4, <2>5
  <2> QED
    BY <2>2, <2>4, <2>6
<1>10. Holds(n)
  BY <1>9
<1> QED
  BY <1>1, <1>4, <1>10

\* Where the program goes on, it was asked for a task.
LEMMA TasksAreAskedFor ==
    ASSUME NEW t \in Tasks, Parsed[t].outcome = "parsed", enableHelp(Parsed[t].parser) = "return"
    PROVE  \E v \in Nat \ {0} : Answer(Options(t.program), Parsed[t].answers, "n-dfas") = Given(v)
<1>1. PICK n \in Nat : /\ DOMAIN Options(t.program) = 1 .. n
                       /\ ParsedUpTo(Options(t.program), NewParser(t.argv).m_help, n, Parsed[t])
  BY WhatIsParsed
<1>2. PICK m \in Nat : \E k \in 1 .. m :
              /\ DOMAIN Options(t.program) = 1 .. m
              /\ Options(t.program)[k] = Option("n-dfas", "n", "uint32_t", << 1 >>)
              /\ \A i \in 1 .. m : Options(t.program)[i].key = "n-dfas" => i = k
  BY NDfasIsListed
<1>3. PICK k \in 1 .. n :
              /\ Options(t.program)[k] = Option("n-dfas", "n", "uint32_t", << 1 >>)
              /\ \A i \in 1 .. n : Options(t.program)[i].key = "n-dfas" => i = k
  BY <1>1, <1>2
<1>4. Options(t.program)[k].key = "n-dfas"
  BY <1>3 DEF Option
<1>5. (CHOOSE i \in DOMAIN Options(t.program) : Options(t.program)[i].key = "n-dfas") = k
  BY <1>1, <1>3, <1>4
<1>6. Answer(Options(t.program), Parsed[t].answers, "n-dfas") = Parsed[t].answers[k]
  BY <1>5 DEF Answer
<1>7. ~ Parsed[t].parser.m_help
  BY DEF enableHelp
<1>8. PICK v \in Nat : Parsed[t].answers[k] = Given(v)
  BY <1>1, <1>3, <1>7 DEF ParsedUpTo
<1>9. Answer(Options(t.program), Parsed[t].answers, "n-dfas").m_arg # <<0>>
  BY SomeTaskAssumption
<1>10. Given(v).m_arg = <<v>>
  BY DEF Given
<1>11. v # 0
  BY <1>6, <1>8, <1>9, <1>10
<1> QED
  BY <1>6, <1>8, <1>11

-----------------------------------------------------------------------------
(***************************************************************************)
(* A walk of the search is a run of the tasks.                             *)
(***************************************************************************)
\* A node of the product has the parts of a run.
Agrees(node, run) ==
    /\ unwrap(m_sym_graph, node)[1] = run.cell
    /\ \A i \in DOMAIN dfas : unwrap(m_sym_graph, node)[i + 1] = run.states[i]

\* A way the automata can read a cell together.
IsReading(states, cell, reading) ==
    /\ reading = [i \in DOMAIN dfas |-> reading[i]]
    /\ \A i \in DOMAIN dfas : reading[i] \in Ways(states, cell, i)

\* A run becomes another with an action.
GoesOn(run, action, next) ==
    \E c \in MovesOf(run) : \E reading :
        /\ IsReading(run.states, c.dst, reading)
        /\ c.edge.action = action /\ next = Moved(run, c, reading)

\* The runs along a walk.
IsTrace(walk, runs) ==
    /\ walk.node_path \in Seq(WideNode(m_sym_graph))
    /\ \E S : walk.action_path \in Seq(S)
    /\ Len(walk.node_path) = Len(walk.action_path) + 1
    /\ DOMAIN runs = 1 .. Len(walk.node_path)
    /\ runs[1] = Start
    /\ \A k \in 1 .. Len(walk.node_path) : Agrees(walk.node_path[k], runs[k])
    /\ \A k \in 1 .. Len(walk.action_path) : GoesOn(runs[k], walk.action_path[k], runs[k + 1])
    /\ walk.g_score = runs[Len(walk.node_path)].g_score

IsWalk(walk) == \E runs : IsTrace(walk, runs)

\* What the planner plans in, when there is a task.
Ready == LInv /\ dfas # <<>> /\ m_sym_graph = SymbolicProductGraph

LEMMA ReadyToPlan ==
    ASSUME Ready
    PROVE  /\ IsPlannable(m_sym_graph)
           /\ \E n \in Nat \ {0} : DOMAIN dfas = 1 .. n
           /\ DOMAIN m_sym_graph.automata = DOMAIN dfas
           /\ m_sym_graph.model = ts.model
           /\ \A i \in DOMAIN dfas : IsRun(dfas[i]) /\ m_sym_graph.automata[i] = GraphOf(dfas[i])
           /\ \A o \in m_sym_graph.observe : <<o[1], o[2].observation>> \in ts.observed
<1>1. PICK S : dfas \in Seq(S) /\ \A m \in S : IsRun(m)
  BY DEF Ready, LInv, AllRead
<1>2. DOMAIN dfas = 1 .. Len(dfas) /\ Len(dfas) \in Nat \ {0} /\ \A i \in DOMAIN dfas : dfas[i] \in S
  BY <1>1 DEF Ready
<1>3. PICK n \in Nat \ {0} : DOMAIN dfas = 1 .. n /\ \A i \in 1 .. n : IsRun(dfas[i])
  BY <1>1, <1>2
<1>4. IsWorld(ts) /\ m_sym_graph = SymbolicProductGraph
  BY DEF Ready, LInv
<1>5. IsPlannable(m_sym_graph)
  BY <1>3, <1>4, ProductIsPlannable
<1>6. /\ m_sym_graph.automata = [i \in DOMAIN dfas |-> GraphOf(dfas[i])] /\ m_sym_graph.model = ts.model
      /\ \A o \in m_sym_graph.observe : <<o[1], o[2].observation>> \in ts.observed
  BY <1>4 DEF SymbolicProductGraph, Mapped
<1> QED
  BY <1>3, <1>5, <1>6

\* The walk that is open first.
LEMMA FirstIsAWalk ==
    ASSUME Ready
    PROVE  IsWalk(Walk(<<init_node(m_sym_graph)>>, <<>>, NoCost))
<1> DEFINE p == m_sym_graph
           node == init_node(p)
           walk == Walk(<<node>>, <<>>, NoCost)
           runs == [k \in 1 .. 1 |-> Start]
<1>1. IsPlannable(p) /\ DOMAIN p.automata = DOMAIN dfas
      /\ \A i \in DOMAIN dfas : IsRun(dfas[i]) /\ p.automata[i] = GraphOf(dfas[i])
  BY ReadyToPlan
<1>2. HasParts(p, node, 0, [a \in DOMAIN p.automata |-> p.automata[a].init[1]])
  BY <1>1, StartIsANode
<1>3. \A i \in DOMAIN dfas : p.automata[i].init = dfas[i].m_init_states
  BY <1>1, GraphOfAutomaton
<1>4. Start.cell = 0 /\ Start.g_score = NoCost
      /\ \A i \in DOMAIN dfas : Start.states[i] = dfas[i].m_init_states[1]
  BY DEF Start
<1>5. node \in WideNode(p) /\ Agrees(node, Start)
  BY <1>1, <1>2, <1>3, <1>4 DEF HasParts, Agrees
<1>6. walk.node_path = <<node>> /\ walk.action_path = <<>> /\ walk.g_score = NoCost
  BY DEF Walk
<1>7. DOMAIN runs = 1 .. 1 /\ runs[1] = Start
  OBVIOUS
<1> HIDE DEF walk, node, runs, p
<1>8. /\ <<node>> \in Seq(WideNode(p)) /\ Len(<<node>>) = 1 /\ <<node>>[1] = node
      /\ <<>> \in Seq({}) /\ Len(<<>>) = 0
  BY <1>5
<1>9. /\ walk.node_path \in Seq(WideNode(p))
      /\ \E S : walk.action_path \in Seq(S)
      /\ Len(walk.node_path) = Len(walk.action_path) + 1
      /\ Len(walk.node_path) = 1 /\ Len(walk.action_path) = 0
      /\ walk.node_path[1] = node
  BY <1>6, <1>8
<1>10. (\A k \in 1 .. 1 : k = 1) /\ (\A k \in 1 .. 0 : FALSE)
  OBVIOUS
<1>11. IsTrace(walk, runs)
  BY <1>4, <1>5, <1>6, <1>7, <1>9, <1>10 DEF IsTrace, p
<1> QED
  BY <1>11 DEF IsWalk, walk, node, p

\* One more step of a run, with the automata's connections x.
LEMMA StepsAreReadings ==
    ASSUME Ready, NEW node \in WideNode(m_sym_graph), NEW run, Agrees(node, run),
           NEW x, IsStep(m_sym_graph, node, x)
    PROVE  \E reading :
              /\ x.model \in MovesOf(run)
              /\ IsReading(run.states, x.model.dst, reading)
              /\ \A i \in DOMAIN dfas : reading[i].dst = x.automata[i].dst /\ reading[i].edge = x.automata[i].edge
<1> DEFINE p == m_sym_graph
           Fits(i, y) == /\ y \in Ways(run.states, x.model.dst, i)
                         /\ y.dst = x.automata[i].dst /\ y.edge = x.automata[i].edge
           reading == [i \in DOMAIN dfas |-> CHOOSE y : Fits(i, y)]
<1>1. /\ IsPlannable(p) /\ DOMAIN p.automata = DOMAIN dfas /\ p.model = ts.model
      /\ \A i \in DOMAIN dfas : IsRun(dfas[i]) /\ p.automata[i] = GraphOf(dfas[i])
      /\ \A o \in p.observe : <<o[1], o[2].observation>> \in ts.observed
  BY ReadyToPlan
<1>2. x.model \in MovesOf(run)
  BY <1>1 DEF IsStep, Agrees, MovesOf
<1>3. ASSUME NEW i \in DOMAIN dfas PROVE \E y : Fits(i, y)
  <2> DEFINE c == x.automata[i]
  <2>1. c \in Range(GraphOf(dfas[i]).connections) /\ c.src = run.states[i] /\ observe(p, x.model.dst, c.edge)
    BY <1>1 DEF IsStep, Agrees
  <2>2. IsListed(dfas[i], c)
    BY <1>1, <2>1, GraphOfAutomaton
  <2>3. PICK y \in Range(leaving(dfas[i], c.src)) : c.dst = y.dst /\ c.edge = y.edge
    BY <2>2 DEF IsListed
  <2>4. <<x.model.dst, c.edge>> \in p.observe
    BY <2>1 DEF observe
  <2>5. <<x.model.dst, c.edge.observation>> \in ts.observed
    <3> DEFINE o == <<x.model.dst, c.edge>>
    <3>1. o[1] = x.model.dst /\ o[2] = c.edge
      OBVIOUS
    <3> HIDE DEF c
    <3> QED
      BY <1>1, <2>4, <3>1
  <2>6. y \in Ways(run.states, x.model.dst, i)
    BY <2>1, <2>3, <2>5 DEF Ways
  <2> QED
    BY <2>3, <2>6
<1> HIDE DEF Fits
<1>4. \A i \in DOMAIN dfas : Fits(i, reading[i])
  BY <1>3
<1>5. reading = [i \in DOMAIN dfas |-> reading[i]]
  OBVIOUS
<1> HIDE DEF reading
<1>6. IsReading(run.states, x.model.dst, reading)
  BY <1>4, <1>5 DEF IsReading, Fits
<1>7. \A i \in DOMAIN dfas : reading[i].dst = x.automata[i].dst /\ reading[i].edge = x.automata[i].edge
  BY <1>4 DEF Fits
<1> QED
  BY <1>2, <1>6, <1>7

\* The cost of a step is that of the run's.
LEMMA CostsAgree ==
    ASSUME Ready, NEW node, NEW run, Agrees(node, run), NEW x, DOMAIN x.automata = DOMAIN dfas, NEW reading,
           \A i \in DOMAIN dfas : reading[i].dst = x.automata[i].dst /\ reading[i].edge = x.automata[i].edge
    PROVE  /\ Moved(run, x.model, reading).cell = x.model.dst
           /\ \A i \in DOMAIN dfas : Moved(run, x.model, reading).states[i] = x.automata[i].dst
           /\ Moved(run, x.model, reading).g_score = gScore(run.g_score, EdgeCost(node, Inherited(x)))
<1> DEFINE edge == Inherited(x)
           delayed(i) == ~ isAccepting(dfas[i], run.states[i])
           price(i) == IF IsPartial THEN reading[i].edge.substitution_cost ELSE x.model.edge.cost
           charge(i) == IF delayed(i) THEN price(i) ELSE 0
           asked(i) == IF acc(m_sym_graph, node, i) THEN 0
                       ELSE IF IsPartial THEN edge.automaton_edge[i].substitution_cost
                       ELSE edge.model_edge.cost
<1>1. edge.model_edge = x.model.edge /\ edge.automaton_edge = [a \in DOMAIN x.automata |-> x.automata[a].edge]
  BY DEF Inherited, inherit
<1>2. \A i \in DOMAIN dfas : edge.automaton_edge[i] = reading[i].edge
  BY <1>1
<1>3. ASSUME NEW i \in DOMAIN dfas PROVE acc(m_sym_graph, node, i) <=> ~ delayed(i)
  <2>1. m_sym_graph.automata[i] = GraphOf(dfas[i])
    BY ReadyToPlan
  <2>2. GraphOf(dfas[i]).accepting = dfas[i].m_accepting_states
    BY DEF GraphOf
  <2>3. unwrap(m_sym_graph, node)[i + 1] = run.states[i]
    BY DEF Agrees
  <2> QED
    BY <2>1, <2>2, <2>3 DEF acc, isAccepting
<1> HIDE DEF edge, delayed
<1>4. ASSUME NEW i \in DOMAIN dfas PROVE charge(i) = asked(i)
  BY <1>1, <1>2, <1>3
<1> HIDE DEF charge, asked
<1>5. [i \in DOMAIN dfas |-> charge(i)] = [i \in DOMAIN dfas |-> asked(i)]
  BY <1>4
<1>6. EdgeCost(node, edge) = [cost |-> x.model.edge.cost, pcs |-> [i \in DOMAIN dfas |-> asked(i)]]
  BY <1>1 DEF EdgeCost, asked
<1>7. Moved(run, x.model, reading) =
         [cell |-> x.model.dst, states |-> [i \in DOMAIN dfas |-> reading[i].dst],
          g_score |-> gScore(run.g_score, [cost |-> x.model.edge.cost, pcs |-> [i \in DOMAIN dfas |-> charge(i)]])]
  BY DEF Moved, charge, delayed
<1>8. gScore(run.g_score, [cost |-> x.model.edge.cost, pcs |-> [i \in DOMAIN dfas |-> charge(i)]])
        = gScore(run.g_score, EdgeCost(node, edge))
  BY <1>5, <1>6
<1>9. /\ Moved(run, x.model, reading).cell = x.model.dst
      /\ Moved(run, x.model, reading).states = [i \in DOMAIN dfas |-> reading[i].dst]
      /\ Moved(run, x.model, reading).g_score = gScore(run.g_score, EdgeCost(node, edge))
  BY <1>7, <1>8
<1> QED
  BY <1>9 DEF edge

\* What a walk becomes with a connection out of its end is a walk.
LEMMA OneMoreStep ==
    ASSUME Ready, NEW walk, IsWalk(walk), NEW x \in Range(Connected(m_sym_graph, at(walk)))
    PROVE  IsWalk(Extend(walk, Destination(m_sym_graph, x), Inherited(x)))
<1> DEFINE p == m_sym_graph
           node == at(walk)
           child == Destination(p, x)
           next == Extend(walk, child, Inherited(x))
           N == Len(walk.action_path)
<1>1. PICK runs : IsTrace(walk, runs)
  BY DEF IsWalk
<1>2. PICK S : walk.action_path \in Seq(S)
  BY <1>1 DEF IsTrace
<1>3. /\ N \in Nat /\ Len(walk.node_path) = N + 1 /\ walk.node_path \in Seq(WideNode(p))
      /\ DOMAIN runs = 1 .. N + 1 /\ runs[1] = Start
      /\ \A k \in 1 .. N + 1 : Agrees(walk.node_path[k], runs[k])
      /\ \A k \in 1 .. N : GoesOn(runs[k], walk.action_path[k], runs[k + 1])
      /\ walk.g_score = runs[N + 1].g_score
  BY <1>1, <1>2 DEF IsTrace
<1> DEFINE run == runs[N + 1]
<1>4. node = walk.node_path[N + 1] /\ node \in WideNode(p) /\ Agrees(node, run)
  <2>1. node = walk.node_path[N + 1]
    BY <1>3 DEF at, Last
  <2>2. N + 1 \in 1 .. N + 1
    BY <1>3
  <2> QED
    BY <1>3, <2>1, <2>2
<1>5. IsPlannable(p) /\ DOMAIN p.automata = DOMAIN dfas
  BY ReadyToPlan
<1>6. IsStep(p, node, x) /\ HasParts(p, child, x.model.dst, [a \in DOMAIN p.automata |-> x.automata[a].dst])
  BY <1>4, <1>5, ConnectionsLeave
<1>7. PICK reading :
          /\ x.model \in MovesOf(run)
          /\ IsReading(run.states, x.model.dst, reading)
          /\ \A i \in DOMAIN dfas : reading[i].dst = x.automata[i].dst /\ reading[i].edge = x.automata[i].edge
  BY <1>4, <1>6, StepsAreReadings
<1> DEFINE moved == Moved(run, x.model, reading)
<1>8. /\ moved.cell = x.model.dst
      /\ \A i \in DOMAIN dfas : moved.states[i] = x.automata[i].dst
      /\ moved.g_score = gScore(run.g_score, EdgeCost(node, Inherited(x)))
  BY <1>4, <1>5, <1>6, <1>7, CostsAgree DEF IsStep
<1>9. child \in WideNode(p) /\ Agrees(child, moved)
  BY <1>5, <1>6, <1>8 DEF HasParts, Agrees
<1>10. GoesOn(run, x.model.edge.action, moved)
  BY <1>7 DEF GoesOn
<1>11. /\ next.node_path = Append(walk.node_path, child)
       /\ next.action_path = Append(walk.action_path, x.model.edge.action)
       /\ next.g_score = gScore(walk.g_score, EdgeCost(node, Inherited(x)))
  BY DEF Extend, Walk, Inherited, inherit
<1> DEFINE longer == [k \in 1 .. N + 2 |-> IF k = N + 2 THEN moved ELSE runs[k]]
           action == x.model.edge.action
<1>12. next.g_score = moved.g_score
  BY <1>3, <1>8, <1>11
<1> HIDE DEF next, child, moved, node, run, p, action
<1>13. /\ next.node_path \in Seq(WideNode(p)) /\ Len(next.node_path) = N + 2
       /\ next.node_path[N + 2] = child
       /\ \A k \in 1 .. N + 1 : next.node_path[k] = walk.node_path[k]
  <2> DEFINE v == walk.node_path
             w == next.node_path
  <2>1. v \in Seq(WideNode(p)) /\ Len(v) = N + 1 /\ w = Append(v, child) /\ child \in WideNode(p) /\ N \in Nat
    BY <1>3, <1>9, <1>11
  <2> HIDE DEF v, w, N
  <2>2. /\ w \in Seq(WideNode(p)) /\ Len(w) = N + 2 /\ w[N + 2] = child
        /\ \A k \in 1 .. N + 1 : w[k] = v[k]
    BY <2>1
  <2> QED
    BY <2>2 DEF v, w
<1>14. /\ next.action_path \in Seq(S \cup {action}) /\ Len(next.action_path) = N + 1
       /\ next.action_path[N + 1] = action
       /\ \A k \in 1 .. N : next.action_path[k] = walk.action_path[k]
  <2> DEFINE v == walk.action_path
             w == next.action_path
  <2>1. v \in Seq(S) /\ Len(v) = N /\ w = Append(v, action) /\ N \in Nat
    BY <1>2, <1>3, <1>11 DEF action
  <2> HIDE DEF v, w, N
  <2>2. v \in Seq(S \cup {action})
    BY <2>1
  <2>3. /\ w \in Seq(S \cup {action}) /\ Len(w) = N + 1 /\ w[N + 1] = action
        /\ \A k \in 1 .. N : w[k] = v[k]
    BY <2>1, <2>2
  <2> QED
    BY <2>3 DEF v, w
<1> HIDE DEF N
<1>15. /\ DOMAIN longer = 1 .. N + 2 /\ longer[N + 2] = moved
       /\ \A k \in 1 .. N + 1 : longer[k] = runs[k]
  BY <1>3
<1> HIDE DEF longer
<1>16. \A k \in 1 .. N + 2 : Agrees(next.node_path[k], longer[k])
  <2> SUFFICES ASSUME NEW k \in 1 .. N + 2 PROVE Agrees(next.node_path[k], longer[k])
    OBVIOUS
  <2>1. CASE k = N + 2
    BY <1>9, <1>13, <1>15, <2>1
  <2>2. CASE k # N + 2
    <3>1. k \in 1 .. N + 1
      BY <1>3, <2>2
    <3> QED
      BY <1>3, <1>13, <1>15, <3>1
  <2> QED
    BY <2>1, <2>2
<1>17. \A k \in 1 .. N + 1 : GoesOn(longer[k], next.action_path[k], longer[k + 1])
  <2> SUFFICES ASSUME NEW k \in 1 .. N + 1 PROVE GoesOn(longer[k], next.action_path[k], longer[k + 1])
    OBVIOUS
  <2>1. CASE k = N + 1
    <3>1. k + 1 = N + 2 /\ longer[k] = run
      BY <1>3, <1>15, <2>1 DEF run
    <3> QED
      BY <1>10, <1>14, <1>15, <2>1, <3>1 DEF action
  <2>2. CASE k # N + 1
    <3>1. k \in 1 .. N /\ k \in 1 .. N + 1 /\ k + 1 \in 1 .. N + 1
      BY <1>3, <2>2
    <3>2. longer[k] = runs[k] /\ longer[k + 1] = runs[k + 1] /\ next.action_path[k] = walk.action_path[k]
      BY <1>14, <1>15, <3>1
    <3> QED
      BY <1>3, <3>1, <3>2
  <2> QED
    BY <2>1, <2>2
<1>18. longer[1] = Start /\ N + 2 = (N + 1) + 1
  <2>1. 1 \in 1 .. N + 1
    BY <1>3
  <2> QED
    BY <1>3, <1>15, <2>1
<1>19. IsTrace(next, longer)
  BY <1>12, <1>13, <1>14, <1>15, <1>16, <1>17, <1>18, Zenon DEF IsTrace, p
<1> QED
  BY <1>19 DEF IsWalk, next, child, p

LEMMA ExtensionsAreWalks ==
    ASSUME Ready, NEW walk, IsWalk(walk), NEW y \in Extensions(walk)
    PROVE  IsWalk(y)
<1> DEFINE p == m_sym_graph
           node == at(walk)
           listed == Connected(p, node)
           array == post(p, node)
           neighbors == children(p, node, array)
           neighborEdges == outgoingEdges(p, node, array)
<1>1. PICK k \in DOMAIN neighbors : y = Extend(walk, neighbors[k], neighborEdges[k])
  BY DEF Extensions
<1>2. DOMAIN neighbors = DOMAIN listed
      /\ \A i \in DOMAIN listed : neighbors[i] = Destination(p, listed[i]) /\ neighborEdges[i] = Inherited(listed[i])
  BY DEF children, outgoingEdges, Mapped, Connected
<1>3. k \in DOMAIN listed /\ listed[k] \in Range(listed)
  BY <1>1, <1>2 DEF Range
<1>4. y = Extend(walk, Destination(p, listed[k]), Inherited(listed[k]))
  BY <1>1, <1>2, <1>3
<1> QED
  BY <1>3, <1>4, OneMoreStep

\* A walk's nodes are nodes.
LEMMA WalksHaveNodes ==
    ASSUME NEW walk, IsWalk(walk)
    PROVE  Range(walk.node_path) \subseteq WideNode(m_sym_graph) /\ at(walk) \in WideNode(m_sym_graph)
<1>1. PICK runs : IsTrace(walk, runs)
  BY DEF IsWalk
<1> DEFINE v == walk.node_path
<1>2. PICK S : walk.action_path \in Seq(S)
  BY <1>1 DEF IsTrace
<1>3. v \in Seq(WideNode(m_sym_graph)) /\ Len(v) = Len(walk.action_path) + 1 /\ Len(walk.action_path) \in Nat
  BY <1>1, <1>2 DEF IsTrace
<1>4. at(walk) = v[Len(v)]
  BY DEF at, Last
<1> HIDE DEF v
<1>5. Range(v) \subseteq WideNode(m_sym_graph) /\ v[Len(v)] \in WideNode(m_sym_graph)
  BY <1>3 DEF Range
<1> QED
  BY <1>4, <1>5 DEF v

-----------------------------------------------------------------------------
(***************************************************************************)
(* The walks, the plans and the files.                                     *)
(***************************************************************************)
\* The command line asked for tasks, and not for help.
Asked ==
    /\ Parsed[task].outcome = "parsed" /\ enableHelp(Parsed[task].parser) = "return"
    /\ answers = Parsed[task].answers

NotBegun ==
    /\ phase \in {"started", "generating", "loading", "ended"}
    /\ open_set = {} /\ DOMAIN g_2_min = {} /\ solutions = <<>>
    /\ plan_set = <<>> /\ written = 0 /\ DOMAIN files = {}

\* A walk that does all tasks, and the plan that is made of one.
Solves(walk) == IsWalk(walk) /\ goal(at(walk))

IsPlan(plan) == \E walk : Solves(walk) /\ plan = Plan(walk, walk.g_score)

Walked ==
    /\ \A walk \in open_set : IsWalk(walk)
    /\ \A n \in DOMAIN g_2_min : n \in WideNode(m_sym_graph)
    /\ \E S : solutions \in Seq(S) /\ \A walk \in S : Solves(walk)

Planned ==
    /\ \E n \in Nat : DOMAIN plan_set = 1 .. n /\ Len(plan_set) = n /\ written \in 0 .. n
    /\ \A i \in DOMAIN plan_set : IsPlan(plan_set[i])

Filed ==
    \A f \in DOMAIN files :
        /\ Len(f) > 1 => \E i \in Nat : i + 1 \in DOMAIN plan_set /\ files[f] = PlanFile(i)
        /\ ~ (Len(f) > 1) => phase = "ended" /\ files[f] = FrontFile

Begun ==
    /\ phase \in {"planning", "writing", "ended"}
    /\ dfas # <<>> /\ m_sym_graph = SymbolicProductGraph
    /\ Walked /\ Planned /\ Filed
    /\ phase = "planning" => plan_set = <<>> /\ written = 0 /\ DOMAIN files = {}

TInv ==
    /\ phase \in {"started", "generating", "loading", "planning", "writing", "ended"}
    /\ exit \in {"running", "exit 0", "exit 1", "abort"} /\ (phase = "ended" <=> exit # "running")
    /\ combined_alphabet = UNION {dfas[i].m_alphabet : i \in DOMAIN dfas}
    /\ phase \notin {"started", "ended"} => Asked
    /\ NotBegun \/ Begun

\* Walks are the same as long as what they are walked in is.
LEMMA SameWalks ==
    ASSUME UNCHANGED <<m_sym_graph, dfas, ts, task>>
    PROVE  /\ \A walk : IsWalk(walk)' <=> IsWalk(walk)
           /\ \A walk : Solves(walk)' <=> Solves(walk)
           /\ \A walk, g_score : Plan(walk, g_score)' = Plan(walk, g_score)
           /\ \A plan : IsPlan(plan)' <=> IsPlan(plan)
<1>1. \A run : MovesOf(run)' = MovesOf(run)
  BY DEF MovesOf
<1>2. \A states, cell, reading : IsReading(states, cell, reading)' <=> IsReading(states, cell, reading)
  BY DEF IsReading, Ways
<1>3. \A run, c, reading : Moved(run, c, reading)' = Moved(run, c, reading)
  BY DEF Moved, IsPartial
<1>4. \A run, action, next : GoesOn(run, action, next)' <=> GoesOn(run, action, next)
  BY <1>1, <1>2, <1>3 DEF GoesOn
<1>5. \A node, run : Agrees(node, run)' <=> Agrees(node, run)
  BY DEF Agrees
<1>6. Start' = Start
  BY DEF Start
<1>7. \A walk, runs : IsTrace(walk, runs)' <=> IsTrace(walk, runs)
  BY <1>4, <1>5, <1>6 DEF IsTrace
<1>8. \A walk : IsWalk(walk)' <=> IsWalk(walk)
  BY <1>7 DEF IsWalk
<1>9. \A node : goal(node)' <=> goal(node)
  BY DEF goal
<1>10. \A walk : Solves(walk)' <=> Solves(walk)
  BY <1>8, <1>9 DEF Solves
<1>11. \A g_score : Objectives(g_score)' = Objectives(g_score)
  BY DEF Objectives, preferenceFunction, IsPartial
<1>12. \A walk, g_score : Plan(walk, g_score)' = Plan(walk, g_score)
  BY <1>11 DEF Plan, Mapped
<1>13. \A plan : IsPlan(plan)' <=> IsPlan(plan)
  BY <1>10, <1>12 DEF IsPlan
<1> QED
  BY <1>8, <1>10, <1>12, <1>13

\* So are the product, and what was planned and written.
LEMMA SamePlans ==
    /\ UNCHANGED <<ts, dfas>> => SymbolicProductGraph' = SymbolicProductGraph
    /\ UNCHANGED plan_set => FrontFile' = FrontFile /\ \A i : PlanFile(i)' = PlanFile(i)
<1>1. UNCHANGED <<ts, dfas>> => SymbolicProductGraph' = SymbolicProductGraph
  BY DEF SymbolicProductGraph
<1>2. UNCHANGED plan_set => FrontFile' = FrontFile /\ \A i : PlanFile(i)' = PlanFile(i)
  BY DEF FrontFile, PlanFile
<1> QED
  BY <1>1, <1>2

\* What is planned in does not change.
LEMMA StillBegun ==
    ASSUME Begun, UNCHANGED <<m_sym_graph, dfas, ts, task>>,
           phase' \in {"planning", "writing", "ended"},
           Walked', Planned', Filed',
           phase' = "planning" => plan_set' = <<>> /\ written' = 0 /\ DOMAIN files' = {}
    PROVE  Begun'
BY SamePlans DEF Begun

LEMMA WalksKept ==
    ASSUME Walked, UNCHANGED <<search_vars, dfas, ts, task>>
    PROVE  Walked'
<1>1. \A walk : IsWalk(walk)' <=> IsWalk(walk)
  BY SameWalks DEF search_vars
<1>2. \A walk : Solves(walk)' <=> Solves(walk)
  BY SameWalks DEF search_vars
<1> QED
  BY <1>1, <1>2 DEF Walked, search_vars

LEMMA PlansKept ==
    ASSUME Planned, UNCHANGED <<m_sym_graph, dfas, ts, task, plan_set>>, written' \in 0 .. Len(plan_set)
    PROVE  Planned'
<1>1. \A plan : IsPlan(plan)' <=> IsPlan(plan)
  BY SameWalks
<1> QED
  BY <1>1 DEF Planned

LEMMA FilesAreKept ==
    ASSUME Filed, UNCHANGED <<plan_set, files>>, phase' = phase \/ phase' = "ended"
    PROVE  Filed'
<1>1. FrontFile' = FrontFile /\ \A i : PlanFile(i)' = PlanFile(i)
  BY SamePlans
<1> QED
  BY <1>1 DEF Filed

\* A walk is popped.
LEMMA SearchKeepsBegun ==
    ASSUME LInv, Begun, Search
    PROVE  Begun'
<1>1. /\ phase = "planning" /\ plan_set = <<>> /\ written = 0 /\ DOMAIN files = {}
      /\ UNCHANGED <<task, ts, dfas, written_vars>>
  BY DEF Search, Begun
<1>2. PICK walk \in open_set : SkipPruned(walk) \/ ReachGoal(walk) \/ Expand(walk)
  BY DEF Search
<1>3. /\ m_sym_graph' = m_sym_graph /\ phase' \in {"planning", "ended"}
  BY <1>1, <1>2 DEF SkipPruned, ReachGoal, Expand, Exit
<1>4. Walked /\ IsWalk(walk) /\ at(walk) \in WideNode(m_sym_graph)
  BY <1>2, WalksHaveNodes DEF Begun, Walked
<1>5. /\ \A w : IsWalk(w)' <=> IsWalk(w)
      /\ \A w : Solves(w)' <=> Solves(w)
  BY <1>1, <1>3, SameWalks
<1>6. DOMAIN Closed(walk) = DOMAIN g_2_min \cup {at(walk)}
  BY DEF Closed
<1>7. \A w \in open_set' : IsWalk(w)
  <2>1. CASE SkipPruned(walk) \/ ReachGoal(walk)
    BY <1>4, <2>1 DEF SkipPruned, ReachGoal, Walked
  <2>2. CASE Expand(walk)
    <3>1. Ready
      BY DEF Ready, Begun
    <3>2. \A w \in Extensions(walk) : IsWalk(w)
      BY <1>4, <3>1, ExtensionsAreWalks
    <3>3. open_set' \subseteq open_set \cup Extensions(walk)
      BY <2>2 DEF Expand
    <3> QED
      BY <1>4, <3>2, <3>3 DEF Walked
  <2> QED
    BY <1>2, <2>1, <2>2
<1>8. \A n \in DOMAIN g_2_min' : n \in WideNode(m_sym_graph)
  <2>1. g_2_min' = g_2_min \/ g_2_min' = Closed(walk)
    BY <1>2 DEF SkipPruned, ReachGoal, Expand
  <2> QED
    BY <1>4, <1>6, <2>1 DEF Walked
<1>9. \E S : solutions' \in Seq(S) /\ \A w \in S : Solves(w)
  <2>1. PICK S : solutions \in Seq(S) /\ \A w \in S : Solves(w)
    BY <1>4 DEF Walked
  <2>2. CASE solutions' = solutions
    BY <2>1, <2>2
  <2>3. CASE ReachGoal(walk)
    <3>1. Solves(walk) /\ solutions' = Append(solutions, walk)
      BY <1>4, <2>3 DEF ReachGoal, Solves
    <3>2. solutions \in Seq(S \cup {walk})
      BY <2>1
    <3>3. solutions' \in Seq(S \cup {walk})
      BY <3>1, <3>2
    <3> QED
      BY <2>1, <3>1, <3>3
  <2> QED
    BY <1>2, <2>2, <2>3 DEF SkipPruned, Expand
<1>10. Walked'
  BY <1>3, <1>5, <1>7, <1>8, <1>9 DEF Walked
<1>11. Planned'
  <2>1. written' \in 0 .. Len(plan_set) /\ UNCHANGED plan_set
    BY <1>1 DEF Begun, Planned, written_vars
  <2> QED
    BY <1>1, <1>3, <2>1, PlansKept DEF Begun
<1>12. Filed'
  BY <1>1, <1>3, FilesAreKept DEF Begun, written_vars
<1> QED
  BY <1>1, <1>3, <1>10, <1>11, <1>12, StillBegun DEF written_vars

\* The plans are those of the solutions.
LEMMA EndPlanKeepsBegun ==
    ASSUME Begun, EndPlan
    PROVE  Begun'
<1>1. /\ phase = "planning" /\ phase' = "writing" /\ written = 0 /\ DOMAIN files = {}
      /\ UNCHANGED <<task, ts, dfas, search_vars, written, files>>
      /\ plan_set' = PlanSet(solutions)
  BY DEF EndPlan, Begun
<1>2. PICK S : solutions \in Seq(S) /\ \A walk \in S : Solves(walk)
  BY DEF Begun, Walked
<1> DEFINE reversed == Reverse(solutions)
           n == Len(solutions)
<1>3. n \in Nat /\ DOMAIN solutions = 1 .. n /\ \A k \in 1 .. n : reversed[k] \in S
  <2>1. n \in Nat /\ DOMAIN solutions = 1 .. n
    BY <1>2
  <2>2. ASSUME NEW k \in 1 .. n PROVE reversed[k] \in S
    <3>1. reversed[k] = solutions[(n - k) + 1] /\ (n - k) + 1 \in 1 .. n
      BY <2>1 DEF Reverse
    <3> QED
      BY <1>2, <2>1, <3>1
  <2> QED
    BY <2>1, <2>2
<1>4. plan_set' = [k \in 1 .. n |-> Plan(reversed[k], reversed[k].g_score)]
  BY <1>1, <1>3 DEF PlanSet
<1> HIDE DEF reversed, n
<1>5. DOMAIN plan_set' = 1 .. n /\ \A k \in 1 .. n : IsPlan(plan_set'[k])
  BY <1>2, <1>3, <1>4 DEF IsPlan
<1>6. Len(plan_set') = n
  <2> DEFINE v == plan_set'
  <2>1. v = [k \in 1 .. n |-> v[k]]
    BY <1>4
  <2> HIDE DEF v
  <2>2. v \in [1 .. n -> {v[k] : k \in 1 .. n}]
    BY <2>1
  <2>3. v \in Seq({v[k] : k \in 1 .. n})
    BY <1>3, <2>2
  <2>4. Len(v) = n
    BY <1>3, <2>1, <2>3
  <2> QED
    BY <2>4 DEF v
<1>7. \A plan : IsPlan(plan)' <=> IsPlan(plan)
  BY <1>1, SameWalks DEF search_vars
<1>8. Planned'
  <2>1. written' \in 0 .. n
    BY <1>1, <1>3
  <2> QED
    BY <1>3, <1>5, <1>6, <1>7, <2>1 DEF Planned
<1>9. Filed'
  BY <1>1 DEF Filed
<1>10. Walked'
  BY <1>1, WalksKept DEF Begun
<1> QED
  BY <1>1, <1>8, <1>9, <1>10, StillBegun DEF search_vars

\* A plan is filed as itself.
LEMMA WritePlanKeepsBegun ==
    ASSUME Begun, WritePlan
    PROVE  Begun'
<1>1. /\ phase = "writing" /\ written < Len(plan_set) /\ written' = written + 1
      /\ UNCHANGED <<phase, task, ts, dfas, search_vars, plan_set>>
  BY DEF WritePlan, main_vars
<1>2. PICK n \in Nat : DOMAIN plan_set = 1 .. n /\ Len(plan_set) = n /\ written \in 0 .. n
  BY DEF Begun, Planned
<1>3. written \in Nat /\ written + 1 \in DOMAIN plan_set /\ written' \in 0 .. Len(plan_set)
  BY <1>1, <1>2
<1>4. Planned'
  BY <1>1, <1>3, PlansKept DEF Begun, search_vars
<1> DEFINE path == PathTo("plan-directory", "plan-file-template", written)
<1>5. Len(path) > 1
  <2> DEFINE label == templateToLabel(get("plan-file-template"), written)
             directory == get("plan-directory")
  <2>1. \E x : label = <<x>> \/ label = <<x, written>>
    BY DEF templateToLabel
  <2>2. path = <<directory>> \o label
    BY DEF PathTo
  <2> HIDE DEF label, directory, path
  <2>3. PICK x : label = <<x>> \/ label = <<x, written>>
    BY <2>1
  <2>4. label \in Seq({x, written, directory}) /\ Len(label) \in {1, 2} /\ <<directory>> \in Seq({x, written, directory})
    <3>1. CASE label = <<x>>
      BY <3>1
    <3>2. CASE label = <<x, written>>
      BY <3>2
    <3> QED
      BY <2>3, <3>1, <3>2
  <2>5. Len(path) = Len(<<directory>>) + Len(label) /\ Len(<<directory>>) = 1
    BY <2>2, <2>4
  <2> QED
    BY <2>4, <2>5
<1>6. \/ files' = files
      \/ files' = [f \in DOMAIN files \cup {path} |-> IF f = path THEN PlanFile(written) ELSE files[f]]
  BY DEF WritePlan, Written
<1> HIDE DEF path
<1>7. Filed'
  <2>1. FrontFile' = FrontFile /\ \A i : PlanFile(i)' = PlanFile(i)
    BY <1>1, SamePlans
  <2>2. ASSUME NEW f \in DOMAIN files'
        PROVE  Len(f) > 1 /\ \E i \in Nat : i + 1 \in DOMAIN plan_set /\ files'[f] = PlanFile(i)
    <3>1. CASE f \in DOMAIN files /\ files'[f] = files[f]
      BY <1>1, <3>1 DEF Begun, Filed
    <3>2. CASE f = path /\ files'[f] = PlanFile(written)
      BY <1>3, <1>5, <3>2
    <3> QED
      BY <1>6, <3>1, <3>2
  <2> QED
    BY <1>1, <2>1, <2>2 DEF Filed
<1>8. Walked'
  BY <1>1, WalksKept DEF Begun
<1> QED
  BY <1>1, <1>4, <1>7, <1>8, StillBegun DEF search_vars

\* The front is filed last.
LEMMA FinishKeepsBegun ==
    ASSUME Begun, Finish
    PROVE  Begun'
<1>1. /\ phase = "writing" /\ phase' = "ended"
      /\ UNCHANGED <<task, ts, dfas, search_vars, plan_set, written>>
  BY DEF Finish, Exit
<1>2. Planned'
  BY <1>1, PlansKept DEF Begun, Planned, search_vars
<1> DEFINE path == <<get("pareto-front-filepath")>>
<1>3. ~ (Len(path) > 1)
  OBVIOUS
<1>4. \/ files' = files
      \/ files' = [f \in DOMAIN files \cup {path} |-> IF f = path THEN FrontFile ELSE files[f]]
  BY DEF Finish, Written
<1> HIDE DEF path
<1>5. Filed'
  <2>1. FrontFile' = FrontFile /\ \A i : PlanFile(i)' = PlanFile(i)
    BY <1>1, SamePlans
  <2>2. ASSUME NEW f \in DOMAIN files'
        PROVE  /\ Len(f) > 1 => \E i \in Nat : i + 1 \in DOMAIN plan_set /\ files'[f] = PlanFile(i)
               /\ ~ (Len(f) > 1) => files'[f] = FrontFile
    <3>1. CASE f \in DOMAIN files /\ files'[f] = files[f]
      BY <1>1, <3>1 DEF Begun, Filed
    <3>2. CASE f = path /\ files'[f] = FrontFile
      BY <1>3, <3>2
    <3> QED
      BY <1>4, <3>1, <3>2
  <2> QED
    BY <1>1, <2>1, <2>2 DEF Filed
<1>6. Walked'
  BY <1>1, WalksKept DEF Begun
<1> QED
  BY <1>1, <1>2, <1>5, <1>6, StillBegun DEF search_vars

\* The search begins where there is a task.
LEMMA FirstAtAnyTime == Ready => IsWalk(Walk(<<init_node(m_sym_graph)>>, <<>>, NoCost))
BY FirstIsAWalk

LEMMA BeginPlanKeepsTInv ==
    ASSUME IInv, SInv, LInv, TInv, BeginPlan
    PROVE  TInv'
<1>1. /\ phase = "loading" /\ Asked /\ NotBegun
      /\ UNCHANGED <<task, answers, ts, dfas, combined_alphabet, g_2_min, g_2_min_goal, solutions, written_vars>>
      /\ UNCHANGED loader_vars
  BY DEF BeginPlan, TInv, Begun
<1>2. Asked' /\ combined_alphabet' = UNION {dfas'[i].m_alphabet : i \in DOMAIN dfas'}
  BY <1>1 DEF Asked, TInv
<1>3. CASE combined_alphabet \subseteq ts.declared
  <2>1. /\ phase' = "planning" /\ exit' = exit /\ m_sym_graph' = SymbolicProductGraph
        /\ open_set' = {Walk(<<init_node(SymbolicProductGraph)>>, <<>>, NoCost)}
    BY <1>3 DEF BeginPlan
  <2>2. SymbolicProductGraph' = SymbolicProductGraph
    BY <1>1, SamePlans
  <2>3. dfas # <<>>
    <3>1. PICK v \in Nat \ {0} : Answer(Options(task.program), answers, "n-dfas") = Given(v)
      BY <1>1, TasksAreAskedFor DEF Asked, IInv
    <3>2. get("n-dfas") = v
      BY <3>1 DEF get, Given
    <3>3. Len(dfas) >= v
      BY <3>2 DEF BeginPlan
    <3> QED
      BY <3>3
  <2>4. Ready'
    <3>1. LInv'
      BY <1>1, NothingRead DEF LInv
    <3> QED
      BY <1>1, <2>1, <2>2, <2>3, <3>1 DEF Ready
  <2>5. (Ready => IsWalk(Walk(<<init_node(m_sym_graph)>>, <<>>, NoCost)))'
    BY FirstAtAnyTime, PTL
  <2>6. \A walk \in open_set' : IsWalk(walk)'
    <3>1. \A walk \in open_set' : walk = Walk(<<init_node(m_sym_graph)>>, <<>>, NoCost)'
      BY <2>1
    <3> QED
      BY <2>4, <2>5, <3>1
  <2>7. Walked'
    <3>1. DOMAIN g_2_min' = {} /\ solutions' = <<>>
      BY <1>1 DEF NotBegun
    <3>2. solutions' \in Seq({}) /\ \A walk \in {} : FALSE
      BY <3>1
    <3> QED
      BY <2>6, <3>1, <3>2 DEF Walked
  <2>8. plan_set' = <<>> /\ written' = 0 /\ DOMAIN files' = {}
    BY <1>1 DEF NotBegun, written_vars
  <2>9. Planned' /\ Filed'
    <3>1. DOMAIN plan_set' = 1 .. 0 /\ Len(plan_set') = 0 /\ written' \in 0 .. 0 /\ 0 \in Nat
      BY <2>8
    <3>2. Planned'
      BY <3>1 DEF Planned
    <3>3. Filed'
      BY <2>8 DEF Filed
    <3> QED
      BY <3>2, <3>3
  <2>10. Begun'
    BY <1>1, <2>1, <2>2, <2>3, <2>7, <2>8, <2>9 DEF Begun
  <2> QED
    BY <1>1, <1>2, <2>1, <2>10 DEF TInv
<1>4. CASE ~ (combined_alphabet \subseteq ts.declared)
  <2>1. phase' = "ended" /\ exit' = "exit 1" /\ UNCHANGED <<m_sym_graph, open_set>>
    BY <1>4 DEF BeginPlan, Exit
  <2>2. NotBegun'
    BY <1>1, <2>1 DEF NotBegun, written_vars
  <2> QED
    BY <1>2, <2>1, <2>2 DEF TInv
<1> QED
  BY <1>3, <1>4

\* Before the search, nothing is planned.
LEMMA LoadingKeepsTInv ==
    ASSUME IInv, TInv,
           ParseCommandLine \/ Generate \/ OpenDFA \/ LoadDFA \/ RefuseDFA \/ KeepDFA
    PROVE  TInv'
<1>1. NotBegun /\ UNCHANGED <<search_vars, written_vars, task>>
  <2>1. phase \in {"started", "generating", "loading"} /\ UNCHANGED <<search_vars, written_vars, task>>
    BY DEF ParseCommandLine, Generate, OpenDFA, LoadDFA, RefuseDFA, KeepDFA, main_vars
  <2> QED
    BY <2>1 DEF TInv, Begun
<1>2. phase' \in {"started", "generating", "loading", "ended"} => NotBegun'
  BY <1>1 DEF NotBegun, search_vars, written_vars
<1>3. CASE ParseCommandLine
  <2>1. answers' = Parsed[task].answers /\ UNCHANGED <<dfas, combined_alphabet>> /\ phase = "started"
    BY <1>3 DEF ParseCommandLine
  <2>2. Parsed[task].outcome \in Outcomes
    <3>1. PICK n \in Nat : ParsedUpTo(Options(task.program), NewParser(task.argv).m_help, n, Parsed[task])
      BY WhatIsParsed DEF IInv
    <3> QED
      BY <3>1 DEF ParsedUpTo
  <2>3. \/ /\ phase' = "ended" /\ exit' = Parsed[task].outcome /\ Parsed[task].outcome # "parsed"
        \/ /\ phase' = "ended" /\ exit' = enableHelp(Parsed[task].parser)
           /\ enableHelp(Parsed[task].parser) # "return"
        \/ /\ phase' = "generating" /\ exit' = exit /\ Parsed[task].outcome = "parsed"
           /\ enableHelp(Parsed[task].parser) = "return"
    BY <1>3 DEF ParseCommandLine, Exit
  <2>4. enableHelp(Parsed[task].parser) \in {"exit 0", "exit 1", "return"}
    BY DEF enableHelp
  <2>5. exit' \in {"running", "exit 0", "exit 1", "abort"} /\ (phase' = "ended" <=> exit' # "running")
    BY <2>1, <2>2, <2>3, <2>4 DEF Outcomes, TInv
  <2>6. phase' \notin {"started", "ended"} => Asked'
    BY <1>1, <2>1, <2>3 DEF Asked
  <2> QED
    BY <1>2, <2>1, <2>3, <2>5, <2>6 DEF TInv
<1>4. CASE Generate \/ OpenDFA \/ LoadDFA \/ RefuseDFA
  <2>1. /\ UNCHANGED <<answers, dfas, combined_alphabet>> /\ phase \in {"generating", "loading"}
        /\ \/ phase' \in {"generating", "loading"} /\ exit' = exit
           \/ phase' = "ended" /\ exit' \in {"abort", "exit 1"}
    BY <1>4 DEF Generate, OpenDFA, LoadDFA, RefuseDFA, main_vars, Exit
  <2>2. Asked'
    BY <1>1, <2>1 DEF TInv, Asked
  <2>3. exit' \in {"running", "exit 0", "exit 1", "abort"} /\ (phase' = "ended" <=> exit' # "running")
    BY <2>1 DEF TInv
  <2> QED
    BY <1>2, <2>1, <2>2, <2>3 DEF TInv
<1>5. CASE KeepDFA
  <2>1. /\ UNCHANGED <<answers, phase, exit>> /\ phase = "loading"
        /\ dfas' = Append(dfas, automaton)
        /\ combined_alphabet' = combined_alphabet \cup automaton.m_alphabet
    BY <1>5 DEF KeepDFA, Merged
  <2>2. PICK S : dfas \in Seq(S)
    BY DEF IInv, Kept
  <2>3. /\ DOMAIN dfas = 1 .. Len(dfas) /\ Len(dfas) \in Nat
        /\ DOMAIN dfas' = 1 .. Len(dfas) + 1 /\ dfas'[Len(dfas) + 1] = automaton
        /\ \A i \in 1 .. Len(dfas) : dfas'[i] = dfas[i]
    BY <2>1, <2>2
  <2>4. combined_alphabet' = UNION {dfas'[i].m_alphabet : i \in DOMAIN dfas'}
    <3> DEFINE n == Len(dfas)
    <3>1. \A i : i \in DOMAIN dfas' <=> i \in DOMAIN dfas \/ i = n + 1
      BY <2>3
    <3>2. combined_alphabet = UNION {dfas[i].m_alphabet : i \in DOMAIN dfas}
      BY DEF TInv
    <3>3. \A i \in DOMAIN dfas : dfas'[i] = dfas[i]
      BY <2>3
    <3>4. dfas'[n + 1] = automaton
      BY <2>3
    <3> HIDE DEF n
    <3> QED
      BY <2>1, <3>1, <3>2, <3>3, <3>4
  <2>5. Asked'
    BY <1>1, <2>1 DEF TInv, Asked
  <2> QED
    BY <1>2, <2>1, <2>4, <2>5 DEF TInv
<1> QED
  BY <1>3, <1>4, <1>5

\* A step that reads nothing keeps the rest.
LEMMA PlanningKeepsTInv ==
    ASSUME LInv, TInv, Search \/ EndPlan \/ WritePlan \/ Finish
    PROVE  TInv'
<1>1. Begun
  BY DEF Search, EndPlan, WritePlan, Finish, TInv, NotBegun
<1>2. Begun'
  BY <1>1, SearchKeepsBegun, EndPlanKeepsBegun, WritePlanKeepsBegun, FinishKeepsBegun
<1>3. /\ UNCHANGED <<task, answers, dfas, combined_alphabet>> /\ phase \in {"planning", "writing"}
      /\ \/ phase' \in {"planning", "writing"} /\ exit' = exit
         \/ phase' = "ended" /\ exit' \in {"exit 0", "exit 1"}
  <2>1. CASE Search
    <3>1. PICK walk \in open_set : SkipPruned(walk) \/ ReachGoal(walk) \/ Expand(walk)
      BY <2>1 DEF Search
    <3>2. \/ phase' = phase /\ exit' = exit
          \/ phase' = "ended" /\ exit' = "exit 1"
      BY <3>1 DEF SkipPruned, ReachGoal, Expand, Exit
    <3> QED
      BY <2>1, <3>2 DEF Search
  <2>2. CASE EndPlan \/ WritePlan \/ Finish
    BY <2>2 DEF EndPlan, WritePlan, Finish, Exit, main_vars
  <2> QED
    BY <2>1, <2>2
<1>4. Asked'
  BY <1>3 DEF TInv, Asked
<1>5. exit' \in {"running", "exit 0", "exit 1", "abort"} /\ (phase' = "ended" <=> exit' # "running")
  BY <1>3 DEF TInv
<1> QED
  BY <1>2, <1>3, <1>4, <1>5 DEF TInv

LEMMA NothingDone ==
    ASSUME TInv, UNCHANGED vars
    PROVE  TInv'
<1> USE DEF vars, main_vars, search_vars, written_vars
<1>1. Asked' <=> Asked
  BY DEF Asked
<1>2. NotBegun' <=> NotBegun
  BY DEF NotBegun
<1>3. Begun => Begun'
  <2> SUFFICES ASSUME Begun PROVE Begun'
    OBVIOUS
  <2>1. Walked' /\ Filed'
    BY WalksKept, FilesAreKept DEF Begun
  <2>2. Planned'
    BY PlansKept DEF Begun, Planned
  <2> QED
    BY <2>1, <2>2, StillBegun DEF Begun
<1> QED
  BY <1>1, <1>2, <1>3 DEF TInv

LEMMA InitTInv == Init => TInv
<1> SUFFICES ASSUME Init PROVE TInv
  OBVIOUS
<1>1. NotBegun
  BY DEF Init, NotBegun, NoMap
<1>2. combined_alphabet = UNION {dfas[i].m_alphabet : i \in DOMAIN dfas}
  <2>1. DOMAIN dfas = {} /\ combined_alphabet = {}
    BY DEF Init
  <2> QED
    BY <2>1
<1> QED
  BY <1>1, <1>2 DEF Init, TInv

LEMMA NextKeepsTInv == IInv /\ SInv /\ LInv /\ TInv /\ [Next]_vars => TInv'
<1> SUFFICES ASSUME IInv, SInv, LInv, TInv, [Next]_vars PROVE TInv'
  OBVIOUS
<1>1. CASE UNCHANGED vars
  BY <1>1, NothingDone
<1>2. CASE Terminated
  BY <1>2, NothingDone DEF Terminated
<1>3. CASE BeginPlan
  BY <1>3, BeginPlanKeepsTInv
<1> QED
  BY <1>1, <1>2, <1>3, LoadingKeepsTInv, PlanningKeepsTInv DEF Next

LEMMA TInvIsTyped == LInv /\ TInv => TypeOK
<1> SUFFICES ASSUME LInv, TInv PROVE TypeOK
  OBVIOUS
<1>1. \A walk \in open_set : Range(walk.node_path) \subseteq WideNode(m_sym_graph)
  BY WalksHaveNodes DEF TInv, NotBegun, Begun, Walked
<1>2. \A n \in DOMAIN g_2_min : n \in WideNode(m_sym_graph)
  BY DEF TInv, NotBegun, Begun, Walked
<1>3. written \in 0 .. Len(plan_set)
  <2>1. CASE NotBegun
    BY <2>1 DEF NotBegun
  <2>2. CASE Begun
    BY <2>2 DEF Begun, Planned
  <2> QED
    BY <2>1, <2>2 DEF TInv
<1> QED
  BY <1>1, <1>2, <1>3 DEF TInv, LInv, TypeOK

LEMMA AlwaysTInv == Spec => [](LInv /\ TInv)
<1>1. Init => TInv
  BY InitTInv
<1>2. Spec => [](IInv /\ SInv /\ LInv)
  BY ReadIsKept
<1>3. (IInv /\ SInv /\ LInv) /\ TInv /\ [Next]_vars => TInv'
  BY NextKeepsTInv
<1> QED
  BY <1>1, <1>2, <1>3, PTL DEF Spec

\* The planners' state: the alphabet the world observes is that of the automata,
\* walks and expanded nodes are nodes of the product of what was read, and the
\* program has ended if it says so.
THEOREM TypesAreKept == Spec => []TypeOK
BY AlwaysTInv, TInvIsTyped, PTL

-----------------------------------------------------------------------------
(***************************************************************************)
(* A plan that is filed is a run of the tasks.                             *)
(***************************************************************************)
\* One more element of a prefix.
LEMMA PrefixesAppend ==
    ASSUME NEW f, NEW k \in Nat
    PROVE  Append([i \in 1 .. k |-> f[i]], f[k + 1]) = [i \in 1 .. k + 1 |-> f[i]]
<1> DEFINE V == {f[i] : i \in 1 .. k + 1}
           v == [i \in 1 .. k |-> f[i]]
           w == [i \in 1 .. k + 1 |-> f[i]]
<1>1. k + 1 \in Nat /\ (\A i \in 1 .. k : i \in 1 .. k + 1) /\ k + 1 \in 1 .. k + 1
  OBVIOUS
<1>2. v \in [1 .. k -> V] /\ f[k + 1] \in V
  BY <1>1
<1>3. v \in Seq(V) /\ Len(v) = k
  BY <1>2
<1>4. \A i \in 1 .. k : v[i] = w[i]
  OBVIOUS
<1>5. w[k + 1] = f[k + 1] /\ DOMAIN w = 1 .. k + 1 /\ w = [i \in 1 .. k + 1 |-> w[i]]
  OBVIOUS
<1> DEFINE u == Append(v, f[k + 1])
<1> HIDE DEF V, v, w
<1>6. /\ u \in Seq(V) /\ Len(u) = k + 1 /\ u[k + 1] = f[k + 1]
      /\ \A i \in 1 .. k : u[i] = v[i]
  BY <1>2, <1>3
<1>7. u = [i \in 1 .. k + 1 |-> u[i]]
  BY <1>6
<1> HIDE DEF u
<1>8. \A i \in 1 .. k + 1 : u[i] = w[i]
  BY <1>4, <1>5, <1>6
<1>9. u = w
  BY <1>5, <1>7, <1>8
<1> QED
  BY <1>9 DEF u, v, w

\* The ways n automata can read a cell, letter by letter.
ReadStepwise(states, cell, n, h) ==
    /\ Readings(states, cell) = h[1 .. n] /\ h[1 .. 0] = {<<>>}
    /\ \A k \in 1 .. n : h[1 .. k] = ChosenOn(states, cell, h[1 .. k - 1], k)

LEMMA ReadingsAreStepwise ==
    ASSUME NEW n \in Nat, DOMAIN dfas = 1 .. n, NEW states, NEW cell
    PROVE  \E h : ReadStepwise(states, cell, n, h)
<1> DEFINE S == [states |-> states, cell |-> cell]
           list == [i \in DOMAIN dfas |-> i]
           Fold(g, T) == IF T = {} THEN {<<>>} ELSE ChosenOn(states, cell, g[T \ {Max(T)}], list[Max(T)])
<1>1. S.states = states /\ S.cell = cell /\ DOMAIN list = 1 .. n /\ \A k \in 1 .. n : list[k] = k
  OBVIOUS
<1>2. /\ FoldBase("readings", S) = {<<>>}
      /\ \A value, x : FoldStep("readings", S, value, x) = ChosenOn(states, cell, value, x)
  BY <1>1 DEF FoldBase, FoldStep
<1> HIDE DEF list, S
<1>3. \A g : FoldsTo("readings", S, list, n, g) <=> g = [T \in SUBSET DOMAIN list |-> Fold(g, T)]
  <2> SUFFICES ASSUME NEW g
               PROVE  FoldsTo("readings", S, list, n, g) <=> g = [T \in SUBSET DOMAIN list |-> Fold(g, T)]
    OBVIOUS
  <2>1. \A T : Fold(g, T) = IF T = {} THEN FoldBase("readings", S)
                            ELSE FoldStep("readings", S, g[T \ {Max(T)}], list[Max(T)])
    BY <1>2
  <2> HIDE DEF Fold
  <2> QED
    BY <1>1, <2>1 DEF FoldsTo
<1>4. \E g : g = [T \in SUBSET DOMAIN list |-> Fold(g, T)]
  BY <1>3, FoldIsSolved
<1>5. PICK h : h = [T \in SUBSET DOMAIN list |-> Fold(h, T)] /\ Readings(states, cell) = h[DOMAIN list]
  BY <1>4 DEF list, ChosenOn, Readings, Ways, FoldLeft, MapThenFoldSet
<1>6. h[1 .. 0] = {<<>>} /\ \A k \in 1 .. n : h[1 .. k] = ChosenOn(states, cell, h[1 .. k - 1], list[k])
  <2>1. FoldsTo("readings", S, list, n, h)
    BY <1>3, <1>5
  <2> HIDE DEF Fold
  <2>2. FoldsStepwise("readings", S, list, n, h)
    BY <2>1, PrefixValues
  <2>3. h[1 .. 0] = {<<>>}
    BY <1>2, <2>2 DEF FoldsStepwise
  <2>4. \A k \in 1 .. n : h[1 .. k] = ChosenOn(states, cell, h[1 .. k - 1], list[k])
    BY <1>2, <2>2 DEF FoldsStepwise
  <2> QED
    BY <2>3, <2>4
<1>7. ASSUME NEW k \in 1 .. n PROVE h[1 .. k] = ChosenOn(states, cell, h[1 .. k - 1], k)
  BY <1>1, <1>6
<1> QED
  BY <1>1, <1>5, <1>6, <1>7 DEF ReadStepwise

\* What the automata can read together is chosen letter by letter.
LEMMA ReadingsAreChosen ==
    ASSUME NEW n \in Nat, DOMAIN dfas = 1 .. n,
           NEW states, NEW cell, NEW reading, IsReading(states, cell, reading)
    PROVE  reading \in Readings(states, cell)
<1>1. PICK h : ReadStepwise(states, cell, n, h)
  BY ReadingsAreStepwise
<1> DEFINE Holds(k) == [i \in 1 .. k |-> reading[i]] \in h[1 .. k]
           Missed == {k \in 0 .. n : ~ Holds(k)}
<1>2. Holds(0)
  <2>1. [i \in 1 .. 0 |-> reading[i]] = <<>>
    OBVIOUS
  <2> QED
    BY <1>1, <2>1 DEF ReadStepwise
<1>3. ASSUME NEW k \in 0 .. n, k # n, Holds(k) PROVE Holds(k + 1)
  <2>1. k \in Nat /\ k + 1 \in 1 .. n /\ (k + 1) - 1 = k
    BY <1>3
  <2>2. h[1 .. k + 1] = ChosenOn(states, cell, h[1 .. k], k + 1)
    <3>1. h[1 .. k + 1] = ChosenOn(states, cell, h[1 .. (k + 1) - 1], k + 1)
      BY <1>1, <2>1 DEF ReadStepwise
    <3> QED
      BY <2>1, <3>1
  <2>3. reading[k + 1] \in Ways(states, cell, k + 1)
    BY <2>1 DEF IsReading
  <2>4. Append([i \in 1 .. k |-> reading[i]], reading[k + 1]) \in h[1 .. k + 1]
    BY <1>3, <2>2, <2>3 DEF ChosenOn
  <2> QED
    BY <2>1, <2>4, PrefixesAppend
<1>4. Missed = {}
  <2> SUFFICES ASSUME Missed # {} PROVE FALSE
    OBVIOUS
  <2>1. PICK l \in Missed : \A k \in Missed : l <= k
    <3>1. Missed \in SUBSET Nat
      OBVIOUS
    <3> HIDE DEF Missed
    <3> QED
      BY <3>1, LeastNumber
  <2>2. l \in 0 .. n /\ ~ Holds(l)
    BY <2>1
  <2> HIDE DEF Holds
  <2>3. l # 0
    BY <1>2, <2>2
  <2>4. l - 1 \in 0 .. n /\ (l - 1) + 1 = l /\ ~ (l <= l - 1) /\ l - 1 # n
    BY <2>2, <2>3
  <2>5. Holds(l - 1)
    BY <2>1, <2>4
  <2>6. Holds((l - 1) + 1)
    BY <1>3, <2>4, <2>5
  <2> QED
    BY <2>2, <2>4, <2>6
<1>5. Holds(n)
  BY <1>4
<1>6. reading = [i \in 1 .. n |-> reading[i]]
  BY DEF IsReading
<1> QED
  BY <1>1, <1>5, <1>6 DEF ReadStepwise

\* A run that goes on along a plan is one of those that do.
LEMMA RunsGoAlong ==
    ASSUME NEW n \in Nat, DOMAIN dfas = 1 .. n, NEW plan, NEW k, NEW run, NEW next,
           GoesOn(run, plan.action_sequence[k], next),
           next.cell = plan.state_sequence[k + 1]
    PROVE  next \in MovedAlong(run, plan, k)
<1>1. PICK c \in MovesOf(run) : \E reading :
          /\ IsReading(run.states, c.dst, reading)
          /\ c.edge.action = plan.action_sequence[k] /\ next = Moved(run, c, reading)
  BY DEF GoesOn
<1>2. PICK reading :
          /\ IsReading(run.states, c.dst, reading)
          /\ c.edge.action = plan.action_sequence[k] /\ next = Moved(run, c, reading)
  BY <1>1
<1>3. reading \in Readings(run.states, c.dst)
  BY <1>2, ReadingsAreChosen
<1>4. next.cell = c.dst
  BY <1>2 DEF Moved
<1>5. c \in {x \in MovesOf(run) : /\ x.dst = plan.state_sequence[k + 1]
                                  /\ x.edge.action = plan.action_sequence[k]}
  BY <1>2, <1>4
<1> QED
  BY <1>2, <1>3, <1>5 DEF MovedAlong

\* The runs along a plan of N steps, step by step.
MovesStepwise(plan, N, h) ==
    /\ RunsAlong(plan) = h[1 .. N] /\ h[1 .. 0] = {Start}
    /\ \A k \in 1 .. N : h[1 .. k] = AllMoved(plan, h[1 .. k - 1], k)

LEMMA RunsAreMoved ==
    ASSUME NEW plan, NEW N \in Nat, DOMAIN plan.action_sequence = 1 .. N
    PROVE  \E h : MovesStepwise(plan, N, h)
<1> DEFINE list == [k \in DOMAIN plan.action_sequence |-> k]
           Fold(g, T) == IF T = {} THEN {Start} ELSE AllMoved(plan, g[T \ {Max(T)}], list[Max(T)])
<1>1. DOMAIN list = 1 .. N /\ \A k \in 1 .. N : list[k] = k
  OBVIOUS
<1>2. /\ FoldBase("runs", plan) = {Start}
      /\ \A value, x : FoldStep("runs", plan, value, x) = AllMoved(plan, value, x)
  BY DEF FoldBase, FoldStep
<1> HIDE DEF list
<1>3. \A g : FoldsTo("runs", plan, list, N, g) <=> g = [T \in SUBSET DOMAIN list |-> Fold(g, T)]
  <2> SUFFICES ASSUME NEW g
               PROVE  FoldsTo("runs", plan, list, N, g) <=> g = [T \in SUBSET DOMAIN list |-> Fold(g, T)]
    OBVIOUS
  <2>1. \A T : Fold(g, T) = IF T = {} THEN FoldBase("runs", plan)
                            ELSE FoldStep("runs", plan, g[T \ {Max(T)}], list[Max(T)])
    BY <1>2
  <2> HIDE DEF Fold
  <2> QED
    BY <1>1, <2>1 DEF FoldsTo
<1>4. \E g : g = [T \in SUBSET DOMAIN list |-> Fold(g, T)]
  BY <1>3, FoldIsSolved
<1>5. PICK h : h = [T \in SUBSET DOMAIN list |-> Fold(h, T)] /\ RunsAlong(plan) = h[DOMAIN list]
  BY <1>4 DEF list, AllMoved, RunsAlong, MovedAlong, FoldLeft, MapThenFoldSet
<1>6. h[1 .. 0] = {Start} /\ \A k \in 1 .. N : h[1 .. k] = AllMoved(plan, h[1 .. k - 1], list[k])
  <2>1. FoldsTo("runs", plan, list, N, h)
    BY <1>3, <1>5
  <2>2. /\ h[1 .. 0] = FoldBase("runs", plan)
        /\ \A k \in 1 .. N : h[1 .. k] = FoldStep("runs", plan, h[1 .. k - 1], list[k])
    BY <2>1, PrefixValues DEF FoldsStepwise
  <2>3. \A k \in 1 .. N : h[1 .. k] = AllMoved(plan, h[1 .. k - 1], list[k])
    BY <1>2, <2>2, Zenon
  <2>4. h[1 .. 0] = {Start}
    BY <1>2, <2>2, Zenon
  <2> QED
    BY <2>3, <2>4
<1>7. ASSUME NEW k \in 1 .. N PROVE h[1 .. k] = AllMoved(plan, h[1 .. k - 1], k)
  BY <1>1, <1>6
<1> QED
  BY <1>1, <1>5, <1>6, <1>7 DEF MovesStepwise

\* The run of a walk goes along its plan.
LEMMA TracesGoAlong ==
    ASSUME NEW n \in Nat, DOMAIN dfas = 1 .. n, NEW walk, NEW runs, IsTrace(walk, runs),
           NEW plan, plan.action_sequence = walk.action_path,
           \A k \in 1 .. Len(walk.node_path) :
              plan.state_sequence[k] = unwrap(m_sym_graph, walk.node_path[k])[1]
    PROVE  runs[Len(walk.node_path)] \in RunsAlong(plan)
<1>1. PICK S : walk.action_path \in Seq(S)
  BY DEF IsTrace
<1>2. PICK N \in Nat :
      /\ Len(walk.node_path) = N + 1 /\ DOMAIN plan.action_sequence = 1 .. N
      /\ runs[1] = Start
      /\ \A k \in 1 .. N + 1 : runs[k].cell = plan.state_sequence[k]
      /\ \A k \in 1 .. N : GoesOn(runs[k], plan.action_sequence[k], runs[k + 1])
  BY <1>1 DEF IsTrace, Agrees
<1>3. PICK h : MovesStepwise(plan, N, h)
  BY <1>2, RunsAreMoved
<1> DEFINE Holds(k) == runs[k + 1] \in h[1 .. k]
           Missed == {k \in 0 .. N : ~ Holds(k)}
<1>4. Holds(0)
  BY <1>2, <1>3 DEF MovesStepwise
<1>5. ASSUME NEW k \in 0 .. N, k # N, Holds(k) PROVE Holds(k + 1)
  <2>1. k \in Nat /\ k + 1 \in 1 .. N /\ (k + 1) - 1 = k /\ (k + 1) + 1 \in 1 .. N + 1
    BY <1>2, <1>5
  <2>2. h[1 .. k + 1] = AllMoved(plan, h[1 .. k], k + 1)
    <3>1. h[1 .. k + 1] = AllMoved(plan, h[1 .. (k + 1) - 1], k + 1)
      BY <1>3, <2>1 DEF MovesStepwise
    <3> QED
      BY <2>1, <3>1
  <2>3. runs[(k + 1) + 1] \in MovedAlong(runs[k + 1], plan, k + 1)
    BY <1>2, <2>1, RunsGoAlong
  <2> QED
    BY <1>5, <2>2, <2>3 DEF AllMoved
<1>6. Missed = {}
  <2> SUFFICES ASSUME Missed # {} PROVE FALSE
    OBVIOUS
  <2>1. PICK l \in Missed : \A k \in Missed : l <= k
    <3>1. Missed \in SUBSET Nat
      BY <1>2
    <3> HIDE DEF Missed
    <3> QED
      BY <3>1, LeastNumber
  <2>2. l \in 0 .. N /\ ~ Holds(l)
    BY <2>1
  <2> HIDE DEF Holds
  <2>3. l # 0
    BY <1>4, <2>2
  <2>4. l - 1 \in 0 .. N /\ (l - 1) + 1 = l /\ ~ (l <= l - 1) /\ l - 1 # N
    BY <1>2, <2>2, <2>3
  <2>5. Holds(l - 1)
    BY <2>1, <2>4
  <2>6. Holds((l - 1) + 1)
    BY <1>5, <2>4, <2>5
  <2> QED
    BY <2>2, <2>4, <2>6
<1>7. Holds(N)
  BY <1>2, <1>6
<1> QED
  BY <1>2, <1>3, <1>7 DEF MovesStepwise

\* A run satisfies the tasks where it agrees with a goal.
LEMMA GoalsSatisfy ==
    ASSUME Ready, NEW node, NEW run, Agrees(node, run)
    PROVE  goal(node) <=> Satisfied(run)
<1>1. ASSUME NEW i \in DOMAIN dfas PROVE acc(m_sym_graph, node, i) <=> isAccepting(dfas[i], run.states[i])
  <2>1. m_sym_graph.automata[i] = GraphOf(dfas[i])
    BY ReadyToPlan
  <2>2. GraphOf(dfas[i]).accepting = dfas[i].m_accepting_states
    BY DEF GraphOf
  <2>3. unwrap(m_sym_graph, node)[i + 1] = run.states[i]
    BY DEF Agrees
  <2> QED
    BY <2>1, <2>2, <2>3 DEF acc, isAccepting
<1> QED
  BY <1>1 DEF goal, Satisfied

\* A plan that was made can be executed, at its cost.
LEMMA PlansCanBeExecuted ==
    ASSUME Ready, NEW made, IsPlan(made), NEW plan,
           plan.action_sequence = made.action_sequence, plan.state_sequence = made.state_sequence
    PROVE  /\ plan.state_sequence[1] = 0
           /\ \E run \in RunsAlong(plan) : Satisfied(run) /\ Objectives(run.g_score) = made.cost
<1>1. PICK walk : Solves(walk) /\ made = Plan(walk, walk.g_score)
  BY DEF IsPlan
<1>2. PICK runs : IsTrace(walk, runs)
  BY <1>1 DEF Solves, IsWalk
<1>3. PICK S : walk.action_path \in Seq(S)
  BY <1>2 DEF IsTrace
<1> DEFINE N == Len(walk.node_path)
           run == runs[N]
<1>4. /\ N \in Nat \ {0} /\ DOMAIN walk.node_path = 1 .. N /\ 1 \in 1 .. N /\ N \in 1 .. N
      /\ runs[1] = Start /\ walk.g_score = runs[N].g_score
      /\ \A k \in 1 .. N : Agrees(walk.node_path[k], runs[k])
  <2>1. walk.node_path \in Seq(WideNode(m_sym_graph)) /\ Len(walk.node_path) = Len(walk.action_path) + 1
    BY <1>2 DEF IsTrace
  <2>2. N \in Nat \ {0} /\ DOMAIN walk.node_path = 1 .. N
    BY <1>3, <2>1
  <2> QED
    BY <1>2, <2>2 DEF IsTrace
<1> HIDE DEF N
<1>5. /\ made.state_sequence = [k \in DOMAIN walk.node_path |-> unwrap(m_sym_graph, walk.node_path[k])[1]]
      /\ made.action_sequence = walk.action_path
      /\ made.cost = Objectives(walk.g_score)
  BY <1>1 DEF Plan, Mapped
<1>6. \A k \in 1 .. N : plan.state_sequence[k] = unwrap(m_sym_graph, walk.node_path[k])[1]
  BY <1>4, <1>5
<1>7. plan.state_sequence[1] = 0
  BY <1>4, <1>6 DEF Agrees, Start
<1>8. PICK n \in Nat \ {0} : DOMAIN dfas = 1 .. n
  BY ReadyToPlan
<1>9. run \in RunsAlong(plan)
  BY <1>2, <1>5, <1>6, <1>8, TracesGoAlong DEF N
<1>10. goal(walk.node_path[N])
  BY <1>1, <1>4 DEF Solves, at, Last, N
<1>11. Satisfied(run)
  BY <1>4, <1>10, GoalsSatisfy
<1>12. Objectives(run.g_score) = made.cost
  BY <1>4, <1>5
<1> QED
  BY <1>7, <1>9, <1>11, <1>12

\* The files are those of the plans that were made.
LEMMA TInvIsTrue == LInv /\ TInv => PlansDoWhatTheirTitlesSay
<1> SUFFICES ASSUME LInv, TInv, phase = "ended", answers # <<>>, has("plan-directory")
             PROVE  \A f \in {x \in DOMAIN files : Len(x) > 1 /\ x[1] = get("plan-directory")} :
                      LET plan == files[f]
                          number == plan.title[1]
                          costs == plan.title[2]
                      IN  /\ plan.state_sequence[1] = 0
                          /\ \E run \in RunsAlong(plan) : Satisfied(run) /\ Objectives(run.g_score) = costs
                          /\ has("pareto-front-filepath") /\ <<get("pareto-front-filepath")>> \in DOMAIN files =>
                               \A k \in Costs!Objectives :
                                   files[<<get("pareto-front-filepath")>>][k][number + 1] = costs[k]
  BY DEF PlansDoWhatTheirTitlesSay
<1> SUFFICES ASSUME NEW f \in DOMAIN files, Len(f) > 1
             PROVE  /\ files[f].state_sequence[1] = 0
                    /\ \E run \in RunsAlong(files[f]) :
                          Satisfied(run) /\ Objectives(run.g_score) = files[f].title[2]
                    /\ <<get("pareto-front-filepath")>> \in DOMAIN files =>
                         \A k \in Costs!Objectives :
                             files[<<get("pareto-front-filepath")>>][k][files[f].title[1] + 1] = files[f].title[2][k]
  OBVIOUS
<1>1. Begun
  BY DEF TInv, NotBegun
<1>2. Ready
  BY <1>1 DEF Ready, Begun
<1>3. PICK i \in Nat : i + 1 \in DOMAIN plan_set /\ files[f] = PlanFile(i)
  BY <1>1 DEF Begun, Filed
<1> DEFINE made == plan_set[i + 1]
           plan == files[f]
<1>4. IsPlan(made)
  BY <1>1, <1>3 DEF Begun, Planned
<1>5. /\ plan.title = <<i, made.cost>> /\ plan.title[1] = i /\ plan.title[2] = made.cost
      /\ plan.action_sequence = made.action_sequence /\ plan.state_sequence = made.state_sequence
  BY <1>3 DEF PlanFile
<1>6. ASSUME <<get("pareto-front-filepath")>> \in DOMAIN files, NEW k \in Costs!Objectives
      PROVE  files[<<get("pareto-front-filepath")>>][k][i + 1] = made.cost[k]
  <2> DEFINE path == <<get("pareto-front-filepath")>>
  <2>1. ~ (Len(path) > 1)
    OBVIOUS
  <2> HIDE DEF path
  <2>2. files[path] = FrontFile
    BY <1>1, <1>6, <2>1 DEF Begun, Filed, path
  <2>3. FrontFile[k][i + 1] = made.cost[k]
    BY <1>3 DEF FrontFile
  <2> QED
    BY <2>2, <2>3 DEF path
<1> HIDE DEF made, plan
<1>7. /\ plan.state_sequence[1] = 0
      /\ \E run \in RunsAlong(plan) : Satisfied(run) /\ Objectives(run.g_score) = made.cost
  BY <1>2, <1>4, <1>5, PlansCanBeExecuted
<1> QED
  BY <1>5, <1>6, <1>7 DEF plan

\* What is on the disk at the end is true: the actions of a plan file can be
\* executed, satisfy every task and cost what the title and the front say.
THEOREM PlansAreExecutable == Spec => []PlansDoWhatTheirTitlesSay
BY AlwaysTInv, TInvIsTrue, PTL

-----------------------------------------------------------------------------
(***************************************************************************)
(* No solution is missed when the substitutions are what is preferred.     *)
(***************************************************************************)
\* What the files of a command line say costs something, costs no less than
\* nothing.
NaturalMoves(w) == \A c \in Range(w.model.connections) : c.edge.cost \in Nat

NoCostIsNegative ==
    /\ NaturalMoves(DefaultWorld)
    /\ \A f \in DOMAIN task.disk.configs : NaturalMoves(task.disk.configs[f])
    /\ \A f \in DOMAIN task.disk.sub_maps : task.disk.sub_maps[f].costs \in Seq(Nat)

\* An automaton's connections cost no less than nothing.
Priced(m) ==
    \A n \in DOMAIN m.m_graph : \A j \in DOMAIN m.m_graph[n] :
        m.m_graph[n][j].edge.substitution_cost \in Nat

CInv ==
    /\ NoCostIsNegative
    /\ NaturalMoves(ts)
    /\ sub_data.costs \in Seq(Nat)
    /\ loading \in {"substituting", "loaded"} => Len(sub_data.from) = Len(sub_data.costs)
    /\ \E S : dfas \in Seq(S) /\ \A m \in S : Priced(m)

LEMMA InitCInv == Init /\ NoCostIsNegative => CInv
<1> SUFFICES ASSUME Init, NoCostIsNegative PROVE CInv
  OBVIOUS
<1>1. NaturalMoves(ts)
  BY DEF Init, NoCostIsNegative
<1>2. sub_data.costs = <<>> /\ loading = "idle"
  BY DEF Init, LoaderInit, NoSubMap
<1>3. dfas \in Seq({}) /\ \A m \in {} : Priced(m)
  BY DEF Init
<1> QED
  BY <1>1, <1>2, <1>3 DEF CInv

\* What was loaded costs what the files say.
LEMMA LoadedIsPriced ==
    ASSUME IInv, SInv, CInv, loading = "loaded"
    PROVE  Priced(automaton)
<1>1. ASSUME NEW n \in DOMAIN automaton.m_graph, NEW j \in DOMAIN automaton.m_graph[n]
      PROVE  automaton.m_graph[n][j].edge.substitution_cost \in Nat
  <2> DEFINE x == automaton.m_graph[n][j]
  <2>1. IsOriginal(n - 1, x) \/ IsSubstitute(n - 1, x)
    BY LoadedIsOfTheFile DEF SubstitutionsAreOfTheFile
  <2> HIDE DEF x
  <2>2. CASE IsOriginal(n - 1, x)
    <3>1. PICK k : x = [dst |-> data.connections[k].dst,
                        edge |-> PartialSatisfactionEdge(data.connections[k].label, 0)]
      BY <2>2 DEF IsOriginal
    <3>2. x.edge.substitution_cost = 0
      BY <3>1 DEF PartialSatisfactionEdge
    <3> QED
      BY <3>2 DEF x
  <2>3. CASE IsSubstitute(n - 1, x)
    <3>1. PICK k \in RowsOf(n - 1), s \in DOMAIN sub_data.from :
              x = [dst |-> data.connections[k].dst,
                   edge |-> PartialSatisfactionEdge(sub_data.to[s], sub_data.costs[s])]
      BY <2>3 DEF IsSubstitute
    <3>2. x.edge.substitution_cost = sub_data.costs[s]
      BY <3>1 DEF PartialSatisfactionEdge
    <3>3. sub_data.costs[s] \in Nat
      <4> DEFINE from == sub_data.from
                 costs == sub_data.costs
      <4>1. from \in Seq(Letters) /\ costs \in Seq(Nat) /\ Len(from) = Len(costs) /\ s \in DOMAIN from
        BY DEF SInv, CInv
      <4> HIDE DEF from, costs
      <4>2. costs[s] \in Nat
        BY <4>1
      <4> QED
        BY <4>2 DEF costs
    <3> QED
      BY <3>2, <3>3 DEF x
  <2> QED
    BY <2>1, <2>2, <2>3
<1> QED
  BY <1>1 DEF Priced

LEMMA NextKeepsCInv == IInv /\ SInv /\ CInv /\ [Next]_vars => CInv'
<1> SUFFICES ASSUME IInv, SInv, CInv, [Next]_vars PROVE CInv'
  OBVIOUS
<1>0. task' = task
  BY DEF Next, vars, main_vars, ParseCommandLine, Generate, OpenDFA, LoadDFA, RefuseDFA, KeepDFA, BeginPlan,
         Search, EndPlan, WritePlan, Finish, Terminated
<1>1. NoCostIsNegative'
  BY <1>0 DEF CInv, NoCostIsNegative
<1>2. ASSUME UNCHANGED <<loader_vars, dfas>>, NaturalMoves(ts') PROVE CInv'
  <2>1. NaturalMoves(ts)'
    BY <1>2 DEF NaturalMoves
  <2> QED
    BY <1>1, <1>2, <2>1 DEF CInv, loader_vars
<1>3. CASE LoadDFA
  <2>1. UNCHANGED <<ts, dfas, sub_data>>
    BY <1>3 DEF LoadDFA, Load, Connect, BeginSubstitution, Substitute, NextNode, main_vars
  <2>2. loading' \in {"substituting", "loaded"} => Len(sub_data.from) = Len(sub_data.costs)
    BY <1>3 DEF LoadDFA, Load, Connect, BeginSubstitution, Substitute, NextNode, CInv
  <2>3. NaturalMoves(ts)'
    BY <2>1 DEF CInv, NaturalMoves
  <2> QED
    BY <1>1, <2>1, <2>2, <2>3 DEF CInv
<1>4. CASE OpenDFA
  <2>1. CASE UNCHANGED loader_vars
    BY <1>2, <1>4, <2>1 DEF OpenDFA, CInv
  <2>2. ASSUME NEW sub, Open(task.disk.dfas[dfa_filepath], sub), sub.costs \in Seq(Nat)
        PROVE  CInv'
    <3>1. sub_data' = sub /\ loading' = "connecting"
      BY <2>2 DEF Open
    <3>2. UNCHANGED <<ts, dfas>>
      BY <1>4 DEF OpenDFA
    <3>3. NaturalMoves(ts)'
      BY <3>2 DEF CInv, NaturalMoves
    <3> QED
      BY <1>1, <2>2, <3>1, <3>2, <3>3 DEF CInv
  <2>3. NoSubMap.costs \in Seq(Nat)
    BY DEF NoSubMap
  <2>4. ASSUME IsPartial, sub_map_filepath \in DOMAIN task.disk.sub_maps
        PROVE  task.disk.sub_maps[sub_map_filepath].costs \in Seq(Nat)
    <3> DEFINE name == sub_map_filepath
    <3> HIDE DEF name
    <3>1. name \in DOMAIN task.disk.sub_maps => task.disk.sub_maps[name].costs \in Seq(Nat)
      BY DEF CInv, NoCostIsNegative
    <3> QED
      BY <2>4, <3>1 DEF name
  <2> DEFINE sub == IF IsPartial THEN task.disk.sub_maps[sub_map_filepath] ELSE NoSubMap
  <2>5. UNCHANGED loader_vars \/ (Open(task.disk.dfas[dfa_filepath], sub) /\ ~ (IsPartial /\ sub_map_filepath \notin DOMAIN task.disk.sub_maps))
    BY <1>4 DEF OpenDFA
  <2>6. CASE Open(task.disk.dfas[dfa_filepath], sub) /\ ~ (IsPartial /\ sub_map_filepath \notin DOMAIN task.disk.sub_maps)
    <3>1. sub.costs \in Seq(Nat)
      BY <2>3, <2>4, <2>6
    <3> HIDE DEF sub
    <3> QED
      BY <2>2, <2>6, <3>1
  <2> QED BY <2>1, <2>5, <2>6
<1>5. CASE KeepDFA
  <2>1. /\ dfas' = Append(dfas, automaton) /\ loading' = "idle" /\ loading = "loaded"
        /\ UNCHANGED <<sub_data, ts>>
    BY <1>5 DEF KeepDFA
  <2>2. Priced(automaton)
    BY <2>1, LoadedIsPriced
  <2>3. PICK S : dfas \in Seq(S) /\ \A m \in S : Priced(m)
    BY DEF CInv
  <2>4. dfas' \in Seq(S \cup {automaton})
    <3>1. dfas \in Seq(S \cup {automaton})
      BY <2>3
    <3> QED
      BY <2>1, <3>1
  <2>5. \A m \in S \cup {automaton} : Priced(m)
    BY <2>2, <2>3
  <2>6. \E T : dfas' \in Seq(T) /\ \A m \in T : Priced(m)
    BY <2>4, <2>5
  <2>7. NaturalMoves(ts)'
    BY <2>1 DEF CInv, NaturalMoves
  <2> QED
    BY <1>1, <2>1, <2>6, <2>7 DEF CInv
<1>6. CASE Generate
  <2>1. UNCHANGED <<loader_vars, dfas>>
    BY <1>6 DEF Generate
  <2>2. NaturalMoves(ts')
    <3>1. ts' = ts \/ (get("config-filepath") \in DOMAIN task.disk.configs
                        /\ ts' = task.disk.configs[get("config-filepath")])
      BY <1>6 DEF Generate
    <3> DEFINE name == get("config-filepath")
    <3> HIDE DEF name
    <3> QED
      BY <3>1 DEF CInv, NoCostIsNegative, name
  <2> QED
    BY <1>2, <2>1, <2>2
<1>7. CASE UNCHANGED <<loader_vars, dfas, ts>>
  BY <1>2, <1>7 DEF CInv
<1>8. ParseCommandLine \/ RefuseDFA \/ BeginPlan \/ EndPlan => UNCHANGED <<loader_vars, dfas, ts>>
  BY DEF ParseCommandLine, RefuseDFA, BeginPlan, EndPlan
<1>9. Search => UNCHANGED <<loader_vars, dfas, ts>>
  BY DEF Search
<1>10. WritePlan \/ Finish \/ Terminated \/ UNCHANGED vars => UNCHANGED <<loader_vars, dfas, ts>>
  BY DEF WritePlan, Finish, Terminated, vars, main_vars
<1> QED BY <1>3, <1>4, <1>5, <1>6, <1>7, <1>8, <1>9, <1>10 DEF Next

-----------------------------------------------------------------------------
(***************************************************************************)
(* The two objectives of the first program.                                *)
(***************************************************************************)
Both(g_score) == <<g_score.cost, WeightedSum(g_score.pcs)>>

\* A cost of a walk, and of an edge, of five tasks.
IsCharge(e) == e.cost \in Nat /\ e.pcs \in [1 .. 5 -> Nat]

IsScore(g) == g.cost \in Nat /\ (g.pcs = <<>> \/ g.pcs \in [1 .. 5 -> Nat])

IsPair(a) == a[1] \in Nat /\ a[2] \in Nat

Sum(a, b) == << a[1] + b[1], a[2] + b[2] >>

LEMMA SumOfNothing == WeightedSum(<<>>) = 0
<1> DEFINE v == [i \in DOMAIN <<>> |-> weights[i] * <<>>[i]]
<1>1. DOMAIN v = 1 .. 0
  OBVIOUS
<1>2. WeightedSum(<<>>) = Plus(v)
  BY DEF WeightedSum
<1> HIDE DEF v
<1>3. Symbolic!Plus(v) = Plus(v)
  BY DEF Symbolic!Plus, Plus, Symbolic!FoldLeft, FoldLeft, Symbolic!MapThenFoldSet, MapThenFoldSet, Symbolic!Max, Max
<1>4. PICK t : t[0] = 0 /\ t[0] = Symbolic!Plus(v)
  BY <1>1, Symbolic!PrefixSums
<1> QED
  BY <1>2, <1>3, <1>4

LEMMA SumOfFive ==
    ASSUME NEW pcs \in [1 .. 5 -> Nat]
    PROVE  WeightedSum(pcs) = pcs[1] + pcs[2] + pcs[3] + pcs[4] + 2 * pcs[5]
<1> DEFINE v == [i \in DOMAIN pcs |-> weights[i] * pcs[i]]
<1>1. /\ DOMAIN v = 1 .. 5 /\ v[1] = pcs[1] /\ v[2] = pcs[2] /\ v[3] = pcs[3] /\ v[4] = pcs[4] /\ v[5] = 2 * pcs[5]
  <2>1. DOMAIN v = 1 .. 5
    OBVIOUS
  <2>2. weights[1] = 1 /\ weights[2] = 1 /\ weights[3] = 1 /\ weights[4] = 1 /\ weights[5] = 2
    BY DEF weights
  <2>3. 1 \in DOMAIN pcs /\ 2 \in DOMAIN pcs /\ 3 \in DOMAIN pcs /\ 4 \in DOMAIN pcs /\ 5 \in DOMAIN pcs
    OBVIOUS
  <2>4. v[1] = 1 * pcs[1] /\ v[2] = 1 * pcs[2] /\ v[3] = 1 * pcs[3] /\ v[4] = 1 * pcs[4] /\ v[5] = 2 * pcs[5]
    BY <2>2, <2>3
  <2>5. pcs[1] \in Nat /\ pcs[2] \in Nat /\ pcs[3] \in Nat /\ pcs[4] \in Nat
    OBVIOUS
  <2> HIDE DEF v
  <2> QED
    BY <2>1, <2>4, <2>5
<1>2. WeightedSum(pcs) = Plus(v)
  BY DEF WeightedSum
<1> HIDE DEF v
<1>3. Symbolic!Plus(v) = Plus(v)
  BY DEF Symbolic!Plus, Plus, Symbolic!FoldLeft, FoldLeft, Symbolic!MapThenFoldSet, MapThenFoldSet, Symbolic!Max, Max
<1>4. PICK t : t[0] = 0 /\ (\A k \in 1 .. 5 : t[k] = t[k - 1] + v[k]) /\ t[5] = Symbolic!Plus(v)
  BY <1>1, Symbolic!PrefixSums
<1>5. t[1] = t[0] + v[1] /\ t[2] = t[1] + v[2] /\ t[3] = t[2] + v[3] /\ t[4] = t[3] + v[4] /\ t[5] = t[4] + v[5]
  <2>1. t[1] = t[1 - 1] + v[1] /\ t[2] = t[2 - 1] + v[2] /\ t[3] = t[3 - 1] + v[3] /\ t[4] = t[4 - 1] + v[4]
        /\ t[5] = t[5 - 1] + v[5]
    BY <1>4
  <2>2. 1 - 1 = 0 /\ 2 - 1 = 1 /\ 3 - 1 = 2 /\ 4 - 1 = 3 /\ 5 - 1 = 4
    OBVIOUS
  <2> QED
    BY <2>1, <2>2
<1>6. /\ pcs[1] \in Nat /\ pcs[2] \in Nat /\ pcs[3] \in Nat /\ pcs[4] \in Nat /\ pcs[5] \in Nat
  OBVIOUS
<1>7. t[5] = pcs[1] + pcs[2] + pcs[3] + pcs[4] + 2 * pcs[5]
  BY <1>1, <1>4, <1>5, <1>6
<1> QED
  BY <1>2, <1>3, <1>4, <1>7

\* What a walk costs is the sum of what its edges cost.
LEMMA CostsAdd ==
    ASSUME NEW g, IsScore(g), NEW e, IsCharge(e)
    PROVE  /\ IsScore(gScore(g, e))
           /\ IsPair(Both(g)) /\ IsPair(Both(e))
           /\ Both(gScore(g, e)) = Sum(Both(g), Both(e))
<1> DEFINE h == gScore(g, e)
<1>1. h.cost = g.cost + e.cost
      /\ h.pcs = IF g.pcs = <<>> THEN e.pcs ELSE [i \in DOMAIN g.pcs |-> g.pcs[i] + e.pcs[i]]
  BY DEF gScore
<1> HIDE DEF h
<1>2. e.cost \in Nat /\ g.cost \in Nat /\ h.cost \in Nat
  BY <1>1 DEF IsScore, IsCharge
<1> DEFINE s(x) == WeightedSum(x.pcs)
<1>3. s(e) \in Nat
  <2> DEFINE q == e.pcs
  <2>1. q \in [1 .. 5 -> Nat]
    BY DEF IsCharge
  <2> HIDE DEF q
  <2>2. WeightedSum(q) \in Nat
    BY <2>1, SumOfFive
  <2> QED
    BY <2>2 DEF q
<1>4. (h.pcs = <<>> \/ h.pcs \in [1 .. 5 -> Nat]) /\ s(g) \in Nat /\ s(h) = s(g) + s(e)
  <2>1. CASE g.pcs = <<>>
    <3>1. h.pcs = e.pcs /\ s(g) = 0
      BY <1>1, <2>1, SumOfNothing
    <3> QED
      BY <1>3, <3>1 DEF IsCharge
  <2>2. CASE g.pcs # <<>>
    <3> DEFINE p == g.pcs
               q == e.pcs
               r == h.pcs
    <3>1. p \in [1 .. 5 -> Nat] /\ q \in [1 .. 5 -> Nat] /\ r = [i \in DOMAIN p |-> p[i] + q[i]]
      BY <1>1, <2>2 DEF IsScore, IsCharge
    <3> HIDE DEF p, q, r
    <3>2. r \in [1 .. 5 -> Nat]
      BY <3>1
    <3>3. /\ r[1] = p[1] + q[1] /\ r[2] = p[2] + q[2] /\ r[3] = p[3] + q[3]
          /\ r[4] = p[4] + q[4] /\ r[5] = p[5] + q[5]
      BY <3>1
    <3>4. /\ p[1] \in Nat /\ p[2] \in Nat /\ p[3] \in Nat /\ p[4] \in Nat /\ p[5] \in Nat
          /\ q[1] \in Nat /\ q[2] \in Nat /\ q[3] \in Nat /\ q[4] \in Nat /\ q[5] \in Nat
      BY <3>1
    <3>5. /\ WeightedSum(p) = p[1] + p[2] + p[3] + p[4] + 2 * p[5]
          /\ WeightedSum(q) = q[1] + q[2] + q[3] + q[4] + 2 * q[5]
          /\ WeightedSum(r) = r[1] + r[2] + r[3] + r[4] + 2 * r[5]
      BY <3>1, <3>2, SumOfFive
    <3>6. WeightedSum(p) \in Nat /\ WeightedSum(r) = WeightedSum(p) + WeightedSum(q)
      BY <3>3, <3>4, <3>5
    <3> QED
      BY <3>2, <3>6 DEF p, q, r
  <2> QED
    BY <2>1, <2>2
<1> HIDE DEF s
<1>5. /\ Both(g)[1] = g.cost /\ Both(g)[2] = s(g)
      /\ Both(e)[1] = e.cost /\ Both(e)[2] = s(e)
      /\ Both(h) = <<h.cost, s(h)>>
  BY DEF Both, s
<1>6. IsPair(Both(g)) /\ IsPair(Both(e))
  BY <1>2, <1>3, <1>4, <1>5 DEF IsPair
<1>7. Both(h) = Sum(Both(g), Both(e))
  BY <1>1, <1>4, <1>5 DEF Sum
<1>8. IsScore(h)
  BY <1>2, <1>4 DEF IsScore
<1> QED
  BY <1>6, <1>7, <1>8 DEF h

-----------------------------------------------------------------------------
(***************************************************************************)
(* Who pays less pays no more later: what is lost when a walk is pruned,   *)
(* was found already or still is.                                          *)
(***************************************************************************)
(***************************************************************************)
(* A way to a goal is never lost: some walk that is no dearer is open on   *)
(* it, or a solution is no dearer.  This is so of any search that handles  *)
(* the walks it pops as BOA* does, whatever the walks are of.              *)
(***************************************************************************)
O(walk) == Both(walk.g_score)

\* A step from node to node, and what it costs.
Step(n, m, e) ==
    \E x \in Range(Connected(m_sym_graph, n)) :
        m = Destination(m_sym_graph, x) /\ e = Both(EdgeCost(n, Inherited(x)))

\* L steps from n[1] to n[L + 1], at no goal before, with what was paid by the
\* time of each node.
IsWay(n, c, L) ==
    /\ L \in Nat /\ \A k \in 1 .. L + 1 : IsPair(c[k])
    /\ \A k \in 1 .. L :
          /\ ~ goal(n[k])
          /\ \E e : IsPair(e) /\ Step(n[k], n[k + 1], e) /\ c[k + 1] = Sum(c[k], e)

IsPath(n, c, L) == IsWay(n, c, L) /\ goal(n[L + 1])

\* Who paid o need pay no more from y on than who had a has paid from x on.
Pays(o, x, a, y) == o[1] + x[1] <= a[1] + y[1] /\ o[2] + x[2] <= a[2] + y[2]

\* Of one who comes to the j-th node of a path and has paid a.
Solved(sols, a, c, L, j) == \E i \in DOMAIN sols : Pays(O(sols[i]), c[j], a, c[L + 1])

StillOpen(open, a, n, c, L, j, m) ==
    \E k \in m .. L + 1 : \E w \in open : at(w) = n[k] /\ Pays(O(w), c[j], a, c[k])

Ahead(open, sols, a, n, c, L, j, m) == Solved(sols, a, c, L, j) \/ StillOpen(open, a, n, c, L, j, m)

\* No path from a node is lost to one who has paid a.
Followed(open, sols, node, a) ==
    \A n, c, L : IsPath(n, c, L) =>
        \A j \in 1 .. L + 1 : n[j] = node => Ahead(open, sols, a, n, c, L, j, j + 1)

Scored(open, sols) ==
    /\ \A w \in open : IsPair(O(w))
    /\ \A i \in DOMAIN sols : IsPair(O(sols[i]))

\* A node that was expanded was at a cost that no open walk is below.
Looked(open, minimum, sols) ==
    \A node \in DOMAIN minimum :
        /\ minimum[node] \in Nat
        /\ \E a \in Nat : (\A w \in open : a <= O(w)[1]) /\ Followed(open, sols, node, <<a, minimum[node]>>)

\* What is kept when w is popped.
Keeps(open, sols, w, open2, sols2) ==
    /\ \A x \in open : x # w => x \in open2
    /\ \A i \in DOMAIN sols : i \in DOMAIN sols2 /\ sols2[i] = sols[i]

LEMMA PaysOn ==
    ASSUME NEW o, IsPair(o), NEW w, IsPair(w), NEW b, IsPair(b),
           NEW x, IsPair(x), NEW y, IsPair(y), NEW z, IsPair(z),
           Pays(w, x, b, y), Pays(o, y, w, z)
    PROVE  Pays(o, x, b, z)
<1>1. /\ o[1] \in Nat /\ w[1] \in Nat /\ b[1] \in Nat /\ x[1] \in Nat /\ y[1] \in Nat /\ z[1] \in Nat
      /\ o[2] \in Nat /\ w[2] \in Nat /\ b[2] \in Nat /\ x[2] \in Nat /\ y[2] \in Nat /\ z[2] \in Nat
      /\ w[1] + x[1] <= b[1] + y[1] /\ w[2] + x[2] <= b[2] + y[2]
      /\ o[1] + y[1] <= w[1] + z[1] /\ o[2] + y[2] <= w[2] + z[2]
  BY DEF IsPair, Pays
<1>2. o[1] + x[1] <= b[1] + z[1] /\ o[2] + x[2] <= b[2] + z[2]
  BY <1>1
<1> QED
  BY <1>2 DEF Pays

\* What was paid does not become less along a path.
LEMMA PathsOnlyCost ==
    ASSUME NEW n, NEW c, NEW L, IsWay(n, c, L), NEW j \in 1 .. L + 1
    PROVE  c[j][1] <= c[L + 1][1] /\ c[j][2] <= c[L + 1][2]
<1> DEFINE Holds(k) == c[j][1] <= c[k][1] /\ c[j][2] <= c[k][2]
           Missed == {k \in j .. L + 1 : ~ Holds(k)}
<1>1. L \in Nat /\ j \in Nat /\ j <= L + 1
  BY DEF IsWay
<1>2. \A k \in 1 .. L + 1 : c[k][1] \in Nat /\ c[k][2] \in Nat
  BY DEF IsWay, IsPair
<1>3. Holds(j)
  BY <1>2
<1>4. ASSUME NEW k \in j .. L, Holds(k) PROVE Holds(k + 1)
  <2>1. k \in 1 .. L /\ k \in 1 .. L + 1
    BY <1>1
  <2>2. PICK e : IsPair(e) /\ c[k + 1] = Sum(c[k], e)
    BY <2>1 DEF IsWay
  <2>3. /\ c[k + 1][1] = c[k][1] + e[1] /\ c[k + 1][2] = c[k][2] + e[2] /\ e[1] \in Nat /\ e[2] \in Nat
        /\ c[k][1] \in Nat /\ c[k][2] \in Nat /\ c[j][1] \in Nat /\ c[j][2] \in Nat
    BY <1>2, <2>1, <2>2 DEF Sum, IsPair
  <2>4. c[j][1] <= c[k][1] + e[1] /\ c[j][2] <= c[k][2] + e[2]
    BY <1>4, <2>3
  <2> QED
    BY <2>3, <2>4
<1>5. Missed = {}
  <2> SUFFICES ASSUME Missed # {} PROVE FALSE
    OBVIOUS
  <2>1. PICK l \in Missed : \A k \in Missed : l <= k
    <3>1. Missed \in SUBSET Nat
      BY <1>1
    <3> HIDE DEF Missed
    <3> QED
      BY <3>1, LeastNumber
  <2>2. l \in j .. L + 1 /\ ~ Holds(l)
    BY <2>1
  <2> HIDE DEF Holds
  <2>3. l # j
    BY <1>3, <2>2
  <2>4. l - 1 \in j .. L /\ l - 1 \in j .. L + 1 /\ (l - 1) + 1 = l /\ ~ (l <= l - 1)
    BY <1>1, <2>2, <2>3
  <2>5. Holds(l - 1)
    BY <2>1, <2>4
  <2>6. Holds((l - 1) + 1)
    BY <1>4, <2>4, <2>5
  <2> QED
    BY <2>2, <2>4, <2>6
<1>6. L + 1 \in j .. L + 1
  BY <1>1
<1> QED
  BY <1>5, <1>6

\* What is ahead of one who can pay on is ahead of the other.
LEMMA AheadOfBoth ==
    ASSUME NEW open, NEW sols, Scored(open, sols), NEW n, NEW c, NEW L, IsPath(n, c, L),
           NEW j \in 1 .. L + 1, NEW k \in 1 .. L + 1, NEW m \in 1 .. k + 1,
           NEW w, IsPair(w), NEW b, IsPair(b), Pays(w, c[j], b, c[k]),
           Ahead(open, sols, w, n, c, L, k, k + 1)
    PROVE  Ahead(open, sols, b, n, c, L, j, m)
<1>1. L \in Nat /\ \A i \in 1 .. L + 1 : IsPair(c[i])
  BY DEF IsPath, IsWay
<1>2. CASE Solved(sols, w, c, L, k)
  <2>1. PICK i \in DOMAIN sols : Pays(O(sols[i]), c[k], w, c[L + 1])
    BY <1>2 DEF Solved
  <2>2. IsPair(O(sols[i])) /\ L + 1 \in 1 .. L + 1
    BY <1>1 DEF Scored
  <2>3. Pays(O(sols[i]), c[j], b, c[L + 1])
    BY <1>1, <2>1, <2>2, PaysOn
  <2> QED
    BY <2>3 DEF Ahead, Solved
<1>3. CASE StillOpen(open, w, n, c, L, k, k + 1)
  <2>1. PICK i \in k + 1 .. L + 1 : \E x \in open : at(x) = n[i] /\ Pays(O(x), c[k], w, c[i])
    BY <1>3 DEF StillOpen
  <2>2. PICK x \in open : at(x) = n[i] /\ Pays(O(x), c[k], w, c[i])
    BY <2>1
  <2>3. IsPair(O(x)) /\ i \in 1 .. L + 1 /\ i \in m .. L + 1
    BY <1>1 DEF Scored
  <2>4. Pays(O(x), c[j], b, c[i])
    BY <1>1, <2>2, <2>3, PaysOn
  <2> QED
    BY <2>2, <2>3, <2>4 DEF Ahead, StillOpen
<1> QED
  BY <1>2, <1>3 DEF Ahead

\* What was ahead still is, if what is ahead of the popped walk is.
LEMMA HandedOver ==
    ASSUME NEW open, NEW sols, NEW open2, NEW sols2, NEW w, IsPair(O(w)),
           Scored(open2, sols2), Keeps(open, sols, w, open2, sols2),
           NEW n, NEW c, NEW L, IsPath(n, c, L),
           NEW j \in 1 .. L + 1, NEW m \in j .. j + 1, NEW b, IsPair(b),
           \A k \in m .. L + 1 : n[k] = at(w) => Ahead(open2, sols2, O(w), n, c, L, k, k + 1),
           Ahead(open, sols, b, n, c, L, j, m)
    PROVE  Ahead(open2, sols2, b, n, c, L, j, m)
<1>1. L \in Nat
  BY DEF IsPath, IsWay
<1>2. CASE Solved(sols, b, c, L, j)
  BY <1>2 DEF Solved, Keeps, Ahead
<1>3. CASE StillOpen(open, b, n, c, L, j, m)
  <2>1. PICK k \in m .. L + 1 : \E x \in open : at(x) = n[k] /\ Pays(O(x), c[j], b, c[k])
    BY <1>3 DEF StillOpen
  <2>2. PICK x \in open : at(x) = n[k] /\ Pays(O(x), c[j], b, c[k])
    BY <2>1
  <2>3. CASE x # w
    BY <2>2, <2>3 DEF Keeps, Ahead, StillOpen
  <2>4. CASE x = w
    <3>1. k \in 1 .. L + 1 /\ m \in 1 .. k + 1
      BY <1>1
    <3>2. Ahead(open2, sols2, O(w), n, c, L, k, k + 1)
      BY <2>2, <2>4
    <3> QED
      BY <2>2, <2>4, <3>1, <3>2, AheadOfBoth
  <2> QED
    BY <2>3, <2>4
<1> QED
  BY <1>2, <1>3 DEF Ahead

\* The ways in which a popped walk is handled.
Superseded(sols2, w) == \E i \in DOMAIN sols2 : O(sols2[i])[1] <= O(w)[1] /\ O(sols2[i])[2] <= O(w)[2]

Outdone(minimum, node, cost) == node \in DOMAIN minimum /\ minimum[node] <= cost

Expanded(minimum, open2, w) ==
    /\ ~ goal(at(w))
    /\ \A m, e : IsPair(e) /\ Step(at(w), m, e) =>
          \/ m = at(w) \/ Outdone(minimum, m, O(w)[2] + e[2])
          \/ \E x \in open2 : at(x) = m /\ O(x) = Sum(O(w), e)

Handled(minimum, w, open2, sols2) ==
    Superseded(sols2, w) \/ Outdone(minimum, at(w), O(w)[2]) \/ Expanded(minimum, open2, w)

\* What was ahead of one who paid no more than a walk, is ahead of the walk.
LEMMA AheadOfDearer ==
    ASSUME NEW open, NEW sols, NEW open2, NEW sols2, NEW w \in open,
           Scored(open, sols), Scored(open2, sols2), Keeps(open, sols, w, open2, sols2),
           NEW n, NEW c, NEW L, IsPath(n, c, L), NEW j \in 1 .. L + 1, NEW i \in 1 .. L + 1,
           \A k \in j + 1 .. L + 1 : n[k] = at(w) => Ahead(open2, sols2, O(w), n, c, L, k, k + 1),
           NEW a, IsPair(a), i \in j .. j + 1, Pays(a, c[j], O(w), c[i]),
           Ahead(open, sols, a, n, c, L, i, i + 1)
    PROVE  Ahead(open2, sols2, O(w), n, c, L, j, j + 1)
<1>1. L \in Nat /\ IsPair(O(w))
  BY DEF IsPath, IsWay, Scored
<1>2. \A k \in i + 1 .. L + 1 : n[k] = at(w) => Ahead(open2, sols2, O(w), n, c, L, k, k + 1)
  BY <1>1
<1>3. Ahead(open2, sols2, a, n, c, L, i, i + 1)
  <2>1. i + 1 \in i .. i + 1
    OBVIOUS
  <2> QED
    BY <1>1, <1>2, <2>1, HandedOver
<1>4. j + 1 \in 1 .. i + 1
  BY <1>1
<1> QED
  BY <1>1, <1>3, <1>4, AheadOfBoth

\* No path from the end of a popped walk is lost.
LEMMA PoppedIsFollowed ==
    ASSUME NEW open, NEW sols, NEW minimum, NEW open2, NEW sols2, NEW w \in open,
           Scored(open, sols), Scored(open2, sols2), Looked(open, minimum, sols),
           Keeps(open, sols, w, open2, sols2), Handled(minimum, w, open2, sols2)
    PROVE  Followed(open2, sols2, at(w), O(w))
<1> SUFFICES ASSUME NEW n, NEW c, NEW L, IsPath(n, c, L)
             PROVE  \A j \in 1 .. L + 1 : n[j] = at(w) => Ahead(open2, sols2, O(w), n, c, L, j, j + 1)
  BY DEF Followed
<1> DEFINE Lost == {j \in 1 .. L + 1 : n[j] = at(w) /\ ~ Ahead(open2, sols2, O(w), n, c, L, j, j + 1)}
<1> SUFFICES ASSUME Lost # {} PROVE FALSE
  OBVIOUS
<1>1. L \in Nat /\ IsPair(O(w)) /\ \A k \in 1 .. L + 1 : IsPair(c[k])
  BY DEF IsPath, IsWay, Scored
<1>2. PICK j \in Lost : \A k \in Lost : j >= k
  <2>1. Lost \in SUBSET (1 .. L + 1) /\ L + 1 \in Nat
    BY <1>1
  <2> HIDE DEF Lost
  <2> QED
    BY <2>1, GreatestNumber
<1>3. j \in 1 .. L + 1 /\ n[j] = at(w) /\ ~ Ahead(open2, sols2, O(w), n, c, L, j, j + 1)
  OBVIOUS
<1>4. ASSUME NEW k \in j + 1 .. L + 1, n[k] = at(w) PROVE Ahead(open2, sols2, O(w), n, c, L, k, k + 1)
  <2>1. k \in 1 .. L + 1 /\ ~ (j >= k)
    BY <1>1, <1>3
  <2>2. k \notin Lost
    BY <1>2, <2>1
  <2> QED
    BY <1>4, <2>1, <2>2
<1> HIDE DEF Lost
<1>5. CASE Superseded(sols2, w)
  <2>1. PICK i \in DOMAIN sols2 : O(sols2[i])[1] <= O(w)[1] /\ O(sols2[i])[2] <= O(w)[2]
    BY <1>5 DEF Superseded
  <2>2. IsPair(O(sols2[i])) /\ L + 1 \in 1 .. L + 1
    BY <1>1 DEF Scored
  <2>3. c[j][1] <= c[L + 1][1] /\ c[j][2] <= c[L + 1][2]
    BY <1>3, PathsOnlyCost DEF IsPath
  <2>4. Pays(O(sols2[i]), c[j], O(w), c[L + 1])
    <3> DEFINE s == O(sols2[i])
               v == O(w)
               x == c[j]
               y == c[L + 1]
    <3>1. /\ s[1] \in Nat /\ s[2] \in Nat /\ v[1] \in Nat /\ v[2] \in Nat
          /\ x[1] \in Nat /\ x[2] \in Nat /\ y[1] \in Nat /\ y[2] \in Nat
          /\ s[1] <= v[1] /\ s[2] <= v[2] /\ x[1] <= y[1] /\ x[2] <= y[2]
      BY <1>1, <1>3, <2>1, <2>2, <2>3 DEF IsPair
    <3> HIDE DEF s, v, x, y
    <3>2. s[1] + x[1] <= v[1] + y[1] /\ s[2] + x[2] <= v[2] + y[2]
      BY <3>1
    <3> QED
      BY <3>2 DEF Pays, s, v, x, y
  <2> QED
    BY <1>3, <2>4 DEF Ahead, Solved
<1>6. ASSUME NEW i \in j .. j + 1, i \in 1 .. L + 1, NEW a2 \in Nat, Outdone(minimum, n[i], a2),
             \A a1 \in Nat : a1 <= O(w)[1] =>
                \A b2 \in Nat : b2 <= a2 => Pays(<<a1, b2>>, c[j], O(w), c[i])
      PROVE  FALSE
  <2>1. n[i] \in DOMAIN minimum /\ minimum[n[i]] \in Nat /\ minimum[n[i]] <= a2
    BY <1>6 DEF Outdone, Looked
  <2>2. PICK a1 \in Nat : (\A x \in open : a1 <= O(x)[1]) /\ Followed(open, sols, n[i], <<a1, minimum[n[i]]>>)
    BY <2>1 DEF Looked
  <2> DEFINE a == <<a1, minimum[n[i]]>>
  <2>3. Pays(a, c[j], O(w), c[i]) /\ IsPair(a)
    BY <1>6, <2>1, <2>2 DEF IsPair
  <2>4. Ahead(open, sols, a, n, c, L, i, i + 1)
    BY <1>6, <2>2 DEF Followed
  <2> HIDE DEF a
  <2> QED
    BY <1>3, <1>4, <1>6, <2>3, <2>4, AheadOfDearer
<1>7. CASE Outdone(minimum, at(w), O(w)[2])
  <2>1. j \in j .. j + 1 /\ O(w)[2] \in Nat
    BY <1>1, <1>3 DEF IsPair
  <2>2. ASSUME NEW a1 \in Nat, a1 <= O(w)[1], NEW b2 \in Nat, b2 <= O(w)[2]
        PROVE  Pays(<<a1, b2>>, c[j], O(w), c[j])
    <3> DEFINE v == O(w)
               x == c[j]
               a == <<a1, b2>>
    <3>1. /\ v[1] \in Nat /\ v[2] \in Nat /\ x[1] \in Nat /\ x[2] \in Nat /\ a[1] = a1 /\ a[2] = b2
          /\ a1 <= v[1] /\ b2 <= v[2]
      BY <1>1, <1>3, <2>2 DEF IsPair
    <3> HIDE DEF v, x, a
    <3>2. a[1] + x[1] <= v[1] + x[1] /\ a[2] + x[2] <= v[2] + x[2]
      BY <3>1
    <3> QED
      BY <3>2 DEF Pays, v, x, a
  <2> QED
    BY <1>3, <1>6, <1>7, <2>1, <2>2
<1>8. CASE Expanded(minimum, open2, w)
  <2>1. j \in 1 .. L /\ j + 1 \in 1 .. L + 1
    BY <1>1, <1>3, <1>8 DEF Expanded, IsPath
  <2>2. PICK e : IsPair(e) /\ Step(n[j], n[j + 1], e) /\ c[j + 1] = Sum(c[j], e)
    BY <2>1 DEF IsPath, IsWay
  <2> DEFINE v == O(w)
             x == c[j]
             y == c[j + 1]
             t == Sum(v, e)
  <2>3. /\ v[1] \in Nat /\ v[2] \in Nat /\ x[1] \in Nat /\ x[2] \in Nat /\ e[1] \in Nat /\ e[2] \in Nat
        /\ y[1] = x[1] + e[1] /\ y[2] = x[2] + e[2]
        /\ t[1] = v[1] + e[1] /\ t[2] = v[2] + e[2]
    BY <1>1, <1>3, <2>2 DEF IsPair, Sum
  <2>4. Pays(v, x, v, y) /\ Pays(t, x, v, y)
    <3> HIDE DEF v, x, y, t
    <3>1. v[1] + x[1] <= v[1] + y[1] /\ v[2] + x[2] <= v[2] + y[2]
      BY <2>3
    <3>2. t[1] + x[1] <= v[1] + y[1] /\ t[2] + x[2] <= v[2] + y[2]
      BY <2>3
    <3> QED
      BY <3>1, <3>2 DEF Pays
  <2>5. CASE n[j + 1] = at(w)
    <3>1. j + 1 \in j + 1 .. L + 1
      BY <1>1, <2>1
    <3>2. Ahead(open2, sols2, v, n, c, L, j + 1, (j + 1) + 1)
      BY <1>4, <2>5, <3>1
    <3>3. j + 1 \in 1 .. (j + 1) + 1
      BY <2>1
    <3> QED
      BY <1>1, <1>3, <2>1, <2>4, <3>2, <3>3, AheadOfBoth
  <2>6. CASE \E z \in open2 : at(z) = n[j + 1] /\ O(z) = t
    <3>1. PICK z \in open2 : at(z) = n[j + 1] /\ O(z) = t
      BY <2>6
    <3>2. j + 1 \in j + 1 .. L + 1
      BY <1>1, <2>1
    <3>3. StillOpen(open2, v, n, c, L, j, j + 1)
      BY <2>4, <3>1, <3>2 DEF StillOpen
    <3> QED
      BY <1>3, <3>3 DEF Ahead
  <2>7. CASE Outdone(minimum, n[j + 1], v[2] + e[2])
    <3>1. j + 1 \in j .. j + 1 /\ v[2] + e[2] \in Nat
      BY <2>1, <2>3
    <3>2. ASSUME NEW a1 \in Nat, a1 <= v[1], NEW b2 \in Nat, b2 <= v[2] + e[2]
          PROVE  Pays(<<a1, b2>>, x, v, y)
      <4> DEFINE a == <<a1, b2>>
      <4>1. a[1] = a1 /\ a[2] = b2
        OBVIOUS
      <4> HIDE DEF v, x, y, t, a
      <4>2. a[1] + x[1] <= v[1] + y[1] /\ a[2] + x[2] <= v[2] + y[2]
        BY <2>3, <3>2, <4>1
      <4> QED
        BY <4>2 DEF Pays, a
    <3> QED
      BY <1>6, <2>1, <2>7, <3>1, <3>2
  <2> QED
    BY <1>3, <1>8, <2>2, <2>5, <2>6, <2>7 DEF Expanded
<1> QED
  BY <1>5, <1>7, <1>8 DEF Handled

\* The walk of the lesser first objective, or of the second if they are equal,
\* is popped first.
Sooner(a, b) == a[1] < b[1] \/ (a[1] = b[1] /\ a[2] < b[2])

\* Each solution costs more than those before, for a better second objective,
\* and none that is to come is popped sooner.
Ordered(open, goal_minimum, sols) ==
    /\ \A i, j \in DOMAIN sols :
          i < j => O(sols[i])[1] < O(sols[j])[1] /\ O(sols[j])[2] < O(sols[i])[2]
    /\ \A i \in DOMAIN sols : \A w \in open : ~ Sooner(O(w), O(sols[i]))
    /\ goal_minimum = <<>> => sols = <<>>
    /\ goal_minimum # <<>> => sols # <<>> /\ goal_minimum[1] = O(sols[Len(sols)])[2]

\* The walks that become open are no cheaper than the one that is popped.
NoCheaper(open, w, open2) ==
    \A x \in open2 : x \in open \/ (O(w)[1] <= O(x)[1] /\ O(w)[2] <= O(x)[2])

ClosedWith(minimum, w, minimum2) ==
    /\ DOMAIN minimum2 = DOMAIN minimum \cup {at(w)} /\ minimum2[at(w)] = O(w)[2]
    /\ \A node \in DOMAIN minimum : node # at(w) => minimum2[node] = minimum[node]

FromStart(open, sols) ==
    \A n, c, L : IsPath(n, c, L) /\ n[1] = init_node(m_sym_graph) /\ c[1] = <<0, 0>> =>
        Ahead(open, sols, <<0, 0>>, n, c, L, 1, 1)

LEMMA PopKeepsLooked ==
    ASSUME NEW open, NEW sols, NEW minimum, NEW open2, NEW sols2, NEW minimum2, NEW w \in open,
           Scored(open, sols), Scored(open2, sols2), Looked(open, minimum, sols),
           Keeps(open, sols, w, open2, sols2), Handled(minimum, w, open2, sols2),
           \A x \in open : O(w)[1] <= O(x)[1], NoCheaper(open, w, open2),
           minimum2 = minimum \/ ClosedWith(minimum, w, minimum2)
    PROVE  Looked(open2, minimum2, sols2) /\ (FromStart(open, sols) => FromStart(open2, sols2))
<1>1. Followed(open2, sols2, at(w), O(w))
  BY PoppedIsFollowed
<1>2. IsPair(O(w)) /\ O(w)[1] \in Nat /\ O(w)[2] \in Nat
  BY DEF Scored, IsPair
<1>3. ASSUME NEW n, NEW c, NEW L, IsPath(n, c, L), NEW j \in 1 .. L + 1, NEW m \in j .. j + 1,
             NEW b, IsPair(b), Ahead(open, sols, b, n, c, L, j, m)
      PROVE  Ahead(open2, sols2, b, n, c, L, j, m)
  <2>1. L \in Nat
    BY <1>3 DEF IsPath, IsWay
  <2>2. ASSUME NEW k \in m .. L + 1, n[k] = at(w) PROVE Ahead(open2, sols2, O(w), n, c, L, k, k + 1)
    <3>1. k \in 1 .. L + 1
      BY <2>1
    <3> QED
      BY <1>1, <1>3, <2>2, <3>1 DEF Followed
  <2> QED
    BY <1>2, <1>3, <2>2, HandedOver
<1>4. ASSUME NEW a \in Nat, \A x \in open : a <= O(x)[1] PROVE \A x \in open2 : a <= O(x)[1]
  <2> SUFFICES ASSUME NEW x \in open2 PROVE a <= O(x)[1]
    OBVIOUS
  <2>1. a <= O(w)[1] /\ O(x)[1] \in Nat
    BY <1>4 DEF Scored, IsPair
  <2>2. x \in open \/ O(w)[1] <= O(x)[1]
    BY DEF NoCheaper
  <2> DEFINE u == O(x)[1]
             v == O(w)[1]
  <2>3. (v <= u /\ a <= v /\ u \in Nat /\ v \in Nat) => a <= u
    BY <1>4
  <2> QED
    BY <1>2, <1>4, <2>1, <2>2, <2>3
<1>5. ASSUME NEW node \in DOMAIN minimum
      PROVE  /\ minimum[node] \in Nat
             /\ \E a \in Nat : (\A x \in open2 : a <= O(x)[1]) /\ Followed(open2, sols2, node, <<a, minimum[node]>>)
  <2>1. /\ minimum[node] \in Nat
        /\ \E a \in Nat : (\A x \in open : a <= O(x)[1]) /\ Followed(open, sols, node, <<a, minimum[node]>>)
    BY DEF Looked
  <2>2. PICK a \in Nat : (\A x \in open : a <= O(x)[1]) /\ Followed(open, sols, node, <<a, minimum[node]>>)
    BY <2>1
  <2> DEFINE b == <<a, minimum[node]>>
  <2>3. IsPair(b)
    BY <2>1 DEF IsPair
  <2>4. Followed(open, sols, node, b)
    BY <2>2
  <2> HIDE DEF b
  <2>5. Followed(open2, sols2, node, b)
    <3> SUFFICES ASSUME NEW n, NEW c, NEW L, IsPath(n, c, L), NEW j \in 1 .. L + 1, n[j] = node
                 PROVE  Ahead(open2, sols2, b, n, c, L, j, j + 1)
      BY DEF Followed
    <3>1. Ahead(open, sols, b, n, c, L, j, j + 1)
      BY <2>4 DEF Followed
    <3>2. j + 1 \in j .. j + 1
      OBVIOUS
    <3> QED
      BY <1>3, <2>3, <3>1, <3>2
  <2> QED
    BY <1>4, <2>1, <2>2, <2>5 DEF b
<1>6. Looked(open2, minimum2, sols2)
  <2> SUFFICES ASSUME NEW node \in DOMAIN minimum2
               PROVE  /\ minimum2[node] \in Nat
                      /\ \E a \in Nat : (\A x \in open2 : a <= O(x)[1]) /\ Followed(open2, sols2, node, <<a, minimum2[node]>>)
    BY DEF Looked
  <2>1. CASE node \in DOMAIN minimum /\ minimum2[node] = minimum[node]
    BY <1>5, <2>1
  <2>2. CASE node = at(w) /\ minimum2[node] = O(w)[2]
    <3>1. O(w) = <<O(w)[1], O(w)[2]>>
      BY DEF O, Both
    <3>2. \A x \in open2 : O(w)[1] <= O(x)[1]
      BY <1>2, <1>4
    <3>3. Followed(open2, sols2, node, <<O(w)[1], minimum2[node]>>)
      BY <1>1, <2>2, <3>1
    <3> QED
      BY <1>2, <2>2, <3>2, <3>3
  <2> QED
    BY <2>1, <2>2 DEF ClosedWith
<1>7. ASSUME FromStart(open, sols) PROVE FromStart(open2, sols2)
  <2> DEFINE z == <<0, 0>>
  <2>0. IsPair(z)
    BY DEF IsPair
  <2> SUFFICES ASSUME NEW n, NEW c, NEW L, IsPath(n, c, L), n[1] = init_node(m_sym_graph), c[1] = z
               PROVE  Ahead(open2, sols2, z, n, c, L, 1, 1)
    BY DEF FromStart
  <2>1. Ahead(open, sols, z, n, c, L, 1, 1)
    BY <1>7 DEF FromStart
  <2> HIDE DEF z
  <2>2. 1 \in 1 .. L + 1 /\ 1 \in 1 .. 1 + 1
    BY DEF IsPath, IsWay
  <2> QED
    BY <1>3, <2>0, <2>1, <2>2
<1> QED
  BY <1>6, <1>7

\* What is no cheaper is no sooner.
LEMMA NoSooner ==
    ASSUME NEW a, IsPair(a), NEW b, IsPair(b), NEW s, IsPair(s), ~ Sooner(a, s), a[1] <= b[1], a[2] <= b[2]
    PROVE  ~ Sooner(b, s)
BY DEF IsPair, Sooner

LEMMA PopKeepsOrdered ==
    ASSUME NEW open, NEW sols, NEW goal_minimum, NEW open2, NEW sols2, NEW goal_minimum2, NEW w \in open,
           Scored(open, sols), Scored(open2, sols2), Ordered(open, goal_minimum, sols),
           \A x \in open : ~ Sooner(O(x), O(w)), NoCheaper(open, w, open2),
           \/ sols2 = sols /\ goal_minimum2 = goal_minimum
           \/ /\ goal_minimum # <<>> => O(w)[2] < goal_minimum[1]
              /\ \E S : sols \in Seq(S)
              /\ sols2 = Append(sols, w) /\ goal_minimum2 = <<O(w)[2]>>
              /\ open2 \subseteq open
    PROVE  Ordered(open2, goal_minimum2, sols2)
<1>1. IsPair(O(w))
  BY DEF Scored
<1>2. ASSUME NEW i \in DOMAIN sols, NEW x \in open2 PROVE ~ Sooner(O(x), O(sols[i]))
  <2>1. CASE x \in open
    BY <2>1 DEF Ordered
  <2>2. CASE O(w)[1] <= O(x)[1] /\ O(w)[2] <= O(x)[2]
    <3>1. IsPair(O(x)) /\ IsPair(O(sols[i])) /\ ~ Sooner(O(w), O(sols[i]))
      BY DEF Scored, Ordered
    <3> QED
      BY <1>1, <2>2, <3>1, NoSooner
  <2> QED
    BY <2>1, <2>2 DEF NoCheaper
<1>3. CASE sols2 = sols /\ goal_minimum2 = goal_minimum
  BY <1>2, <1>3 DEF Ordered
<1>4. CASE /\ goal_minimum # <<>> => O(w)[2] < goal_minimum[1]
           /\ \E S : sols \in Seq(S)
           /\ sols2 = Append(sols, w) /\ goal_minimum2 = <<O(w)[2]>>
           /\ open2 \subseteq open
  <2> DEFINE l == Len(sols)
  <2>1. PICK S : sols \in Seq(S)
    BY <1>4
  <2>2. sols2 = Append(sols, w) /\ sols \in Seq(S \cup {w})
    BY <1>4, <2>1
  <2>3. /\ l \in Nat /\ DOMAIN sols = 1 .. l /\ DOMAIN sols2 = 1 .. l + 1 /\ Len(sols2) = l + 1
        /\ sols2[l + 1] = w /\ \A i \in 1 .. l : sols2[i] = sols[i]
    BY <2>2
  <2>4. sols2 # <<>> /\ goal_minimum2 # <<>> /\ goal_minimum2[1] = O(sols2[Len(sols2)])[2]
    <3>1. sols2 # <<>>
      BY <2>2
    <3> QED
      BY <1>4, <2>3, <3>1
  <2> HIDE DEF l
  <2>5. ASSUME NEW i \in 1 .. l PROVE O(sols[i])[1] < O(w)[1] /\ O(w)[2] < O(sols[i])[2]
    <3>1. sols # <<>> /\ l \in 1 .. l
      BY <2>1, <2>3, <2>5 DEF l
    <3>2. O(w)[2] < O(sols[l])[2]
      BY <1>4, <3>1 DEF Ordered, l
    <3>3. O(sols[l])[2] <= O(sols[i])[2]
      <4>1. CASE i = l
        BY <2>3, <3>1, <4>1 DEF Scored, IsPair
      <4>2. CASE i # l
        <5>1. i < l /\ i \in DOMAIN sols /\ l \in DOMAIN sols
          BY <2>3, <3>1, <4>2
        <5>2. O(sols[l])[2] < O(sols[i])[2]
          BY <5>1 DEF Ordered
        <5>3. IsPair(O(sols[l])) /\ IsPair(O(sols[i]))
          BY <5>1 DEF Scored
        <5> QED
          BY <5>2, <5>3 DEF IsPair
      <4> QED
        BY <4>1, <4>2
    <3>4. ~ Sooner(O(w), O(sols[i])) /\ IsPair(O(sols[l])) /\ IsPair(O(sols[i]))
      BY <2>3, <3>1 DEF Ordered, Scored
    <3>5. O(w)[2] < O(sols[i])[2]
      BY <1>1, <3>2, <3>3, <3>4 DEF IsPair
    <3>6. O(sols[i])[1] < O(w)[1]
      BY <1>1, <3>4, <3>5 DEF IsPair, Sooner
    <3> QED
      BY <3>5, <3>6
  <2>6. ASSUME NEW i \in DOMAIN sols2, NEW j \in DOMAIN sols2, i < j
        PROVE  O(sols2[i])[1] < O(sols2[j])[1] /\ O(sols2[j])[2] < O(sols2[i])[2]
    <3>1. CASE j = l + 1
      <4>1. i \in 1 .. l
        BY <2>3, <2>6, <3>1
      <4> QED
        BY <2>3, <2>5, <3>1, <4>1
    <3>2. CASE j # l + 1
      <4>1. i \in 1 .. l /\ j \in 1 .. l
        BY <2>3, <2>6, <3>2
      <4> QED
        BY <2>3, <2>6, <4>1 DEF Ordered
    <3> QED
      BY <3>1, <3>2
  <2>7. ASSUME NEW i \in DOMAIN sols2, NEW x \in open2 PROVE ~ Sooner(O(x), O(sols2[i]))
    <3>1. CASE i = l + 1
      BY <1>4, <2>3, <3>1
    <3>2. CASE i # l + 1
      <4>1. i \in 1 .. l
        BY <2>3, <3>2
      <4> QED
        BY <1>2, <2>3, <4>1
    <3> QED
      BY <3>1, <3>2
  <2> QED
    BY <2>4, <2>6, <2>7 DEF Ordered
<1> QED
  BY <1>3, <1>4

-----------------------------------------------------------------------------
(***************************************************************************)
(* The search of the first program.                                        *)
(***************************************************************************)
(***************************************************************************)
(* The program's walks are extended by the steps of the product, and       *)
(* popped as it takes.                                                     *)
(***************************************************************************)
\* Walks of the program with the substitutions, and of five tasks.
Five == IsPartial /\ DOMAIN dfas = 1 .. 5

\* Its edges cost nothing, or what was read.
LEMMA EdgesAreCharged ==
    ASSUME Ready, CInv, Five, NEW node \in WideNode(m_sym_graph),
           NEW x \in Range(Connected(m_sym_graph, node))
    PROVE  IsCharge(EdgeCost(node, Inherited(x)))
<1> DEFINE p == m_sym_graph
           edge == Inherited(x)
           asked(i) == IF acc(p, node, i) THEN 0 ELSE edge.automaton_edge[i].substitution_cost
<1>1. /\ IsPlannable(p) /\ DOMAIN p.automata = DOMAIN dfas /\ p.model = ts.model
      /\ \A i \in DOMAIN dfas : IsRun(dfas[i]) /\ p.automata[i] = GraphOf(dfas[i])
  BY ReadyToPlan
<1>2. IsStep(p, node, x)
  BY <1>1, ConnectionsLeave
<1>3. edge.model_edge = x.model.edge /\ edge.automaton_edge = [a \in DOMAIN x.automata |-> x.automata[a].edge]
  BY DEF Inherited, inherit
<1>4. x.model.edge.cost \in Nat
  BY <1>1, <1>2 DEF IsStep, CInv, NaturalMoves
<1>5. PICK S : dfas \in Seq(S) /\ \A m \in S : Priced(m)
  BY DEF CInv
<1>6. ASSUME NEW i \in 1 .. 5 PROVE edge.automaton_edge[i].substitution_cost \in Nat
  <2> DEFINE c == x.automata[i]
             m == dfas[i]
  <2>1. i \in DOMAIN dfas /\ i \in DOMAIN x.automata
    BY <1>1, <1>2 DEF IsStep, Five
  <2>2. c \in Range(GraphOf(m).connections) /\ edge.automaton_edge[i] = c.edge /\ IsRun(m)
    BY <1>1, <1>2, <1>3, <2>1 DEF IsStep
  <2>3. Priced(m)
    <3>1. m \in S
      BY <1>5, <2>1
    <3> QED
      BY <1>5, <3>1
  <2> HIDE DEF c, m
  <2>4. IsListed(m, c)
    BY <2>2, GraphOfAutomaton
  <2>5. PICK y \in Range(leaving(m, c.src)) : c.edge = y.edge
    BY <2>4 DEF IsListed
  <2>6. PICK T : m.m_graph \in Seq(Seq(T))
    BY <2>2 DEF IsRun, IsAutomaton, IsGraph
  <2>7. c.src + 1 \in DOMAIN m.m_graph /\ leaving(m, c.src) = m.m_graph[c.src + 1]
    <3> DEFINE g == m.m_graph
    <3>1. c.src \in 0 .. Len(g) - 1 /\ g \in Seq(Seq(T))
      BY <2>4, <2>6 DEF IsListed, States, size
    <3> HIDE DEF g
    <3>2. c.src + 1 \in DOMAIN g /\ c.src < Len(g)
      BY <3>1
    <3> QED
      BY <3>2 DEF leaving, size, g
  <2>8. y.edge.substitution_cost \in Nat
    BY <2>3, <2>5, <2>7 DEF Range, Priced
  <2> QED
    BY <2>2, <2>5, <2>8
<1> HIDE DEF edge
<1>7. EdgeCost(node, edge) = [cost |-> edge.model_edge.cost, pcs |-> [i \in DOMAIN dfas |-> asked(i)]]
  BY DEF EdgeCost, Five
<1>8. \A i \in 1 .. 5 : asked(i) \in Nat
  BY <1>6
<1> HIDE DEF asked
<1>9. EdgeCost(node, edge).cost \in Nat /\ EdgeCost(node, edge).pcs \in [1 .. 5 -> Nat]
  BY <1>3, <1>4, <1>7, <1>8 DEF Five
<1> QED
  BY <1>9 DEF IsCharge, edge

\* A neighbor of a walk's end is where the longer walk ends.
LEMMA ExtendedTo ==
    ASSUME NEW walk, IsWalk(walk), NEW child, NEW edge
    PROVE  /\ at(Extend(walk, child, edge)) = child
           /\ Extend(walk, child, edge).g_score = gScore(walk.g_score, EdgeCost(at(walk), edge))
<1> DEFINE v == walk.node_path
           y == Extend(walk, child, edge)
<1>1. PICK S : v \in Seq(S)
  BY DEF IsWalk, IsTrace
<1>2. y.node_path = Append(v, child) /\ y.g_score = gScore(walk.g_score, EdgeCost(at(walk), edge))
  BY DEF Extend, Walk
<1> HIDE DEF v
<1>3. v \in Seq(S \cup {child})
  BY <1>1
<1>4. Append(v, child)[Len(Append(v, child))] = child
  BY <1>3
<1> QED
  BY <1>2, <1>4 DEF at, Last

\* The extensions of a walk are its steps.
LEMMA ExtensionsAreListed ==
    ASSUME NEW walk
    PROVE  Extensions(walk) =
             {Extend(walk, Destination(m_sym_graph, x), Inherited(x)) : x \in Range(Connected(m_sym_graph, at(walk)))}
<1> DEFINE p == m_sym_graph
           node == at(walk)
           listed == Connected(p, node)
           array == post(p, node)
           neighbors == children(p, node, array)
           neighborEdges == outgoingEdges(p, node, array)
<1>1. /\ DOMAIN neighbors = DOMAIN listed
      /\ \A i \in DOMAIN listed : neighbors[i] = Destination(p, listed[i]) /\ neighborEdges[i] = Inherited(listed[i])
  BY DEF children, outgoingEdges, Mapped, Connected
<1>2. Extensions(walk) = {Extend(walk, neighbors[k], neighborEdges[k]) : k \in DOMAIN neighbors}
  BY DEF Extensions
<1> HIDE DEF neighbors, neighborEdges, listed
<1>3. Extensions(walk) = {Extend(walk, Destination(p, listed[k]), Inherited(listed[k])) : k \in DOMAIN listed}
  BY <1>1, <1>2
<1>4. Range(listed) = {listed[k] : k \in DOMAIN listed}
  BY DEF Range
<1> QED
  BY <1>3, <1>4 DEF listed

LEMMA ExtensionsAreSteps ==
    ASSUME Ready, CInv, Five, NEW walk, IsWalk(walk), IsScore(walk.g_score)
    PROVE  /\ \A y \in Extensions(walk) :
                 /\ IsScore(y.g_score)
                 /\ \E e : IsPair(e) /\ Step(at(walk), at(y), e) /\ O(y) = Sum(O(walk), e)
           /\ \A m, e : Step(at(walk), m, e) => \E y \in Extensions(walk) : at(y) = m /\ O(y) = Sum(O(walk), e)
<1> DEFINE p == m_sym_graph
           node == at(walk)
           listed == Range(Connected(p, node))
           next(x) == Extend(walk, Destination(p, x), Inherited(x))
           charge(x) == EdgeCost(node, Inherited(x))
<1>1. node \in WideNode(p)
  BY WalksHaveNodes
<1>2. ASSUME NEW x \in listed
      PROVE  /\ at(next(x)) = Destination(p, x) /\ IsScore(next(x).g_score)
             /\ IsPair(Both(charge(x))) /\ O(next(x)) = Sum(O(walk), Both(charge(x)))
  <2>1. IsCharge(charge(x))
    BY <1>1, EdgesAreCharged
  <2>2. at(next(x)) = Destination(p, x) /\ next(x).g_score = gScore(walk.g_score, charge(x))
    BY ExtendedTo
  <2> HIDE DEF next, charge
  <2> QED
    BY <2>1, <2>2, CostsAdd DEF O
<1>3. Extensions(walk) = {next(x) : x \in listed}
  BY ExtensionsAreListed
<1>4. ASSUME NEW y \in Extensions(walk)
      PROVE  /\ IsScore(y.g_score)
             /\ \E e : IsPair(e) /\ Step(node, at(y), e) /\ O(y) = Sum(O(walk), e)
  <2>1. PICK x \in listed : y = next(x)
    BY <1>3
  <2>2. Step(node, at(y), Both(charge(x)))
    BY <1>2, <2>1 DEF Step
  <2> QED
    BY <1>2, <2>1, <2>2
<1>5. ASSUME NEW m, NEW e, Step(node, m, e)
      PROVE  \E y \in Extensions(walk) : at(y) = m /\ O(y) = Sum(O(walk), e)
  <2>1. PICK x \in listed : m = Destination(p, x) /\ e = Both(charge(x))
    BY <1>5 DEF Step
  <2> QED
    BY <1>2, <1>3, <2>1
<1> QED
  BY <1>4, <1>5

\* No addition of a pair makes less.
LEMMA SumIsNoLess ==
    ASSUME NEW a, IsPair(a), NEW b, IsPair(b)
    PROVE  IsPair(Sum(a, b)) /\ a[1] <= Sum(a, b)[1] /\ a[2] <= Sum(a, b)[2]
BY DEF IsPair, Sum

\* What is known of a search while it goes on, and when it has ended.
SearchInv ==
    /\ \A w \in open_set : IsScore(w.g_score)
    /\ \A i \in DOMAIN solutions : IsScore(solutions[i].g_score)
    /\ Looked(open_set, g_2_min, solutions)
    /\ FromStart(open_set, solutions)
    /\ Ordered(open_set, g_2_min_goal, solutions)

\* What costs is a pair.
LEMMA ScoresArePairs ==
    ASSUME NEW g, IsScore(g)
    PROVE  IsPair(Both(g))
<1> DEFINE none == [i \in 1 .. 5 |-> 0]
           e == [cost |-> 0, pcs |-> none]
<1>1. IsCharge(e)
  BY DEF IsCharge
<1> HIDE DEF e
<1> QED
  BY <1>1, CostsAdd

\* The paths are the same as long as what they lead through is.
LEMMA SamePaths ==
    ASSUME UNCHANGED <<m_sym_graph, dfas, ts, task>>
    PROVE  \A n, c, L : IsPath(n, c, L)' <=> IsPath(n, c, L)
<1>1. \A n : goal(n)' <=> goal(n)
  BY DEF goal
<1>2. \A node, edge : EdgeCost(node, edge)' = EdgeCost(node, edge)
  BY DEF EdgeCost, IsPartial
<1>3. \A n, m, e : Step(n, m, e)' <=> Step(n, m, e)
  BY <1>2 DEF Step
<1>4. \A n, c, L : IsWay(n, c, L)' <=> IsWay(n, c, L)
  BY <1>1, <1>3 DEF IsWay
<1> QED
  BY <1>1, <1>4 DEF IsPath

LEMMA SameSearch ==
    ASSUME UNCHANGED <<m_sym_graph, dfas, ts, task>>
    PROVE  /\ \A open, minimum, sols : Looked(open, minimum, sols)' <=> Looked(open, minimum, sols)
           /\ \A open, sols : FromStart(open, sols)' <=> FromStart(open, sols)
<1>1. \A n, c, L : IsPath(n, c, L)' <=> IsPath(n, c, L)
  BY SamePaths
<1>2. \A open, sols, node, a : Followed(open, sols, node, a)' <=> Followed(open, sols, node, a)
  BY <1>1 DEF Followed
<1>3. \A open, minimum, sols : Looked(open, minimum, sols)' <=> Looked(open, minimum, sols)
  BY <1>2 DEF Looked
<1>4. \A open, sols : FromStart(open, sols)' <=> FromStart(open, sols)
  BY <1>1 DEF FromStart
<1> QED
  BY <1>3, <1>4

\* What a step leaves known of the search, from how it handled the walk.
LEMMA PopKeepsSearchInv ==
    ASSUME SearchInv, NEW w \in open_set,
           UNCHANGED <<m_sym_graph, dfas, ts, task>>,
           \A x \in open_set : ~ Sooner(O(x), O(w)),
           Keeps(open_set, solutions, w, open_set', solutions'),
           Handled(g_2_min, w, open_set', solutions'),
           NoCheaper(open_set, w, open_set'),
           g_2_min' = g_2_min \/ ClosedWith(g_2_min, w, g_2_min'),
           \/ solutions' = solutions /\ g_2_min_goal' = g_2_min_goal
           \/ /\ g_2_min_goal # <<>> => O(w)[2] < g_2_min_goal[1]
              /\ \E S : solutions \in Seq(S)
              /\ solutions' = Append(solutions, w) /\ g_2_min_goal' = <<O(w)[2]>>
              /\ open_set' \subseteq open_set,
           \A x \in open_set' : IsScore(x.g_score),
           \A i \in DOMAIN solutions' : IsScore(solutions'[i].g_score)
    PROVE  SearchInv'
<1>1. Scored(open_set, solutions) /\ Scored(open_set', solutions')
  BY ScoresArePairs DEF SearchInv, Scored, O
<1>2. \A x \in open_set : O(w)[1] <= O(x)[1]
  BY <1>1 DEF Scored, Sooner, IsPair
<1>3. Looked(open_set, g_2_min, solutions) /\ FromStart(open_set, solutions) /\ Ordered(open_set, g_2_min_goal, solutions)
  BY DEF SearchInv
<1>4. Looked(open_set', g_2_min', solutions') /\ FromStart(open_set', solutions')
  BY <1>1, <1>2, <1>3, PopKeepsLooked
<1>5. Ordered(open_set', g_2_min_goal', solutions')
  BY <1>1, <1>3, PopKeepsOrdered
<1>6. Looked(open_set, g_2_min, solutions)' /\ FromStart(open_set, solutions)'
  BY <1>4, SameSearch
<1>7. Ordered(open_set, g_2_min_goal, solutions)'
  BY <1>5
<1> QED
  BY <1>6, <1>7 DEF SearchInv

\* The first of the walks to be popped.
LEMMA TopIsSoonest ==
    ASSUME Five, SearchInv, NEW w \in open_set, Top(w)
    PROVE  \A x \in open_set : ~ Sooner(O(x), O(w))
<1> SUFFICES ASSUME NEW x \in open_set, Sooner(O(x), O(w)) PROVE FALSE
  OBVIOUS
<1>1. Objectives(x.g_score) = O(x) /\ Objectives(w.g_score) = O(w)
  BY DEF Objectives, preferenceFunction, Five, O, Both
<1>2. ~ Costs!LexLess(O(x), O(w))
  BY <1>1 DEF Top
<1> DEFINE a == O(x)
           b == O(w)
<1>3. a[1] < b[1] \/ (a[1] = b[1] /\ a[2] < b[2])
  BY DEF Sooner
<1> HIDE DEF a, b
<1>4. Costs!LexLess(a, b) <=> \E k \in 1 .. 2 : a[k] < b[k] /\ \A j \in 1 .. k - 1 : a[j] = b[j]
  BY DEF Costs!LexLess, Costs!Objectives
<1>5. 1 \in 1 .. 2 /\ 2 \in 1 .. 2 /\ (\A j \in 1 .. 1 - 1 : a[j] = b[j])
  OBVIOUS
<1>6. CASE a[1] < b[1]
  BY <1>2, <1>4, <1>5, <1>6 DEF a, b
<1>7. CASE a[1] = b[1] /\ a[2] < b[2]
  <2>1. \A j \in 1 .. 2 - 1 : a[j] = b[j]
    BY <1>7
  <2> QED
    BY <1>2, <1>4, <1>5, <1>7, <2>1 DEF a, b
<1> QED
  BY <1>3, <1>6, <1>7

LEMMA SearchKeepsSearchInv ==
    ASSUME LInv, CInv, Begun, Five, SearchInv, Search
    PROVE  SearchInv'
<1>1. UNCHANGED <<task, ts, dfas>>
  BY DEF Search
<1>2. PICK w \in open_set : Top(w) /\ (SkipPruned(w) \/ ReachGoal(w) \/ Expand(w))
  BY DEF Search
<1>3. m_sym_graph' = m_sym_graph
  BY <1>2 DEF SkipPruned, ReachGoal, Expand
<1>4. \A x \in open_set : ~ Sooner(O(x), O(w))
  BY <1>2, TopIsSoonest
<1>5. Ready /\ IsWalk(w) /\ IsScore(w.g_score) /\ IsPair(O(w))
  BY ScoresArePairs DEF Ready, Begun, Walked, SearchInv, O
<1>6. Objectives(w.g_score)[2] = O(w)[2]
  BY DEF Objectives, preferenceFunction, Five, O, Both
<1>7. ClosedWith(g_2_min, w, Closed(w))
  <2>1. /\ DOMAIN Closed(w) = DOMAIN g_2_min \cup {at(w)}
        /\ Closed(w)[at(w)] = Objectives(w.g_score)[2]
        /\ \A node \in DOMAIN g_2_min : node # at(w) => Closed(w)[node] = g_2_min[node]
    BY DEF Closed
  <2> QED
    BY <1>6, <2>1 DEF ClosedWith
<1>8. PICK S : solutions \in Seq(S)
  BY DEF Begun, Walked
<1>9. Ordered(open_set, g_2_min_goal, solutions) /\ \A node \in DOMAIN g_2_min : g_2_min[node] \in Nat
  BY DEF SearchInv, Looked
<1>10. CASE SkipPruned(w)
  <2>1. /\ Pruned(w) /\ open_set' = open_set \ {w}
        /\ UNCHANGED <<g_2_min, g_2_min_goal, solutions>>
    BY <1>10 DEF SkipPruned
  <2>2. Handled(g_2_min, w, open_set', solutions')
    <3>1. CASE PrunedAtNode(g_2_min, w)
      <4>1. at(w) \in DOMAIN g_2_min /\ ~ (O(w)[2] < g_2_min[at(w)])
        BY <1>6, <3>1 DEF PrunedAtNode
      <4>2. g_2_min[at(w)] <= O(w)[2]
        BY <1>5, <1>9, <4>1 DEF IsPair
      <4> QED
        BY <4>1, <4>2 DEF Handled, Outdone
    <3>2. CASE g_2_min_goal # <<>> /\ ~ (O(w)[2] < g_2_min_goal[1])
      <4> DEFINE l == Len(solutions)
      <4>1. solutions # <<>> /\ g_2_min_goal[1] = O(solutions[l])[2]
        BY <1>9, <3>2 DEF Ordered
      <4>2. l \in DOMAIN solutions
        BY <1>8, <4>1
      <4>3. ~ Sooner(O(w), O(solutions[l])) /\ IsPair(O(solutions[l]))
        BY <1>9, <4>2, ScoresArePairs DEF Ordered, SearchInv, O
      <4>4. O(solutions[l])[1] <= O(w)[1] /\ O(solutions[l])[2] <= O(w)[2]
        BY <1>5, <3>2, <4>1, <4>3 DEF IsPair, Sooner
      <4> QED
        BY <2>1, <4>2, <4>4 DEF Handled, Superseded
    <3> QED
      BY <1>6, <2>1, <3>1, <3>2 DEF Pruned
  <2>3. Keeps(open_set, solutions, w, open_set', solutions') /\ NoCheaper(open_set, w, open_set')
    BY <2>1 DEF Keeps, NoCheaper
  <2>4. /\ \A x \in open_set' : IsScore(x.g_score)
        /\ \A i \in DOMAIN solutions' : IsScore(solutions'[i].g_score)
    BY <2>1 DEF SearchInv
  <2> QED
    BY <1>1, <1>3, <1>4, <2>1, <2>2, <2>3, <2>4, PopKeepsSearchInv
<1>11. CASE ReachGoal(w)
  <2>1. /\ ~ Pruned(w) /\ open_set' = open_set \ {w} /\ g_2_min' = Closed(w)
        /\ g_2_min_goal' = <<O(w)[2]>> /\ solutions' = Append(solutions, w)
    BY <1>6, <1>11 DEF ReachGoal
  <2>2. g_2_min_goal # <<>> => O(w)[2] < g_2_min_goal[1]
    BY <1>6, <2>1 DEF Pruned
  <2> DEFINE l == Len(solutions)
  <2>3. /\ l \in Nat /\ DOMAIN solutions = 1 .. l /\ DOMAIN solutions' = 1 .. l + 1
        /\ solutions'[l + 1] = w /\ \A i \in 1 .. l : solutions'[i] = solutions[i]
    <3> DEFINE s == solutions
               s2 == solutions'
    <3>1. s \in Seq(S \cup {w}) /\ s2 = Append(s, w)
      BY <1>8, <2>1
    <3> HIDE DEF s, s2
    <3>2. /\ Len(s) \in Nat /\ DOMAIN s = 1 .. Len(s) /\ DOMAIN s2 = 1 .. Len(s) + 1
          /\ s2[Len(s) + 1] = w /\ \A i \in 1 .. Len(s) : s2[i] = s[i]
      BY <3>1
    <3> QED
      BY <3>2 DEF s, s2
  <2> HIDE DEF l
  <2>4. Keeps(open_set, solutions, w, open_set', solutions') /\ NoCheaper(open_set, w, open_set')
    <3>1. \A i \in 1 .. l : i \in 1 .. l + 1
      BY <2>3
    <3> QED
      BY <2>1, <2>3, <3>1 DEF Keeps, NoCheaper
  <2>5. Handled(g_2_min, w, open_set', solutions')
    <3>1. l + 1 \in DOMAIN solutions' /\ O(solutions'[l + 1])[1] <= O(w)[1] /\ O(solutions'[l + 1])[2] <= O(w)[2]
      BY <1>5, <2>3 DEF IsPair
    <3> QED
      BY <3>1 DEF Handled, Superseded
  <2>6. \A i \in DOMAIN solutions' : IsScore(solutions'[i].g_score)
    <3> SUFFICES ASSUME NEW i \in DOMAIN solutions' PROVE IsScore(solutions'[i].g_score)
      OBVIOUS
    <3>1. i = l + 1 \/ i \in 1 .. l
      BY <2>3
    <3> QED
      BY <1>5, <2>3, <3>1 DEF SearchInv
  <2>7. \A x \in open_set' : IsScore(x.g_score)
    BY <2>1 DEF SearchInv
  <2>8. open_set' \subseteq open_set /\ \E T : solutions \in Seq(T)
    BY <1>8, <2>1
  <2> QED
    BY <1>1, <1>3, <1>4, <1>7, <2>1, <2>2, <2>4, <2>5, <2>6, <2>7, <2>8, PopKeepsSearchInv
<1>12. CASE Expand(w)
  <2> DEFINE longer == Extensions(w)
  <2>1. Len(weights) = Len(dfas)
    <3>1. PICK T : dfas \in Seq(T)
      BY DEF CInv
    <3>2. Len(dfas) = 5
      BY <3>1 DEF Five
    <3> QED
      BY <3>2 DEF weights
  <2>2. /\ ~ goal(at(w)) /\ UNCHANGED <<g_2_min_goal, solutions>> /\ g_2_min' = Closed(w)
        /\ open_set' = (open_set \ {w}) \cup {x \in longer : ~ PrunedAtNode(Closed(w), x)}
    BY <1>12, <2>1 DEF Expand
  <2>3. /\ \A y \in longer :
              /\ IsScore(y.g_score)
              /\ \E e : IsPair(e) /\ Step(at(w), at(y), e) /\ O(y) = Sum(O(w), e)
        /\ \A m, e : Step(at(w), m, e) => \E y \in longer : at(y) = m /\ O(y) = Sum(O(w), e)
    BY <1>5, ExtensionsAreSteps
  <2> HIDE DEF longer
  <2>4. NoCheaper(open_set, w, open_set')
    <3> SUFFICES ASSUME NEW x \in longer PROVE O(w)[1] <= O(x)[1] /\ O(w)[2] <= O(x)[2]
      BY <2>2 DEF NoCheaper
    <3>1. PICK e : IsPair(e) /\ O(x) = Sum(O(w), e)
      BY <2>3
    <3> QED
      BY <1>5, <3>1, SumIsNoLess
  <2>5. Keeps(open_set, solutions, w, open_set', solutions')
    BY <2>2 DEF Keeps
  <2>6. Handled(g_2_min, w, open_set', solutions')
    <3> SUFFICES ASSUME NEW m, NEW e, IsPair(e), Step(at(w), m, e), m # at(w), ~ Outdone(g_2_min, m, O(w)[2] + e[2])
                 PROVE  \E x \in open_set' : at(x) = m /\ O(x) = Sum(O(w), e)
      BY <2>2 DEF Handled, Expanded
    <3>1. PICK y \in longer : at(y) = m /\ O(y) = Sum(O(w), e)
      BY <2>3
    <3>2. Objectives(y.g_score)[2] = O(w)[2] + e[2]
      <4>1. Objectives(y.g_score)[2] = O(y)[2]
        BY DEF Objectives, preferenceFunction, Five, O, Both
      <4> QED
        BY <3>1, <4>1 DEF Sum
    <3>3. ~ PrunedAtNode(Closed(w), y)
      <4> SUFFICES ASSUME PrunedAtNode(Closed(w), y) PROVE FALSE
        OBVIOUS
      <4>1. m \in DOMAIN Closed(w) /\ ~ (O(w)[2] + e[2] < Closed(w)[m])
        BY <3>1, <3>2 DEF PrunedAtNode
      <4>2. m \in DOMAIN g_2_min /\ Closed(w)[m] = g_2_min[m]
        BY <1>7, <4>1 DEF ClosedWith
      <4>3. g_2_min[m] <= O(w)[2] + e[2]
        BY <1>5, <1>9, <4>1, <4>2 DEF IsPair
      <4> QED
        BY <4>2, <4>3 DEF Outdone
    <3> QED
      BY <2>2, <3>1, <3>3
  <2>7. /\ \A x \in open_set' : IsScore(x.g_score)
        /\ \A i \in DOMAIN solutions' : IsScore(solutions'[i].g_score)
    BY <2>2, <2>3 DEF SearchInv
  <2> QED
    BY <1>1, <1>3, <1>4, <1>7, <2>2, <2>4, <2>5, <2>6, <2>7, PopKeepsSearchInv
<1> QED
  BY <1>2, <1>10, <1>11, <1>12

\* The walk that is open first.
First == Walk(<<init_node(m_sym_graph)>>, <<>>, NoCost)

\* With another number of tasks than there are weights, nothing but the first
\* walk is ever looked at.
FewInv ==
    \/ open_set = {First} /\ solutions = <<>> /\ DOMAIN g_2_min = {} /\ g_2_min_goal = <<>>
    \/ /\ open_set = {}
       /\ IF goal(at(First)) THEN solutions = <<First>> ELSE Extensions(First) = {} /\ solutions = <<>>

SearchKnown == IF Five THEN SearchInv ELSE FewInv

JustOpen == open_set = {First} /\ solutions = <<>> /\ DOMAIN g_2_min = {} /\ g_2_min_goal = <<>>

FInv ==
    /\ phase \in {"started", "generating", "loading"} => g_2_min_goal = <<>>
    /\ phase \in {"planning", "writing"} /\ IsPartial => SearchKnown
    /\ phase = "writing" => open_set = {} /\ plan_set = PlanSet(solutions)

LEMMA FirstIsKnown == JustOpen => SearchKnown
<1> SUFFICES ASSUME JustOpen, Five PROVE SearchInv
  BY DEF JustOpen, SearchKnown, FewInv
<1>1. First.g_score = NoCost /\ at(First) = init_node(m_sym_graph)
  <2> DEFINE node == init_node(m_sym_graph)
  <2> HIDE DEF node
  <2>1. Len(<<node>>) = 1 /\ <<node>>[1] = node
    OBVIOUS
  <2>2. First.node_path = <<node>> /\ First.g_score = NoCost
    BY DEF First, Walk, node
  <2> QED
    BY <2>1, <2>2 DEF at, Last, node
<1>2. IsScore(NoCost) /\ O(First) = <<0, 0>>
  <2>1. NoCost.cost = 0 /\ NoCost.pcs = <<>>
    BY DEF NoCost
  <2> QED
    BY <1>1, <2>1, SumOfNothing DEF IsScore, O, Both
<1>3. \A w \in open_set : IsScore(w.g_score)
  BY <1>1, <1>2 DEF JustOpen
<1>4. DOMAIN solutions = {}
  BY DEF JustOpen
<1>5. Looked(open_set, g_2_min, solutions) /\ Ordered(open_set, g_2_min_goal, solutions)
  BY <1>4 DEF JustOpen, Looked, Ordered
<1>6. FromStart(open_set, solutions)
  <2> SUFFICES ASSUME NEW n, NEW c, NEW L, IsPath(n, c, L), n[1] = init_node(m_sym_graph), c[1] = <<0, 0>>
               PROVE  StillOpen(open_set, <<0, 0>>, n, c, L, 1, 1)
    BY DEF FromStart, Ahead
  <2>1. L \in Nat
    BY DEF IsPath, IsWay
  <2>2. 1 \in 1 .. L + 1
    BY <2>1
  <2>3. Pays(O(First), c[1], <<0, 0>>, c[1])
    BY <1>2 DEF Pays
  <2>4. First \in open_set /\ at(First) = n[1]
    BY <1>1 DEF JustOpen
  <2> QED
    BY <2>2, <2>3, <2>4 DEF StillOpen
<1> QED
  BY <1>3, <1>4, <1>5, <1>6 DEF SearchInv

\* What the search knows does not change with what it does not look at.
LEMMA KnownStays ==
    ASSUME UNCHANGED <<m_sym_graph, dfas, ts, task>>
    PROVE  /\ Five' <=> Five
           /\ First' = First
           /\ \A node : goal(node)' <=> goal(node)
           /\ \A walk : Extensions(walk)' = Extensions(walk)
           /\ \A walks : PlanSet(walks)' = PlanSet(walks)
           /\ UNCHANGED <<open_set, g_2_min, g_2_min_goal, solutions>> => (SearchKnown' <=> SearchKnown)
<1>1. Five' <=> Five
  BY DEF Five, IsPartial
<1>2. First' = First
  BY DEF First
<1>3. \A node : goal(node)' <=> goal(node)
  BY DEF goal
<1>4. \A walk : Extensions(walk)' = Extensions(walk)
  <2>1. \A node, edge : EdgeCost(node, edge)' = EdgeCost(node, edge)
    BY DEF EdgeCost, IsPartial
  <2>2. \A walk, child, edge : Extend(walk, child, edge)' = Extend(walk, child, edge)
    BY <2>1 DEF Extend
  <2> QED
    BY <2>2 DEF Extensions
<1>5. \A walks : PlanSet(walks)' = PlanSet(walks)
  <2>1. \A walk, g_score : Plan(walk, g_score)' = Plan(walk, g_score)
    BY SameWalks
  <2> QED
    BY <2>1 DEF PlanSet
<1>6. ASSUME UNCHANGED <<open_set, g_2_min, g_2_min_goal, solutions>>
      PROVE  SearchKnown' <=> SearchKnown
  <2>1. FewInv' <=> FewInv
    BY <1>2, <1>3, <1>4, <1>6 DEF FewInv
  <2>2. SearchInv' <=> SearchInv
    <3>1. Looked(open_set, g_2_min, solutions)' <=> Looked(open_set, g_2_min, solutions)
      BY <1>6, SameSearch
    <3>2. FromStart(open_set, solutions)' <=> FromStart(open_set, solutions)
      BY <1>6, SameSearch
    <3>3. Ordered(open_set, g_2_min_goal, solutions)' <=> Ordered(open_set, g_2_min_goal, solutions)
      BY <1>6
    <3> QED
      BY <1>6, <3>1, <3>2, <3>3 DEF SearchInv
  <2> QED
    BY <1>1, <2>1, <2>2 DEF SearchKnown
<1> QED
  BY <1>1, <1>2, <1>3, <1>4, <1>5, <1>6

LEMMA SearchKeepsFew ==
    ASSUME CInv, IsPartial, ~ Five, FewInv, Search, phase' # "ended"
    PROVE  FewInv'
<1>1. UNCHANGED <<task, ts, dfas>>
  BY DEF Search
<1>2. PICK w \in open_set : SkipPruned(w) \/ ReachGoal(w) \/ Expand(w)
  BY DEF Search
<1>3. m_sym_graph' = m_sym_graph
  BY <1>2 DEF SkipPruned, ReachGoal, Expand
<1>4. w = First /\ open_set \ {w} = {} /\ solutions = <<>> /\ DOMAIN g_2_min = {} /\ g_2_min_goal = <<>>
  BY <1>2 DEF FewInv
<1>5. ~ Pruned(w)
  BY <1>4 DEF Pruned, PrunedAtNode
<1>6. First' = First /\ (goal(at(First))' <=> goal(at(First))) /\ Extensions(First)' = Extensions(First)
  <2>1. /\ First' = First
        /\ \A node : goal(node)' <=> goal(node)
        /\ \A walk : Extensions(walk)' = Extensions(walk)
    BY <1>1, <1>3, KnownStays
  <2>2. at(First)' = at(First)
    BY <2>1 DEF at
  <2> QED
    BY <2>1, <2>2
<1>7. CASE ReachGoal(w)
  <2>1. goal(at(w)) /\ open_set' = {} /\ solutions' = Append(<<>>, w)
    BY <1>4, <1>7 DEF ReachGoal
  <2>2. solutions' = <<w>>
    BY <2>1
  <2> QED
    BY <1>4, <1>6, <2>1, <2>2 DEF FewInv
<1>8. CASE Expand(w)
  <2>1. Len(weights) # Len(dfas)
    <3>1. PICK S : dfas \in Seq(S)
      BY DEF CInv
    <3>2. Len(weights) = 5
      BY DEF weights
    <3>3. DOMAIN dfas = 1 .. Len(dfas)
      BY <3>1
    <3> QED
      BY <3>2, <3>3 DEF Five
  <2>2. Extensions(w) = {}
    BY <1>8, <2>1 DEF Expand, Exit
  <2>3. ~ goal(at(w)) /\ solutions' = solutions
        /\ open_set' = (open_set \ {w}) \cup {x \in Extensions(w) : ~ PrunedAtNode(Closed(w), x)}
    BY <1>8, <2>2 DEF Expand
  <2> QED
    BY <1>4, <1>6, <2>2, <2>3 DEF FewInv
<1> QED
  BY <1>2, <1>5, <1>7, <1>8 DEF SkipPruned

LEMMA InitFInv == Init => FInv
BY DEF Init, FInv

LEMMA NextKeepsFInv == LInv /\ TInv /\ CInv /\ FInv /\ [Next]_vars => FInv'
<1> SUFFICES ASSUME LInv, TInv, CInv, FInv, [Next]_vars PROVE FInv'
  OBVIOUS
<1>1. CASE ParseCommandLine \/ Generate \/ OpenDFA \/ LoadDFA \/ RefuseDFA \/ KeepDFA
  <2>1. phase \in {"started", "generating", "loading"} /\ g_2_min_goal' = g_2_min_goal
    BY <1>1 DEF ParseCommandLine, Generate, OpenDFA, LoadDFA, RefuseDFA, KeepDFA, main_vars, search_vars
  <2>2. phase' \in {"started", "generating", "loading", "ended"}
    BY <1>1 DEF ParseCommandLine, Generate, OpenDFA, LoadDFA, RefuseDFA, KeepDFA, Exit, main_vars
  <2> QED
    BY <2>1, <2>2 DEF FInv
<1>2. CASE BeginPlan
  <2>1. /\ phase = "loading" /\ UNCHANGED <<ts, dfas, g_2_min, g_2_min_goal, solutions>>
        /\ \/ phase' = "ended"
           \/ /\ phase' = "planning" /\ m_sym_graph' = SymbolicProductGraph
              /\ open_set' = {Walk(<<init_node(SymbolicProductGraph)>>, <<>>, NoCost)}
    BY <1>2 DEF BeginPlan, Exit
  <2>2. NotBegun /\ g_2_min_goal = <<>>
    BY <2>1 DEF TInv, Begun, FInv
  <2>3. CASE phase' = "planning"
    <3>1. open_set' = {First'}
      BY <2>1, <2>3 DEF First
    <3>2. JustOpen'
      BY <2>1, <2>2, <3>1 DEF JustOpen, NotBegun
    <3>3. (JustOpen => SearchKnown)'
      BY FirstIsKnown, PTL
    <3> QED
      BY <2>3, <3>2, <3>3 DEF FInv
  <2>4. CASE phase' = "ended"
    BY <2>4 DEF FInv
  <2> QED
    BY <2>1, <2>3, <2>4
<1>3. CASE Search
  <2>1. phase = "planning" /\ Begun /\ UNCHANGED <<task, ts, dfas>>
    BY <1>3 DEF Search, TInv, NotBegun
  <2>2. PICK w \in open_set : SkipPruned(w) \/ ReachGoal(w) \/ Expand(w)
    BY <1>3 DEF Search
  <2>3. m_sym_graph' = m_sym_graph /\ phase' \in {"planning", "ended"}
    BY <2>1, <2>2 DEF SkipPruned, ReachGoal, Expand, Exit
  <2>4. ASSUME phase' = "planning", IsPartial' PROVE SearchKnown'
    <3>1. IsPartial /\ SearchKnown /\ (Five' <=> Five)
      <4>1. Five' <=> Five
        BY <2>1, <2>3, KnownStays
      <4> QED
        BY <2>1, <2>4, <4>1 DEF IsPartial, FInv
    <3>2. CASE Five
      <4>1. SearchInv'
        BY <1>3, <2>1, <3>1, <3>2, SearchKeepsSearchInv DEF SearchKnown
      <4> QED
        BY <3>1, <3>2, <4>1 DEF SearchKnown
    <3>3. CASE ~ Five
      <4>1. FewInv'
        BY <1>3, <2>4, <3>1, <3>3, SearchKeepsFew DEF SearchKnown
      <4> QED
        BY <3>1, <3>3, <4>1 DEF SearchKnown
    <3> QED
      BY <3>2, <3>3
  <2> QED
    BY <2>3, <2>4 DEF FInv
<1>4. CASE EndPlan \/ WritePlan \/ Terminated \/ UNCHANGED vars
  <2>1. UNCHANGED <<task, ts, dfas, search_vars>>
    BY <1>4 DEF EndPlan, WritePlan, Terminated, vars, main_vars
  <2>2. \/ phase' = phase /\ plan_set' = plan_set
        \/ phase = "planning" /\ phase' = "writing" /\ open_set = {} /\ plan_set' = PlanSet(solutions)
    BY <1>4 DEF EndPlan, WritePlan, Terminated, vars, main_vars, written_vars
  <2>3. (SearchKnown' <=> SearchKnown) /\ (IsPartial' <=> IsPartial)
    BY <2>1, KnownStays DEF search_vars, IsPartial
  <2>4. PlanSet(solutions)' = PlanSet(solutions)
    BY <2>1, KnownStays DEF search_vars
  <2>5. g_2_min_goal' = g_2_min_goal /\ open_set' = open_set /\ solutions' = solutions
    BY <2>1 DEF search_vars
  <2>6. PlanSet(solutions)' = PlanSet(solutions') /\ (phase \in {"planning", "writing"} /\ IsPartial => SearchKnown)
    BY <2>4, <2>5 DEF FInv
  <2> HIDE DEF SearchKnown
  <2>7. phase' \in {"planning", "writing"} /\ IsPartial' => SearchKnown'
    BY <2>2, <2>3, <2>6
  <2>8. phase' = "writing" => open_set' = {} /\ plan_set' = PlanSet(solutions)'
    BY <2>2, <2>4, <2>5 DEF FInv
  <2>9. phase' \in {"started", "generating", "loading"} => g_2_min_goal' = <<>>
    BY <2>2, <2>5 DEF FInv
  <2> QED
    BY <2>7, <2>8, <2>9 DEF FInv
<1>5. CASE Finish
  BY <1>5 DEF Finish, Exit, FInv
<1> QED
  BY <1>1, <1>2, <1>3, <1>4, <1>5 DEF Next

-----------------------------------------------------------------------------
(***************************************************************************)
(* The runs of the tasks are paths of the product.                         *)
(***************************************************************************)
\* Nothing else is read together.
LEMMA ChosenAreReadings ==
    ASSUME NEW n \in Nat, DOMAIN dfas = 1 .. n, NEW states, NEW cell, NEW reading \in Readings(states, cell)
    PROVE  \A i \in DOMAIN dfas : reading[i] \in Ways(states, cell, i)
<1>1. PICK h : ReadStepwise(states, cell, n, h)
  BY ReadingsAreStepwise
<1> DEFINE V == UNION {Ways(states, cell, i) : i \in 1 .. n}
           Fits(w, k) == w \in Seq(V) /\ Len(w) = k /\ \A i \in 1 .. k : w[i] \in Ways(states, cell, i)
           Holds(k) == \A w \in h[1 .. k] : Fits(w, k)
           Missed == {k \in 0 .. n : ~ Holds(k)}
<1>2. Holds(0)
  <2>1. \A w \in h[1 .. 0] : w = <<>>
    BY <1>1 DEF ReadStepwise
  <2>2. <<>> \in Seq(V) /\ Len(<<>>) = 0 /\ \A i \in 1 .. 0 : FALSE
    OBVIOUS
  <2> QED
    BY <2>1, <2>2
<1>3. ASSUME NEW k \in 0 .. n, k # n, Holds(k) PROVE Holds(k + 1)
  <2>1. k \in Nat /\ k + 1 \in 1 .. n /\ (k + 1) - 1 = k
    BY <1>3
  <2>2. h[1 .. k + 1] = ChosenOn(states, cell, h[1 .. k], k + 1)
    <3>1. h[1 .. k + 1] = ChosenOn(states, cell, h[1 .. (k + 1) - 1], k + 1)
      BY <1>1, <2>1 DEF ReadStepwise
    <3> QED
      BY <2>1, <3>1
  <2> SUFFICES ASSUME NEW v \in h[1 .. k + 1] PROVE Fits(v, k + 1)
    OBVIOUS
  <2>3. PICK w \in h[1 .. k], x \in Ways(states, cell, k + 1) : v = Append(w, x)
    BY <2>2 DEF ChosenOn
  <2>4. w \in Seq(V) /\ Len(w) = k /\ (\A i \in 1 .. k : w[i] \in Ways(states, cell, i)) /\ x \in V
    BY <1>3, <2>1, <2>3
  <2> HIDE DEF V
  <2>5. v \in Seq(V) /\ Len(v) = k + 1 /\ v[k + 1] = x /\ \A i \in 1 .. k : v[i] = w[i]
    BY <2>1, <2>3, <2>4
  <2>6. ASSUME NEW i \in 1 .. k + 1 PROVE v[i] \in Ways(states, cell, i)
    <3>1. CASE i = k + 1
      BY <2>3, <2>5, <3>1
    <3>2. CASE i # k + 1
      <4>1. i \in 1 .. k
        BY <2>1, <3>2
      <4> QED
        BY <2>4, <2>5, <4>1
    <3> QED
      BY <3>1, <3>2
  <2> QED
    BY <2>5, <2>6
<1>4. Missed = {}
  <2> SUFFICES ASSUME Missed # {} PROVE FALSE
    OBVIOUS
  <2>1. PICK l \in Missed : \A k \in Missed : l <= k
    <3>1. Missed \in SUBSET Nat
      OBVIOUS
    <3> HIDE DEF Missed
    <3> QED
      BY <3>1, LeastNumber
  <2>2. l \in 0 .. n /\ ~ Holds(l)
    BY <2>1
  <2> HIDE DEF Holds
  <2>3. l # 0
    BY <1>2, <2>2
  <2>4. l - 1 \in 0 .. n /\ (l - 1) + 1 = l /\ ~ (l <= l - 1) /\ l - 1 # n
    BY <2>2, <2>3
  <2>5. Holds(l - 1)
    BY <2>1, <2>4
  <2>6. Holds((l - 1) + 1)
    BY <1>3, <2>4, <2>5
  <2> QED
    BY <2>2, <2>4, <2>6
<1>5. Holds(n)
  <2>1. n \in 0 .. n
    OBVIOUS
  <2> HIDE DEF Holds
  <2> QED
    BY <1>4, <2>1
<1>6. Fits(reading, n)
  BY <1>1, <1>5 DEF ReadStepwise
<1> QED
  BY <1>6

\* A run is in states of the automata.
Inside(run) == \A i \in DOMAIN dfas : run.states[i] \in States(dfas[i])

\* A move of a run is a connection of the product, and a step of its node.
LEMMA MovesAreSteps ==
    ASSUME Ready, NEW node \in WideNode(m_sym_graph), NEW run, Agrees(node, run), Inside(run),
           NEW c \in MovesOf(run), NEW reading \in Readings(run.states, c.dst)
    PROVE  \E x \in Range(Connected(m_sym_graph, node)) :
              /\ x.model = c /\ DOMAIN x.automata = DOMAIN dfas
              /\ \A i \in DOMAIN dfas : /\ reading[i].dst = x.automata[i].dst /\ reading[i].edge = x.automata[i].edge
                                        /\ reading[i].dst \in States(dfas[i])
<1> DEFINE p == m_sym_graph
           entry(i) == [src |-> run.states[i], dst |-> reading[i].dst, edge |-> reading[i].edge]
           y == [model |-> c, automata |-> [i \in DOMAIN dfas |-> entry(i)]]
<1>1. /\ IsPlannable(p) /\ DOMAIN p.automata = DOMAIN dfas /\ p.model = ts.model
      /\ \A i \in DOMAIN dfas : IsRun(dfas[i]) /\ p.automata[i] = GraphOf(dfas[i])
  BY ReadyToPlan
<1>2. PICK n \in Nat : DOMAIN dfas = 1 .. n
  BY ReadyToPlan
<1>3. \A i \in DOMAIN dfas : reading[i] \in Ways(run.states, c.dst, i)
  BY <1>2, ChosenAreReadings
<1>4. ASSUME NEW i \in DOMAIN dfas
      PROVE  /\ entry(i) \in Range(p.automata[i].connections)
             /\ <<c.dst, reading[i].edge.observation>> \in ts.observed
             /\ reading[i].dst \in States(dfas[i])
  <2>1. reading[i] \in Range(leaving(dfas[i], run.states[i])) /\ <<c.dst, reading[i].edge.observation>> \in ts.observed
    BY <1>3 DEF Ways
  <2>2. entry(i) \in Range(GraphOf(dfas[i]).connections)
    BY <1>1, <2>1, GraphOfAutomaton DEF Inside
  <2>3. IsListed(dfas[i], entry(i))
    BY <1>1, <2>2, GraphOfAutomaton
  <2> QED
    BY <1>1, <2>1, <2>2, <2>3 DEF IsListed
<1>5. c \in Range(ts.model.connections) /\ c.src = run.cell /\ c.dst \in Node(ts.model)
  BY DEF MovesOf, Ready, LInv, IsWorld
<1>6. ASSUME NEW i \in DOMAIN dfas PROVE observe(p, c.dst, reading[i].edge)
  <2> DEFINE asked == {x.edge : x \in UNION {Range(p.automata[j].connections) : j \in DOMAIN p.automata}}
  <2>1. p.observe = {o \in Node(ts.model) \X asked : <<o[1], o[2].observation>> \in ts.observed}
    <3>1. p = SymbolicProductGraph
      BY DEF Ready
    <3> QED
      BY <3>1 DEF SymbolicProductGraph
  <2>2. reading[i].edge \in asked
    <3>1. entry(i) \in Range(p.automata[i].connections) /\ entry(i).edge = reading[i].edge
      BY <1>4
    <3> HIDE DEF entry
    <3> QED
      BY <1>1, <3>1
  <2> DEFINE o == <<c.dst, reading[i].edge>>
  <2>3. o[1] = c.dst /\ o[2] = reading[i].edge
    OBVIOUS
  <2>4. o \in Node(ts.model) \X asked
    BY <1>5, <2>2
  <2>5. <<o[1], o[2].observation>> \in ts.observed
    BY <1>4, <2>3
  <2> HIDE DEF asked, o
  <2>6. o \in p.observe
    BY <2>1, <2>4, <2>5
  <2> QED
    BY <2>6 DEF observe, o
<1>7. /\ y.model = c /\ DOMAIN y.automata = DOMAIN dfas
      /\ \A i \in DOMAIN dfas : /\ y.automata[i] = entry(i) /\ y.automata[i].src = run.states[i]
                                /\ y.automata[i].dst = reading[i].dst /\ y.automata[i].edge = reading[i].edge
  OBVIOUS
<1> HIDE DEF y, entry, p
<1>8. /\ unwrap(p, node)[1] = run.cell
      /\ \A i \in DOMAIN dfas : unwrap(p, node)[i + 1] = run.states[i]
  BY DEF Agrees, p
<1>9. IsStep(p, node, y)
  BY <1>1, <1>4, <1>5, <1>6, <1>7, <1>8 DEF IsStep
<1>10. PICK x \in Range(Connected(p, node)) : x.model = y.model /\ \A i \in DOMAIN p.automata : x.automata[i] = y.automata[i]
  BY <1>1, <1>9, ConnectionsLeave DEF p
<1>11. DOMAIN x.automata = DOMAIN p.automata
  BY <1>1, <1>10, ConnectionsLeave DEF IsStep, p
<1> QED
  BY <1>1, <1>4, <1>7, <1>10, <1>11 DEF p

\* So does the node it leads to agree with where the run gets.
LEMMA MovedIsThere ==
    ASSUME Ready, NEW node \in WideNode(m_sym_graph), NEW run, Agrees(node, run), Inside(run),
           NEW c \in MovesOf(run), NEW reading \in Readings(run.states, c.dst)
    PROVE  /\ Inside(Moved(run, c, reading))
           /\ \E x \in Range(Connected(m_sym_graph, node)) :
                 /\ Destination(m_sym_graph, x) \in WideNode(m_sym_graph)
                 /\ Agrees(Destination(m_sym_graph, x), Moved(run, c, reading))
                 /\ Moved(run, c, reading).g_score = gScore(run.g_score, EdgeCost(node, Inherited(x)))
<1> DEFINE p == m_sym_graph
           next == Moved(run, c, reading)
<1>1. PICK x \in Range(Connected(p, node)) :
         /\ x.model = c /\ DOMAIN x.automata = DOMAIN dfas
         /\ \A i \in DOMAIN dfas : /\ reading[i].dst = x.automata[i].dst /\ reading[i].edge = x.automata[i].edge
                                   /\ reading[i].dst \in States(dfas[i])
  BY MovesAreSteps
<1>2. /\ next.cell = x.model.dst
      /\ \A i \in DOMAIN dfas : next.states[i] = x.automata[i].dst
      /\ next.g_score = gScore(run.g_score, EdgeCost(node, Inherited(x)))
  BY <1>1, CostsAgree
<1>3. IsPlannable(p) /\ DOMAIN p.automata = DOMAIN dfas
  BY ReadyToPlan
<1>4. HasParts(p, Destination(p, x), x.model.dst, [a \in DOMAIN p.automata |-> x.automata[a].dst])
  BY <1>1, <1>3, ConnectionsLeave
<1> HIDE DEF next, p
<1>5. Destination(p, x) \in WideNode(p) /\ Agrees(Destination(p, x), next)
  BY <1>2, <1>3, <1>4 DEF HasParts, Agrees, p
<1>6. Inside(next)
  BY <1>1, <1>2 DEF Inside
<1> QED
  BY <1>1, <1>2, <1>5, <1>6 DEF next, p

\* The runs of up to so many moves, move by move.
BoundedStepwise(h) ==
    /\ BoundedRuns = h[1 .. WalkBound] /\ h[1 .. 0] = {Start}
    /\ \A k \in 1 .. WalkBound : h[1 .. k] = h[1 .. k - 1] \cup Longer(h[1 .. k - 1])

LEMMA RunsAreBounded == \E h : BoundedStepwise(h)
<1> DEFINE N == WalkBound
           list == [k \in 1 .. N |-> k]
           Fold(g, T) == IF T = {} THEN {Start} ELSE g[T \ {Max(T)}] \cup Longer(g[T \ {Max(T)}])
<1>1. N \in Nat /\ DOMAIN list = 1 .. N
  BY BoundAssumption
<1>2. /\ FoldBase("bounded", 0) = {Start}
      /\ \A value, x : FoldStep("bounded", 0, value, x) = value \cup Longer(value)
  BY DEF FoldBase, FoldStep
<1>3. BoundedRuns = FoldLeft(LAMBDA runs, k : runs \cup Longer(runs), {Start}, list)
  BY DEF BoundedRuns, Longer
<1> HIDE DEF list
<1>4. \A g : FoldsTo("bounded", 0, list, N, g) <=> g = [T \in SUBSET DOMAIN list |-> Fold(g, T)]
  <2> SUFFICES ASSUME NEW g
               PROVE  FoldsTo("bounded", 0, list, N, g) <=> g = [T \in SUBSET DOMAIN list |-> Fold(g, T)]
    OBVIOUS
  <2>1. \A T : Fold(g, T) = IF T = {} THEN FoldBase("bounded", 0)
                            ELSE FoldStep("bounded", 0, g[T \ {Max(T)}], list[Max(T)])
    BY <1>2
  <2> HIDE DEF Fold
  <2> QED
    BY <1>1, <2>1 DEF FoldsTo
<1>5. \E g : g = [T \in SUBSET DOMAIN list |-> Fold(g, T)]
  BY <1>1, <1>4, FoldIsSolved
<1>6. PICK h : h = [T \in SUBSET DOMAIN list |-> Fold(h, T)] /\ BoundedRuns = h[DOMAIN list]
  BY <1>3, <1>5 DEF FoldLeft, MapThenFoldSet
<1>7. FoldsTo("bounded", 0, list, N, h)
  BY <1>4, <1>6
<1> HIDE DEF Fold, N
<1>8. FoldsStepwise("bounded", 0, list, N, h)
  BY <1>1, <1>7, PrefixValues
<1>9. h[1 .. 0] = {Start} /\ \A k \in 1 .. N : h[1 .. k] = h[1 .. k - 1] \cup Longer(h[1 .. k - 1])
  BY <1>2, <1>8 DEF FoldsStepwise
<1> QED
  BY <1>1, <1>6, <1>9 DEF BoundedStepwise, N

\* The first walk is where runs start.
LEMMA FirstIsAtTheStart ==
    ASSUME Ready
    PROVE  /\ at(First) = init_node(m_sym_graph) /\ First.g_score = NoCost
           /\ init_node(m_sym_graph) \in WideNode(m_sym_graph)
           /\ Agrees(init_node(m_sym_graph), Start) /\ Inside(Start) /\ Start.g_score = NoCost
<1> DEFINE node == init_node(m_sym_graph)
<1>1. IsWalk(First)
  BY FirstIsAWalk DEF First
<1>2. First.node_path = <<node>> /\ First.action_path = <<>> /\ First.g_score = NoCost
  BY DEF First, Walk
<1>3. PICK runs : IsTrace(First, runs)
  BY <1>1 DEF IsWalk
<1> HIDE DEF node
<1>4. Len(First.node_path) = 1 /\ First.node_path[1] = node
  BY <1>2
<1>5. Agrees(node, Start)
  BY <1>3, <1>4 DEF IsTrace
<1>6. at(First) = node
  BY <1>4 DEF at, Last
<1>7. node \in WideNode(m_sym_graph)
  BY <1>1, <1>6, WalksHaveNodes
<1>8. Inside(Start) /\ Start.g_score = NoCost
  <2>1. \A i \in DOMAIN dfas : IsRun(dfas[i])
    BY ReadyToPlan
  <2> QED
    BY <2>1 DEF Inside, Start, IsRun
<1> QED
  BY <1>2, <1>5, <1>6, <1>7, <1>8 DEF node

\* A run is at the end of steps of the product that it has paid for.
IsAlong(run, n, c, L) ==
    /\ IsWay(n, c, L) /\ n[1] = init_node(m_sym_graph) /\ c[1] = <<0, 0>>
    /\ n[L + 1] \in WideNode(m_sym_graph) /\ Agrees(n[L + 1], run)
    /\ IsScore(run.g_score) /\ c[L + 1] = Both(run.g_score)

Reached(run) == Inside(run) /\ IF Five THEN \E n, c, L : IsAlong(run, n, c, L) ELSE run = Start

LEMMA StartIsReached ==
    ASSUME Ready
    PROVE  Reached(Start)
<1> DEFINE n == [k \in 1 .. 1 |-> init_node(m_sym_graph)]
           c == [k \in 1 .. 1 |-> <<0, 0>>]
<1>1. /\ Agrees(init_node(m_sym_graph), Start) /\ Inside(Start) /\ Start.g_score = NoCost
      /\ init_node(m_sym_graph) \in WideNode(m_sym_graph)
  BY FirstIsAtTheStart
<1>2. IsScore(NoCost) /\ Both(NoCost) = <<0, 0>>
  <2>1. NoCost.cost = 0 /\ NoCost.pcs = <<>>
    BY DEF NoCost
  <2> QED
    BY <2>1, SumOfNothing DEF IsScore, Both
<1>3. n[1] = init_node(m_sym_graph) /\ c[1] = <<0, 0>> /\ 0 + 1 = 1 /\ 0 \in Nat /\ IsPair(<<0, 0>>)
  BY DEF IsPair
<1> HIDE DEF n, c
<1>4. IsWay(n, c, 0)
  <2>1. (\A k \in 1 .. 0 + 1 : k = 1) /\ (\A k \in 1 .. 0 : FALSE)
    OBVIOUS
  <2> QED
    BY <1>3, <2>1 DEF IsWay
<1>5. IsAlong(Start, n, c, 0)
  BY <1>1, <1>2, <1>3, <1>4 DEF IsAlong
<1> QED
  BY <1>1, <1>5 DEF Reached

\* One more step.
LEMMA WaysGoOn ==
    ASSUME NEW n, NEW c, NEW L, IsWay(n, c, L), ~ goal(n[L + 1]),
           NEW m, NEW e, IsPair(e), Step(n[L + 1], m, e)
    PROVE  \E n2, c2 : /\ IsWay(n2, c2, L + 1) /\ n2[1] = n[1] /\ c2[1] = c[1]
                       /\ n2[L + 2] = m /\ c2[L + 2] = Sum(c[L + 1], e)
<1> DEFINE n2 == [k \in 1 .. L + 2 |-> IF k = L + 2 THEN m ELSE n[k]]
           c2 == [k \in 1 .. L + 2 |-> IF k = L + 2 THEN Sum(c[L + 1], e) ELSE c[k]]
<1>1. L \in Nat /\ \A k \in 1 .. L + 1 : IsPair(c[k])
  BY DEF IsWay
<1>2. /\ n2[L + 2] = m /\ c2[L + 2] = Sum(c[L + 1], e)
      /\ \A k \in 1 .. L + 1 : n2[k] = n[k] /\ c2[k] = c[k]
  BY <1>1
<1> HIDE DEF n2, c2
<1>3. \A k \in 1 .. (L + 1) + 1 : IsPair(c2[k])
  <2> SUFFICES ASSUME NEW k \in 1 .. (L + 1) + 1 PROVE IsPair(c2[k])
    OBVIOUS
  <2>1. k = L + 2 \/ k \in 1 .. L + 1
    BY <1>1
  <2>2. L + 1 \in 1 .. L + 1
    BY <1>1
  <2>3. IsPair(Sum(c[L + 1], e))
    BY <1>1, <2>2, SumIsNoLess
  <2> QED
    BY <1>1, <1>2, <2>1, <2>3
<1>4. ASSUME NEW k \in 1 .. L + 1
      PROVE  ~ goal(n2[k]) /\ \E d : IsPair(d) /\ Step(n2[k], n2[k + 1], d) /\ c2[k + 1] = Sum(c2[k], d)
  <2>1. CASE k = L + 1
    <3>1. n2[k] = n[L + 1] /\ c2[k] = c[L + 1] /\ n2[k + 1] = m /\ c2[k + 1] = Sum(c[L + 1], e)
      <4>1. k + 1 = L + 2
        BY <1>1, <2>1
      <4> QED
        BY <1>2, <2>1, <4>1
    <3> QED
      BY <3>1
  <2>2. CASE k # L + 1
    <3>1. k \in 1 .. L /\ k + 1 \in 1 .. L + 1
      BY <1>1, <2>2
    <3>2. n2[k] = n[k] /\ c2[k] = c[k] /\ n2[k + 1] = n[k + 1] /\ c2[k + 1] = c[k + 1]
      BY <1>2, <3>1
    <3> QED
      BY <3>1, <3>2 DEF IsWay
  <2> QED
    BY <2>1, <2>2
<1>5. IsWay(n2, c2, L + 1)
  <2>1. L + 1 \in Nat
    BY <1>1
  <2> QED
    BY <1>3, <1>4, <2>1 DEF IsWay
<1>6. 1 \in 1 .. L + 1
  BY <1>1
<1> QED
  BY <1>2, <1>5, <1>6

\* Who has not satisfied the tasks goes on to where one gets, too.
LEMMA MovedIsReached ==
    ASSUME Ready, CInv, IsPartial, SearchKnown, open_set = {},
           NEW run, Reached(run), ~ Satisfied(run),
           NEW c \in MovesOf(run), NEW reading \in Readings(run.states, c.dst)
    PROVE  Reached(Moved(run, c, reading))
<1> DEFINE p == m_sym_graph
           next == Moved(run, c, reading)
<1>1. CASE Five
  <2>1. PICK n, d, L : IsAlong(run, n, d, L)
    BY <1>1 DEF Reached
  <2> DEFINE node == n[L + 1]
  <2>2. /\ IsWay(n, d, L) /\ node \in WideNode(p) /\ Agrees(node, run) /\ IsScore(run.g_score)
        /\ d[L + 1] = Both(run.g_score) /\ Inside(run)
    BY <2>1 DEF IsAlong, Reached
  <2>3. ~ goal(node)
    BY <2>2, GoalsSatisfy
  <2>4. Inside(next)
    BY <2>2, MovedIsThere
  <2>5. PICK x \in Range(Connected(p, node)) :
           /\ Destination(p, x) \in WideNode(p) /\ Agrees(Destination(p, x), next)
           /\ next.g_score = gScore(run.g_score, EdgeCost(node, Inherited(x)))
    BY <2>2, MovedIsThere
  <2> DEFINE e == EdgeCost(node, Inherited(x))
             m == Destination(p, x)
  <2>6. IsCharge(e)
    BY <1>1, <2>2, EdgesAreCharged
  <2>7. Step(node, m, Both(e))
    BY DEF Step
  <2> HIDE DEF e, m, next
  <2>8. IsScore(next.g_score) /\ IsPair(Both(e)) /\ Both(next.g_score) = Sum(d[L + 1], Both(e))
    BY <2>2, <2>5, <2>6, CostsAdd DEF e
  <2>9. PICK n2, d2 : /\ IsWay(n2, d2, L + 1) /\ n2[1] = n[1] /\ d2[1] = d[1]
                      /\ n2[L + 2] = m /\ d2[L + 2] = Sum(d[L + 1], Both(e))
    BY <2>2, <2>3, <2>7, <2>8, WaysGoOn
  <2>10. (L + 1) + 1 = L + 2
    BY <2>2 DEF IsWay
  <2>11. IsAlong(next, n2, d2, L + 1)
    BY <2>1, <2>5, <2>8, <2>9, <2>10 DEF IsAlong, m
  <2> QED
    BY <1>1, <2>4, <2>11 DEF Reached, next
<1>2. CASE ~ Five
  <2>1. run = Start /\ Inside(run)
    BY <1>2 DEF Reached
  <2> DEFINE node == init_node(p)
  <2>2. at(First) = node /\ node \in WideNode(p) /\ Agrees(node, run)
    BY <2>1, FirstIsAtTheStart
  <2>3. ~ goal(node)
    BY <2>2, GoalsSatisfy
  <2>4. Extensions(First) = {}
    BY <1>2, <2>2, <2>3 DEF SearchKnown, FewInv
  <2>5. PICK x \in Range(Connected(p, node)) : TRUE
    BY <2>1, <2>2, MovedIsThere
  <2>6. Extend(First, Destination(p, x), Inherited(x)) \in Extensions(First)
    BY <2>2, <2>5, ExtensionsAreListed
  <2> QED
    BY <2>4, <2>6
<1> QED
  BY <1>1, <1>2

LEMMA RunsAreReached ==
    ASSUME Ready, CInv, IsPartial, SearchKnown, open_set = {}
    PROVE  \A run \in BoundedRuns : Reached(run)
<1>1. PICK h : BoundedStepwise(h)
  BY RunsAreBounded
<1> DEFINE Holds(k) == \A run \in h[1 .. k] : Reached(run)
           Missed == {k \in 0 .. WalkBound : ~ Holds(k)}
<1>2. Holds(0)
  BY <1>1, StartIsReached DEF BoundedStepwise
<1>3. ASSUME NEW k \in 0 .. WalkBound, k # WalkBound, Holds(k) PROVE Holds(k + 1)
  <2>1. k \in Nat /\ k + 1 \in 1 .. WalkBound /\ (k + 1) - 1 = k
    BY <1>3, BoundAssumption
  <2>2. h[1 .. k + 1] = h[1 .. k] \cup Longer(h[1 .. k])
    <3>1. h[1 .. k + 1] = h[1 .. (k + 1) - 1] \cup Longer(h[1 .. (k + 1) - 1])
      BY <1>1, <2>1 DEF BoundedStepwise
    <3> QED
      BY <2>1, <3>1
  <2>3. \A run \in Longer(h[1 .. k]) : Reached(run)
    <3> SUFFICES ASSUME NEW next \in Longer(h[1 .. k]) PROVE Reached(next)
      OBVIOUS
    <3>1. PICK run \in h[1 .. k] :
             /\ ~ Satisfied(run)
             /\ \E c \in MovesOf(run) : \E reading \in Readings(run.states, c.dst) : next = Moved(run, c, reading)
      BY DEF Longer
    <3> QED
      BY <1>3, <3>1, MovedIsReached
  <2> QED
    BY <1>3, <2>2, <2>3
<1>4. Missed = {}
  <2> SUFFICES ASSUME Missed # {} PROVE FALSE
    OBVIOUS
  <2>1. PICK l \in Missed : \A k \in Missed : l <= k
    <3>1. Missed \in SUBSET Nat
      BY BoundAssumption
    <3> HIDE DEF Missed
    <3> QED
      BY <3>1, LeastNumber
  <2>2. l \in 0 .. WalkBound /\ ~ Holds(l)
    BY <2>1
  <2> HIDE DEF Holds
  <2>3. l # 0
    BY <1>2, <2>2
  <2>4. l - 1 \in 0 .. WalkBound /\ (l - 1) + 1 = l /\ ~ (l <= l - 1) /\ l - 1 # WalkBound
    BY <2>2, <2>3, BoundAssumption
  <2>5. Holds(l - 1)
    BY <2>1, <2>4
  <2>6. Holds((l - 1) + 1)
    BY <1>3, <2>4, <2>5
  <2> QED
    BY <2>2, <2>4, <2>6
<1>5. Holds(WalkBound)
  BY <1>4, BoundAssumption
<1> QED
  BY <1>1, <1>5 DEF BoundedStepwise

-----------------------------------------------------------------------------
\* The plans are the solutions, the last one first.
LEMMA PlansAreTurned ==
    ASSUME NEW S, NEW walks \in Seq(S)
    PROVE  /\ DOMAIN PlanSet(walks) = 1 .. Len(walks) /\ Len(walks) \in Nat
           /\ \A k \in 1 .. Len(walks) :
                 /\ Len(walks) - k + 1 \in 1 .. Len(walks)
                 /\ PlanSet(walks)[k].cost = Objectives(walks[Len(walks) - k + 1].g_score)
<1>1. Len(walks) \in Nat /\ DOMAIN walks = 1 .. Len(walks)
  OBVIOUS
<1>2. ASSUME NEW k \in 1 .. Len(walks)
      PROVE  /\ Len(walks) - k + 1 \in 1 .. Len(walks)
             /\ PlanSet(walks)[k].cost = Objectives(walks[Len(walks) - k + 1].g_score)
  <2>1. Len(walks) - k + 1 \in 1 .. Len(walks) /\ (Len(walks) - k) + 1 = Len(walks) - k + 1
    BY <1>1
  <2>2. Reverse(walks)[k] = walks[Len(walks) - k + 1]
    BY <1>1, <2>1 DEF Reverse
  <2> QED
    BY <1>1, <2>1, <2>2 DEF PlanSet, Plan
<1> QED
  BY <1>1, <1>2 DEF PlanSet

\* No worse in both objectives.
LEMMA LeqOfPairs ==
    ASSUME NEW a, NEW b
    PROVE  Costs!Leq(a, b) <=> a[1] <= b[1] /\ a[2] <= b[2]
<1>1. 1 .. 2 = {1, 2}
  OBVIOUS
<1> QED
  BY <1>1 DEF Costs!Leq, Costs!Objectives

\* Of one kind of program: no run is missed, when the search has ended.
LEMMA FiveAreComplete ==
    ASSUME Ready, Five, SearchInv, open_set = {}, NEW S, solutions \in Seq(S), plan_set = PlanSet(solutions)
    PROVE  /\ \A run : Reached(run) /\ Satisfied(run) =>
                 \E i \in DOMAIN plan_set : Costs!Leq(plan_set[i].cost, Objectives(run.g_score))
           /\ \A i, j \in DOMAIN plan_set : Costs!Leq(plan_set[i].cost, plan_set[j].cost) => i = j
<1> DEFINE N == Len(solutions)
<1>1. /\ N \in Nat /\ DOMAIN solutions = 1 .. N /\ DOMAIN plan_set = 1 .. N
      /\ \A k \in 1 .. N : N - k + 1 \in 1 .. N /\ plan_set[k].cost = Objectives(solutions[N - k + 1].g_score)
  BY PlansAreTurned
<1>2. \A g : Objectives(g) = Both(g)
  BY DEF Objectives, preferenceFunction, Five, Both
<1>3. \A k \in 1 .. N : plan_set[k].cost = O(solutions[N - k + 1]) /\ IsPair(O(solutions[N - k + 1]))
  BY <1>1, <1>2, ScoresArePairs DEF O, SearchInv
<1> HIDE DEF N
<1>4. ASSUME NEW run, Reached(run), Satisfied(run)
      PROVE  \E i \in DOMAIN plan_set : Costs!Leq(plan_set[i].cost, Objectives(run.g_score))
  <2>1. PICK n, c, L : IsAlong(run, n, c, L)
    BY <1>4 DEF Reached
  <2>2. goal(n[L + 1])
    BY <1>4, <2>1, GoalsSatisfy DEF IsAlong
  <2>3. IsPath(n, c, L) /\ L \in Nat /\ n[1] = init_node(m_sym_graph) /\ c[1] = <<0, 0>>
        /\ c[L + 1] = Both(run.g_score) /\ IsPair(Both(run.g_score))
    BY <2>1, <2>2, ScoresArePairs DEF IsAlong, IsPath, IsWay
  <2>4. Ahead(open_set, solutions, <<0, 0>>, n, c, L, 1, 1)
    BY <2>3 DEF SearchInv, FromStart
  <2>5. Solved(solutions, <<0, 0>>, c, L, 1)
    BY <2>4 DEF Ahead, StillOpen
  <2>6. PICK i \in 1 .. N : Pays(O(solutions[i]), c[1], <<0, 0>>, c[L + 1])
    BY <1>1, <2>5 DEF Solved
  <2>7. /\ O(solutions[i])[1] + 0 <= 0 + Both(run.g_score)[1]
        /\ O(solutions[i])[2] + 0 <= 0 + Both(run.g_score)[2]
    BY <2>3, <2>6 DEF Pays
  <2>8. N - i + 1 \in 1 .. N /\ N - (N - i + 1) + 1 = i
    BY <1>1
  <2>9. plan_set[N - i + 1].cost = O(solutions[i]) /\ IsPair(O(solutions[i]))
    BY <1>3, <2>8
  <2> DEFINE a == O(solutions[i])
             b == Both(run.g_score)
  <2>10. a[1] <= b[1] /\ a[2] <= b[2]
    <3>1. IsPair(a) /\ IsPair(b) /\ a[1] + 0 <= 0 + b[1] /\ a[2] + 0 <= 0 + b[2]
      BY <2>3, <2>7, <2>9
    <3> HIDE DEF a, b
    <3> QED
      BY <3>1 DEF IsPair
  <2>11. Costs!Leq(a, b)
    BY <2>10, LeqOfPairs
  <2> QED
    BY <1>1, <1>2, <2>8, <2>9, <2>11
<1>5. ASSUME NEW i \in DOMAIN plan_set, NEW j \in DOMAIN plan_set, Costs!Leq(plan_set[i].cost, plan_set[j].cost)
      PROVE  i = j
  <2> DEFINE k == N - i + 1
             l == N - j + 1
             a == O(solutions[k])
             b == O(solutions[l])
  <2>1. /\ k \in 1 .. N /\ l \in 1 .. N /\ plan_set[i].cost = a /\ plan_set[j].cost = b
        /\ IsPair(a) /\ IsPair(b)
    BY <1>1, <1>3
  <2>2. a[1] <= b[1] /\ a[2] <= b[2]
    BY <1>5, <2>1, LeqOfPairs
  <2>3. /\ k < l => a[1] < b[1] /\ b[2] < a[2]
        /\ l < k => b[1] < a[1] /\ a[2] < b[2]
    BY <1>1, <2>1 DEF SearchInv, Ordered
  <2> HIDE DEF a, b
  <2>4. ~ (k < l) /\ ~ (l < k)
    BY <2>1, <2>2, <2>3 DEF IsPair
  <2> QED
    BY <1>1, <2>1, <2>4
<1> QED
  BY <1>4, <1>5

LEMMA FewAreComplete ==
    ASSUME Ready, ~ Five, IsPartial, FewInv, open_set = {}, plan_set = PlanSet(solutions)
    PROVE  /\ \A run : Reached(run) /\ Satisfied(run) =>
                 \E i \in DOMAIN plan_set : Costs!Leq(plan_set[i].cost, Objectives(run.g_score))
           /\ \A i, j \in DOMAIN plan_set : Costs!Leq(plan_set[i].cost, plan_set[j].cost) => i = j
<1>1. /\ at(First) = init_node(m_sym_graph) /\ First.g_score = NoCost
      /\ Agrees(init_node(m_sym_graph), Start) /\ Start.g_score = NoCost
  BY FirstIsAtTheStart
<1>2. IF goal(at(First)) THEN solutions = <<First>> ELSE solutions = <<>>
  BY DEF FewInv
<1>3. solutions \in Seq({First}) /\ Len(solutions) \in 0 .. 1
      /\ (goal(at(First)) => Len(solutions) = 1 /\ solutions[1] = First)
  <2>1. CASE goal(at(First))
    <3> DEFINE x == First
    <3>1. solutions = <<x>>
      BY <1>2, <2>1
    <3> HIDE DEF x
    <3>2. solutions \in Seq({x}) /\ Len(solutions) = 1 /\ solutions[1] = x
      BY <3>1
    <3> QED
      BY <3>2 DEF x
  <2>2. CASE ~ goal(at(First))
    BY <1>2, <2>2
  <2> QED
    BY <2>1, <2>2
<1> DEFINE N == Len(solutions)
<1>4. /\ DOMAIN plan_set = 1 .. N
      /\ \A k \in 1 .. N : plan_set[k].cost = Objectives(solutions[N - k + 1].g_score)
  BY <1>3, PlansAreTurned
<1>5. \A i, j \in DOMAIN plan_set : i = j
  <2>1. N \in 0 .. 1
    BY <1>3
  <2> HIDE DEF N
  <2>2. \A i, j \in 1 .. N : i = j
    BY <2>1
  <2> QED
    BY <1>4, <2>2
<1>6. ASSUME NEW run, Reached(run), Satisfied(run)
      PROVE  \E i \in DOMAIN plan_set : Costs!Leq(plan_set[i].cost, Objectives(run.g_score))
  <2>1. run = Start
    BY <1>6 DEF Reached
  <2>2. goal(at(First))
    BY <1>1, <1>6, <2>1, GoalsSatisfy
  <2>3. N = 1 /\ solutions[1] = First
    BY <1>3, <2>2
  <2>4. 1 \in DOMAIN plan_set /\ 1 - 1 + 1 = 1
    BY <1>4, <2>3
  <2>5. plan_set[1].cost = Objectives(NoCost)
    BY <1>1, <1>4, <2>3, <2>4
  <2>6. Costs!Leq(Objectives(NoCost), Objectives(NoCost))
    <3>1. Objectives(NoCost) = <<0, 0>>
      <4>1. NoCost.cost = 0 /\ NoCost.pcs = <<>>
        BY DEF NoCost
      <4> QED
        BY <4>1, SumOfNothing DEF Objectives, preferenceFunction
    <3> QED
      BY <3>1, LeqOfPairs
  <2> QED
    BY <1>1, <2>1, <2>4, <2>5, <2>6
<1> QED
  BY <1>5, <1>6

LEMMA KnownIsComplete == LInv /\ TInv /\ CInv /\ FInv => (IsPartial => FrontIsComplete)
<1> SUFFICES ASSUME LInv, TInv, CInv, FInv, IsPartial, phase = "writing"
             PROVE  /\ \A run \in BoundedRuns : Satisfied(run) =>
                          \E i \in DOMAIN plan_set : Costs!Leq(plan_set[i].cost, Objectives(run.g_score))
                    /\ \A i, j \in DOMAIN plan_set : Costs!Leq(plan_set[i].cost, plan_set[j].cost) => i = j
  BY DEF FrontIsComplete
<1>1. Begun
  BY DEF TInv, NotBegun
<1>2. Ready
  BY <1>1 DEF Ready, Begun
<1>3. SearchKnown /\ open_set = {} /\ plan_set = PlanSet(solutions)
  BY DEF FInv
<1>4. \A run \in BoundedRuns : Reached(run)
  BY <1>2, <1>3, RunsAreReached
<1>5. PICK S : solutions \in Seq(S)
  BY <1>1 DEF Begun, Walked
<1>6. CASE Five
  <2>1. SearchInv
    BY <1>3, <1>6 DEF SearchKnown
  <2> QED
    BY <1>2, <1>3, <1>4, <1>5, <1>6, <2>1, FiveAreComplete
<1>7. CASE ~ Five
  <2>1. FewInv
    BY <1>3, <1>7 DEF SearchKnown
  <2> QED
    BY <1>2, <1>3, <1>4, <1>7, <2>1, FewAreComplete
<1> QED
  BY <1>6, <1>7

\* No way to satisfy the tasks is missed by the first program, when no action
\* and no substitution has a negative cost: for every run that does, however
\* many moves it takes, a plan is made that is no worse in either objective, and
\* no plan is worse than another.  A node that is expanded again is reached at a
\* higher cost for a lower preference, or pruned: what its walks go on to pay
\* does not depend on how they came there (BOAStar_impl.hpp:77).
THEOREM NoTradeOffIsMissed == Spec /\ NoCostIsNegative => [](IsPartial => FrontIsComplete)
<1>1. Init /\ NoCostIsNegative => CInv
  BY InitCInv
<1>2. Spec => [](IInv /\ SInv /\ LInv) /\ [](LInv /\ TInv)
  BY ReadIsKept, AlwaysTInv, PTL
<1>3. IInv /\ SInv /\ CInv /\ [Next]_vars => CInv'
  BY NextKeepsCInv
<1>4. Spec /\ NoCostIsNegative => []CInv
  BY <1>1, <1>2, <1>3, PTL DEF Spec
<1>5. Init => FInv
  BY InitFInv
<1>6. LInv /\ TInv /\ CInv /\ FInv /\ [Next]_vars => FInv'
  BY NextKeepsFInv
<1>7. Spec /\ NoCostIsNegative => []FInv
  BY <1>2, <1>4, <1>5, <1>6, PTL DEF Spec
<1>8. LInv /\ TInv /\ CInv /\ FInv => (IsPartial => FrontIsComplete)
  BY KnownIsComplete
<1> QED
  BY <1>2, <1>4, <1>7, <1>8, PTL
=============================================================================
