--------------------------- MODULE NAMOAStarProofs ---------------------------
(***************************************************************************)
(* NAMOAStar, proved for every problem.  What its open set, cost map and   *)
(* cost sets have to do with each other, and the types, take no assumption *)
(* on the heuristic but its type.  That the search finds the Pareto front, *)
(* that its pointers stay valid and that the extraction finds a path for   *)
(* every solution take an admissible heuristic, consistent or not, and a   *)
(* gScore that adds.                                                       *)
(***************************************************************************)
EXTENDS NAMOAStar, MOSearchProofs

\* What the open set points to, the popped item and the solutions are items.
PointersTyped ==
    /\ problem \in Problems
    /\ open_set \subseteq Item
    /\ solution_set \in Seq(Item)
    /\ pc = "neighbors" => curr \in Item

\* The open set's half of NoDanglingCost: an element of the open set points to
\* an item the cost map still holds.
OpenIsHeld == \A item \in open_set : IsHeld(item)

\* OpenFlagsAgree, over the nodes' cost sets.
FlagsAgree ==
    \A n \in DOMAIN cost_map : \A c \in DOMAIN cost_map[n] :
        /\ [node |-> n, cv |-> c] \in open_set => cost_map[n][c]
        /\ cost_map[n][c] =>
              \/ [node |-> n, cv |-> c] \in open_set
              \/ \E k \in DOMAIN solution_set : Dominates(solution_set[k].cv, c)

\* CostSetsNonDominated, pair by pair.
NoneDominates ==
    \A n \in DOMAIN cost_map : \A c, d \in DOMAIN cost_map[n] : ~ Dominates(c, d)

\* OpenIsHeld is not inductive by itself: KeptOpen looks for the open element of
\* an erased item only if the item is marked as open, so an element is left
\* behind unless the flags are right.
IInv == PointersTyped /\ OpenIsHeld /\ FlagsAgree /\ NoneDominates

-----------------------------------------------------------------------------
\* The neighbor looked at, and the walk to it, make an item.
LEMMA NeighborTyped ==
    ASSUME PointersTyped, pc = "neighbors", MoreNeighbors
    PROVE  [node |-> neighbor, cv |-> tentative_g_score] \in Item
<1>1. problem \in Problems /\ curr \in Item
  BY DEF PointersTyped
<1>2. problem.adj \in [Nodes -> Seq(Edge)]
  BY <1>1, MOProblemAssumption DEF IsProblem
<1>3. curr.node \in Nodes /\ curr.cv \in CostVector
  BY <1>1 DEF Item
<1>4. ToNeighbor \in Edge
  <2>1. neighborEdges(problem, curr.node) \in Seq(Edge)
    BY <1>2, <1>3 DEF neighborEdges
  <2>2. QED
    BY <2>1 DEF MoreNeighbors, ToNeighbor
<1>5. neighbor \in Nodes
  BY <1>4 DEF neighbor, Edge
<1>6. tentative_g_score \in CostVector
  BY <1>3, <1>4, SumTyped DEF tentative_g_score
<1>7. QED
  BY <1>5, <1>6 DEF Item

\* No pointer to a cost that is kept is lost, and none to an erased one is left.
LEMMA KeptOpenHeld ==
    ASSUME IInv, NEW o \in KeptOpen
    PROVE  /\ o \in open_set
           /\ o.cv \in Costs(o.node)
           /\ o.node = neighbor => o.cv \in DOMAIN KeptCosts
<1>1. o \in open_set
  BY DEF KeptOpen
<1>2. o.cv \in Costs(o.node)
  BY <1>1 DEF IInv, OpenIsHeld, IsHeld
<1>3. ASSUME o.node = neighbor PROVE o.cv \in DOMAIN KeptCosts
  <2>1. o = [node |-> neighbor, cv |-> o.cv]
    BY <1>1, <1>3 DEF IInv, PointersTyped, Item
  <2>2. neighbor \in DOMAIN cost_map /\ o.cv \in DOMAIN cost_map[neighbor]
    BY <1>2, <1>3 DEF Costs
  <2>3. cost_map[neighbor][o.cv]
    BY <1>1, <2>1, <2>2 DEF IInv, FlagsAgree
  <2>4. o.cv \notin Erased
    BY <2>1, <2>3 DEF KeptOpen
  <2>5. QED
    BY <1>2, <1>3, <2>4 DEF KeptCosts
<1>4. QED
  BY <1>1, <1>2, <1>3

\* What is kept in the cost map keeps its flag and, if it was open, stays so.
LEMMA KeptCostsAgree ==
    ASSUME IInv, NEW c \in DOMAIN KeptCosts
    PROVE  /\ neighbor \in DOMAIN cost_map
           /\ c \in DOMAIN cost_map[neighbor]
           /\ c \notin Erased
           /\ KeptCosts[c] = cost_map[neighbor][c]
           /\ [node |-> neighbor, cv |-> c] \in open_set
                 => [node |-> neighbor, cv |-> c] \in KeptOpen
<1>1. c \in Costs(neighbor) \ Erased /\ KeptCosts[c] = cost_map[neighbor][c]
  BY DEF KeptCosts
<1>2. neighbor \in DOMAIN cost_map /\ c \in DOMAIN cost_map[neighbor]
  BY <1>1 DEF Costs
<1>3. \A d : [node |-> neighbor, cv |-> c] = [node |-> neighbor, cv |-> d] => c = d
  OBVIOUS
<1>4. [node |-> neighbor, cv |-> c]
         \notin {[node |-> neighbor, cv |-> d] : d \in {d \in Erased : cost_map[neighbor][d]}}
  BY <1>1, <1>3
<1>5. QED
  BY <1>1, <1>2, <1>4 DEF KeptOpen

\* An item of another node is left alone.
LEMMA OthersAgree ==
    ASSUME NEW n, n # neighbor, NEW c, [node |-> n, cv |-> c] \in open_set
    PROVE  [node |-> n, cv |-> c] \in KeptOpen
BY DEF KeptOpen

-----------------------------------------------------------------------------
LEMMA InitIInv == Init => IInv
<1> SUFFICES ASSUME Init PROVE IInv
  OBVIOUS
<1> USE DEF Init
<1>1. problem.initialNodes \subseteq Nodes
  BY MOProblemAssumption DEF IsProblem
<1>2. PointersTyped
  BY <1>1, ZeroTyped DEF PointersTyped, Item
<1>3. OpenIsHeld
  BY DEF OpenIsHeld, IsHeld, Costs
<1>4. FlagsAgree
  BY DEF FlagsAgree
<1>5. NoneDominates
  BY DEF NoneDominates, Dominates, dominates
<1>6. QED
  BY <1>2, <1>3, <1>4, <1>5 DEF IInv

\* A step that leaves the pointers and the cost map alone, and does not enter
\* the loop over the neighbors.
LEMMA NothingChanges ==
    ASSUME IInv, UNCHANGED <<problem, cost_map, open_set, solution_set, curr>>,
           pc' = "neighbors" => pc = "neighbors"
    PROVE  IInv'
BY DEF IInv, PointersTyped, OpenIsHeld, IsHeld, Costs, FlagsAgree, NoneDominates

\* The two ways of popping, together: e is closed, and what else leaves the open
\* set is dominated by a solution.
LEMMA Popping ==
    ASSUME IInv, NEW e \in open_set,
           cost_map' = moveToClosed(e),
           open_set' \subseteq open_set \ {e},
           \A o \in (open_set \ {e}) \ open_set' :
              \E k \in DOMAIN solution_set' : Dominates(solution_set'[k].cv, o.cv),
           \A k \in DOMAIN solution_set :
              k \in DOMAIN solution_set' /\ solution_set'[k] = solution_set[k]
    PROVE  OpenIsHeld' /\ FlagsAgree' /\ NoneDominates'
<1>1. \* closing an item changes its flag and nothing else
      /\ DOMAIN cost_map' = DOMAIN cost_map
      /\ \A n \in DOMAIN cost_map :
            /\ DOMAIN cost_map'[n] = DOMAIN cost_map[n]
            /\ \A c \in DOMAIN cost_map[n] :
                  cost_map'[n][c] = IF n = e.node /\ c = e.cv THEN FALSE ELSE cost_map[n][c]
  BY DEF moveToClosed
<1>2. OpenIsHeld'
  BY <1>1 DEF IInv, OpenIsHeld, IsHeld, Costs
<1>3. FlagsAgree'
  <2> SUFFICES ASSUME NEW n \in DOMAIN cost_map', NEW c \in DOMAIN cost_map'[n]
               PROVE  /\ [node |-> n, cv |-> c] \in open_set' => cost_map'[n][c]
                      /\ cost_map'[n][c] =>
                            \/ [node |-> n, cv |-> c] \in open_set'
                            \/ \E k \in DOMAIN solution_set' :
                                  Dominates(solution_set'[k].cv, c)
    BY DEF FlagsAgree
  <2> DEFINE item == [node |-> n, cv |-> c]
  <2>1. n \in DOMAIN cost_map /\ c \in DOMAIN cost_map[n]
    BY <1>1
  <2>2. e = [node |-> e.node, cv |-> e.cv]
    BY DEF IInv, PointersTyped, Item
  <2>3. CASE n = e.node /\ c = e.cv
    <3>1. item = e
      BY <2>2, <2>3
    <3>2. item \notin open_set'
      BY <3>1
    <3>3. cost_map'[n][c] = FALSE
      BY <1>1, <2>1, <2>3
    <3>4. QED
      BY <3>2, <3>3
  <2>4. CASE ~ (n = e.node /\ c = e.cv)
    <3>1. item # e
      BY <2>4
    <3>2. cost_map'[n][c] = cost_map[n][c]
      BY <1>1, <2>1, <2>4
    <3>3. item \in open_set' => cost_map'[n][c]
      BY <2>1, <3>2 DEF IInv, FlagsAgree
    <3>4. ASSUME cost_map'[n][c], item \notin open_set'
          PROVE  \E k \in DOMAIN solution_set' : Dominates(solution_set'[k].cv, c)
      <4>1. CASE item \in open_set
        BY <3>1, <3>4, <4>1
      <4>2. CASE item \notin open_set
        <5>1. cost_map[n][c]
          BY <3>2, <3>4
        <5>2. PICK k \in DOMAIN solution_set : Dominates(solution_set[k].cv, c)
          BY <2>1, <4>2, <5>1 DEF IInv, FlagsAgree
        <5>3. QED
          BY <5>2
      <4>3. QED
        BY <4>1, <4>2
    <3>5. QED
      BY <3>3, <3>4
  <2>5. QED
    BY <2>3, <2>4
<1>4. NoneDominates'
  BY <1>1 DEF IInv, NoneDominates
<1>5. QED
  BY <1>2, <1>3, <1>4

LEMMA PopGoalIInv == IInv /\ PopGoal => IInv'
<1> SUFFICES ASSUME IInv, PopGoal PROVE IInv'
  OBVIOUS
<1>1. PICK e \in open_set :
         /\ cost_map' = moveToClosed(e)
         /\ solution_set' = Append(solution_set, e)
         /\ open_set' = OpenNotDominated(e.cv) \ {e}
  BY DEF PopGoal
<1>2. solution_set \in Seq(Item) /\ e \in Item
  BY DEF IInv, PointersTyped
<1>3. /\ solution_set' \in Seq(Item)
      /\ \A k \in DOMAIN solution_set :
            k \in DOMAIN solution_set' /\ solution_set'[k] = solution_set[k]
      /\ Len(solution_set) + 1 \in DOMAIN solution_set'
      /\ solution_set'[Len(solution_set) + 1] = e
  BY <1>1, <1>2
<1>4. open_set' \subseteq open_set \ {e}
  BY <1>1 DEF OpenNotDominated
<1>5. \A o \in (open_set \ {e}) \ open_set' :
         \E k \in DOMAIN solution_set' : Dominates(solution_set'[k].cv, o.cv)
  <2>1. \A o \in (open_set \ {e}) \ open_set' : Dominates(e.cv, o.cv)
    BY <1>1 DEF OpenNotDominated
  <2>2. QED
    BY <1>3, <2>1
<1>6. OpenIsHeld' /\ FlagsAgree' /\ NoneDominates'
  BY <1>1, <1>3, <1>4, <1>5, Popping
<1>7. PointersTyped'
  BY <1>1, <1>2, <1>3, <1>4 DEF PopGoal, IInv, PointersTyped
<1>8. QED
  BY <1>6, <1>7 DEF IInv

LEMMA PopExpandIInv == IInv /\ PopExpand => IInv'
<1> SUFFICES ASSUME IInv, PopExpand PROVE IInv'
  OBVIOUS
<1>1. PICK e \in open_set :
         cost_map' = moveToClosed(e) /\ open_set' = open_set \ {e} /\ curr' = e
  BY DEF PopExpand
<1>2. solution_set' = solution_set /\ problem' = problem
  BY DEF PopExpand
<1>3. OpenIsHeld' /\ FlagsAgree' /\ NoneDominates'
  BY <1>1, <1>2, Popping
<1>4. PointersTyped'
  BY <1>1, <1>2 DEF IInv, PointersTyped
<1>5. QED
  BY <1>3, <1>4 DEF IInv

LEMMA FilterNeighborIInv == IInv /\ FilterNeighbor => IInv'
<1> SUFFICES ASSUME IInv, FilterNeighbor PROVE IInv'
  OBVIOUS
<1>1. /\ DOMAIN cost_map' = DOMAIN cost_map
      /\ \A n \in DOMAIN cost_map :
            cost_map'[n] = IF n = neighbor THEN KeptCosts ELSE cost_map[n]
      /\ open_set' = KeptOpen
      /\ UNCHANGED <<problem, pc, solution_set, curr>>
  BY DEF FilterNeighbor
<1>2. PointersTyped'
  BY <1>1, KeptOpenHeld DEF IInv, PointersTyped
<1>3. OpenIsHeld'
  BY <1>1, KeptOpenHeld DEF OpenIsHeld, IsHeld, Costs
<1>4. FlagsAgree'
  <2> SUFFICES ASSUME NEW n \in DOMAIN cost_map', NEW c \in DOMAIN cost_map'[n]
               PROVE  /\ [node |-> n, cv |-> c] \in open_set' => cost_map'[n][c]
                      /\ cost_map'[n][c] =>
                            \/ [node |-> n, cv |-> c] \in open_set'
                            \/ \E k \in DOMAIN solution_set' :
                                  Dominates(solution_set'[k].cv, c)
    BY DEF FlagsAgree
  <2>1. CASE n = neighbor
    BY <1>1, <2>1, KeptOpenHeld, KeptCostsAgree DEF IInv, FlagsAgree
  <2>2. CASE n # neighbor
    BY <1>1, <2>2, KeptOpenHeld, OthersAgree DEF IInv, FlagsAgree
  <2>3. QED
    BY <2>1, <2>2
<1>5. NoneDominates'
  BY <1>1, KeptCostsAgree DEF IInv, NoneDominates
<1>6. QED
  BY <1>2, <1>3, <1>4, <1>5 DEF IInv

LEMMA AddNeighborIInv == IInv /\ AddNeighbor => IInv'
<1> SUFFICES ASSUME IInv, AddNeighbor PROVE IInv'
  OBVIOUS
<1> DEFINE g == tentative_g_score
           new == [node |-> neighbor, cv |-> g]
<1>1. /\ DOMAIN cost_map' = DOMAIN cost_map \cup {neighbor}
      /\ \A n \in DOMAIN cost_map' :
            cost_map'[n] = IF n = neighbor THEN Assign(KeptCosts, g, TRUE) ELSE cost_map[n]
      /\ open_set' = KeptOpen \cup {new}
      /\ UNCHANGED <<problem, pc, solution_set, curr>>
  BY DEF AddNeighbor, Assign
<1>2. /\ DOMAIN cost_map'[neighbor] = DOMAIN KeptCosts \cup {g}
      /\ \A c \in DOMAIN KeptCosts \cup {g} :
            cost_map'[neighbor][c] = IF c = g THEN TRUE ELSE KeptCosts[c]
  BY <1>1 DEF Assign
<1>3. new \in Item
  BY NeighborTyped DEF AddNeighbor, IInv
<1>4. PointersTyped'
  BY <1>1, <1>3, KeptOpenHeld DEF IInv, PointersTyped
<1>5. OpenIsHeld'
  <2> SUFFICES ASSUME NEW o \in open_set' PROVE IsHeld(o)'
    BY DEF OpenIsHeld
  <2>1. CASE o = new
    BY <1>1, <1>2, <2>1 DEF IsHeld, Costs
  <2>2. CASE o \in KeptOpen /\ o.node = neighbor
    BY <1>1, <1>2, <2>2, KeptOpenHeld DEF IsHeld, Costs
  <2>3. CASE o \in KeptOpen /\ o.node # neighbor
    BY <1>1, <2>3, KeptOpenHeld DEF IsHeld, Costs
  <2>4. QED
    BY <1>1, <2>1, <2>2, <2>3
<1>6. FlagsAgree'
  <2> SUFFICES ASSUME NEW n \in DOMAIN cost_map', NEW c \in DOMAIN cost_map'[n]
               PROVE  /\ [node |-> n, cv |-> c] \in open_set' => cost_map'[n][c]
                      /\ cost_map'[n][c] =>
                            \/ [node |-> n, cv |-> c] \in open_set'
                            \/ \E k \in DOMAIN solution_set' :
                                  Dominates(solution_set'[k].cv, c)
    BY DEF FlagsAgree
  <2>1. CASE n = neighbor /\ c = g
    BY <1>1, <1>2, <2>1
  <2>2. CASE n = neighbor /\ c # g
    <3>1. c \in DOMAIN KeptCosts /\ cost_map'[n][c] = KeptCosts[c]
      BY <1>2, <2>2
    <3>2. [node |-> n, cv |-> c] \in open_set' <=> [node |-> n, cv |-> c] \in KeptOpen
      BY <1>1, <2>2
    <3>3. QED
      BY <1>1, <2>2, <3>1, <3>2, KeptOpenHeld, KeptCostsAgree DEF IInv, FlagsAgree
  <2>3. CASE n # neighbor
    <3>1. [node |-> n, cv |-> c] \in open_set' <=> [node |-> n, cv |-> c] \in KeptOpen
      BY <1>1, <2>3
    <3>2. QED
      BY <1>1, <2>3, <3>1, KeptOpenHeld, OthersAgree DEF IInv, FlagsAgree
  <2>4. QED
    BY <2>1, <2>2, <2>3
<1>7. NoneDominates'
  <2> SUFFICES ASSUME NEW n \in DOMAIN cost_map',
                      NEW c \in DOMAIN cost_map'[n], NEW d \in DOMAIN cost_map'[n]
               PROVE  ~ Dominates(c, d)
    BY DEF NoneDominates
  <2>1. \A x \in DOMAIN KeptCosts : ~ Dominates(x, g) /\ ~ Dominates(g, x)
    <3>1. \A x \in Costs(neighbor) : ~ Dominates(x, g)
      BY DEF AddNeighbor, DominatedAt, Dominates
    <3>2. \A x \in Costs(neighbor) \ Erased : ~ Dominates(g, x)
      BY DEF Erased
    <3>3. QED
      BY <3>1, <3>2 DEF KeptCosts
  <2>2. ~ Dominates(g, g)
    BY DEF Dominates, dominates
  <2>3. CASE n = neighbor
    BY <1>2, <2>1, <2>2, <2>3, KeptCostsAgree DEF IInv, NoneDominates
  <2>4. CASE n # neighbor
    BY <1>1, <2>4 DEF IInv, NoneDominates
  <2>5. QED
    BY <2>3, <2>4
<1>8. QED
  BY <1>4, <1>5, <1>6, <1>7 DEF IInv

\* Every step of the search and of the extraction keeps the invariant.
LEMMA NextIInv == IInv /\ [Next]_vars => IInv'
<1> SUFFICES ASSUME IInv, [Next]_vars PROVE IInv'
  OBVIOUS
<1>1. CASE PopGoal
  BY <1>1, PopGoalIInv
<1>2. CASE PopExpand
  BY <1>2, PopExpandIInv
<1>3. CASE FilterNeighbor
  BY <1>3, FilterNeighborIInv
<1>4. CASE AddNeighbor
  BY <1>4, AddNeighborIInv
<1>5. CASE SkipKnown \/ EndNeighbors
  BY <1>5, NothingChanges DEF SkipKnown, EndNeighbors, searching
<1>6. CASE Fail \/ StartExtraction \/ RecordSolution \/ PassGoal
               \/ ReadPastGraph \/ FollowConnections \/ Package
  BY <1>6, NothingChanges
     DEF Fail, StartExtraction, RecordSolution, PassGoal, ReadPastGraph, FollowConnections,
         Package, searching
<1>7. CASE UNCHANGED vars
  BY <1>7, NothingChanges DEF vars
<1>8. QED
  BY <1>1, <1>2, <1>3, <1>4, <1>5, <1>6, <1>7 DEF Next

LEMMA InvariantHolds == Spec => []IInv
BY InitIInv, NextIInv, PTL DEF Spec

-----------------------------------------------------------------------------
\* However many better walks erase items of the cost map, the open set never
\* points to an erased one, under any heuristic (NAMOAStar_impl.hpp:147-167).
THEOREM OpenNeverDangles == Spec => [](\A item \in open_set : IsHeld(item))
<1>1. IInv => \A item \in open_set : IsHeld(item)
  BY DEF IInv, OpenIsHeld
<1>2. QED
  BY <1>1, InvariantHolds, PTL

\* An open element's item is marked as open; a marked item that is not open any
\* more was given up for a solution.
THEOREM FlagsFollowOpenSet == Spec => []OpenFlagsAgree
<1>1. IInv => OpenFlagsAgree
  BY DEF IInv, FlagsAgree, OpenFlagsAgree
<1>2. QED
  BY <1>1, InvariantHolds, PTL

\* The costs held for a node never dominate each other, so the search may stop
\* at the first that is as good as a new one.
THEOREM CostSetsTradeOff == Spec => []CostSetsNonDominated
<1>1. IInv => CostSetsNonDominated
  BY DEF IInv, NoneDominates, CostSetsNonDominated, NonDominated
<1>2. QED
  BY <1>1, InvariantHolds, PTL

-----------------------------------------------------------------------------
(***************************************************************************)
(* Types.                                                                  *)
(***************************************************************************)
Connection == [cv : CostVector, edge : Edge]

\* The search graph's part of TypeOK, list by list.
GraphTyped ==
    /\ search_graph \in [Nodes -> Seq(Connection)]
    /\ \A n \in Nodes : \A e \in Range(search_graph[n]) :
          e.edge \in Range(neighborEdges(problem, n))

\* Every path on the stack is a walk of the graph from an initial node.
StackIsWalks ==
    \A k \in DOMAIN stack :
        /\ Len(stack[k].node_path) = Len(stack[k].edge_path) + 1
        /\ stack[k].node_path[1] \in problem.initialNodes
        /\ \A j \in DOMAIN stack[k].edge_path :
              /\ stack[k].edge_path[j]
                    \in Range(neighborEdges(problem, stack[k].node_path[j]))
              /\ stack[k].edge_path[j].to = stack[k].node_path[j + 1]

TInv == TypeOK /\ GraphTyped /\ StackIsWalks

LEMMA TypeOKParts ==
    ASSUME GraphTyped
    PROVE  /\ search_graph \in [Nodes -> Seq([cv : CostVector, edge : Edge])]
           /\ \A n \in Nodes : \A k \in DOMAIN search_graph[n] :
                 search_graph[n][k].edge \in Range(neighborEdges(problem, n))
<1>1. ASSUME NEW n \in Nodes, NEW k \in DOMAIN search_graph[n]
      PROVE  search_graph[n][k].edge \in Range(neighborEdges(problem, n))
  <2>1. search_graph[n][k] \in Range(search_graph[n])
    BY DEF Range
  <2>2. QED
    BY <2>1 DEF GraphTyped
<1>2. QED
  BY <1>1 DEF GraphTyped, Connection

\* What erasing leaves of a node's connections.
LEMMA KeptGraphTyped ==
    ASSUME GraphTyped
    PROVE  /\ KeptGraph \in [Nodes -> Seq(Connection)]
           /\ \A n \in Nodes : Range(KeptGraph[n]) =
                 {e \in Range(search_graph[n]) : ~ (e.edge.to = neighbor /\ e.cv \in Erased)}
<1> DEFINE S(n) == {e \in Range(search_graph[n]) : ~ (e.edge.to = neighbor /\ e.cv \in Erased)}
<1>1. ASSUME NEW n \in Nodes
      PROVE  KeptGraph[n] \in Seq(Connection) /\ Range(KeptGraph[n]) = S(n)
  <2>1. KeptGraph[n] = Sublist(search_graph[n], S(n))
    BY DEF KeptGraph
  <2>2. search_graph[n] \in Seq(Connection)
    BY DEF GraphTyped
  <2> HIDE DEF S
  <2>3. /\ Sublist(search_graph[n], S(n)) \in Seq(Connection)
        /\ Range(Sublist(search_graph[n], S(n))) = Range(search_graph[n]) \cap S(n)
    BY <2>2, SublistElements
  <2>4. S(n) \subseteq Range(search_graph[n])
    BY DEF S
  <2>5. QED
    BY <2>1, <2>3, <2>4
<1>2. KeptGraph = [n \in Nodes |-> KeptGraph[n]]
  BY DEF KeptGraph
<1>3. QED
  BY <1>1, <1>2

\* Appending adds its element to a sequence's range.
LEMMA RangeOfAppend ==
    ASSUME NEW D, NEW s \in Seq(D), NEW x
    PROVE  Range(Append(s, x)) = Range(s) \cup {x}
<1>1. /\ DOMAIN Append(s, x) = DOMAIN s \cup {Len(s) + 1}
      /\ Append(s, x)[Len(s) + 1] = x
      /\ \A k \in DOMAIN s : Append(s, x)[k] = s[k]
  OBVIOUS
<1>2. QED
  BY <1>1 DEF Range

\* The connection made for the walk that is looked at.
NewConnection == [cv |-> tentative_g_score, edge |-> ToNeighbor]

LEMMA ConnectedTyped ==
    ASSUME TypeOK, GraphTyped, pc = "neighbors", MoreNeighbors
    PROVE  /\ NewConnection \in Connection
           /\ NewConnection.edge \in Range(neighborEdges(problem, curr.node))
           /\ curr.node \in Nodes
           /\ Connected \in [Nodes -> Seq(Connection)]
           /\ Connected[curr.node] = Append(KeptGraph[curr.node], NewConnection)
           /\ Range(Connected[curr.node]) = Range(KeptGraph[curr.node]) \cup {NewConnection}
           /\ \A n \in Nodes \ {curr.node} : Connected[n] = KeptGraph[n]
<1>1. /\ problem \in Problems /\ curr \in Item /\ curr.node \in Nodes
      /\ curr.cv \in CostVector /\ i \in DOMAIN neighborEdges(problem, curr.node)
  BY DEF TypeOK, Item, MoreNeighbors
<1>2. ToNeighbor \in Edge /\ ToNeighbor \in Range(neighborEdges(problem, curr.node))
  <2>1. neighborEdges(problem, curr.node)[i] \in Range(neighborEdges(problem, curr.node))
    BY <1>1 DEF Range
  <2>2. QED
    BY <1>1, <2>1, EdgeTyped DEF ToNeighbor
<1>3. tentative_g_score \in CostVector
  BY <1>1, <1>2, SumTyped DEF tentative_g_score
<1>4. NewConnection \in Connection /\ NewConnection.edge = ToNeighbor
  BY <1>2, <1>3 DEF NewConnection, Connection
<1>5. KeptGraph \in [Nodes -> Seq(Connection)]
  BY KeptGraphTyped
<1>6. Connected = [KeptGraph EXCEPT ![curr.node] = Append(@, NewConnection)]
  BY DEF Connected, NewConnection
<1>7. Append(KeptGraph[curr.node], NewConnection) \in Seq(Connection)
  BY <1>1, <1>4, <1>5
<1>8. /\ Connected \in [Nodes -> Seq(Connection)]
      /\ Connected[curr.node] = Append(KeptGraph[curr.node], NewConnection)
      /\ \A n \in Nodes \ {curr.node} : Connected[n] = KeptGraph[n]
  BY <1>1, <1>5, <1>6, <1>7
<1>9. Range(Connected[curr.node]) = Range(KeptGraph[curr.node]) \cup {NewConnection}
  BY <1>1, <1>5, <1>8, RangeOfAppend
<1>10. QED
  BY <1>1, <1>2, <1>4, <1>8, <1>9

-----------------------------------------------------------------------------
LEMMA InitTInv == Init => TInv
<1> SUFFICES ASSUME Init PROVE TInv
  OBVIOUS
<1>1. problem \in Problems /\ problem.initialNodes \subseteq Nodes
  BY MOProblemAssumption DEF Init, IsProblem
<1>2. GraphTyped
  BY DEF Init, GraphTyped, Range
<1>3. curr \in Item
  <2>1. \E n \in Nodes : TRUE
    BY NodesAssumption
  <2>2. (CHOOSE n \in Nodes : TRUE) \in Nodes
    BY <2>1
  <2>3. QED
    BY <2>2, ZeroTyped DEF Init, Item
<1>4. cost_map = [n \in problem.initialNodes |-> [c \in {Zero} |-> TRUE]]
  BY DEF Init
<1>5. /\ DOMAIN cost_map \subseteq Nodes
      /\ \A n \in DOMAIN cost_map :
            /\ DOMAIN cost_map[n] \subseteq CostVector
            /\ cost_map[n] \in [DOMAIN cost_map[n] -> BOOLEAN]
  BY <1>1, <1>4, ZeroTyped
<1>6. open_set \subseteq Item
  BY <1>1, ZeroTyped DEF Init, Item
<1>7. result \in Result
  BY DEF Init, NoResult, Result
<1>8. TypeOK
  BY <1>1, <1>2, <1>3, <1>5, <1>6, <1>7, TypeOKParts DEF Init, TypeOK
<1>9. StackIsWalks
  BY DEF Init, StackIsWalks
<1>10. QED
  BY <1>2, <1>8, <1>9 DEF TInv

\* The types of a popped item's mark.
LEMMA ClosedTyped ==
    ASSUME TypeOK, NEW e \in open_set
    PROVE  /\ DOMAIN moveToClosed(e) = DOMAIN cost_map
           /\ \A n \in DOMAIN cost_map :
                 /\ DOMAIN moveToClosed(e)[n] = DOMAIN cost_map[n]
                 /\ moveToClosed(e)[n] \in [DOMAIN cost_map[n] -> BOOLEAN]
BY DEF moveToClosed, TypeOK

LEMMA PopTInv == TInv /\ (PopGoal \/ PopExpand) => TInv'
<1> SUFFICES ASSUME TInv, PopGoal \/ PopExpand PROVE TInv'
  OBVIOUS
<1>1. PICK e \in open_set :
         /\ cost_map' = moveToClosed(e) /\ curr' = e /\ open_set' \subseteq open_set
         /\ solution_set' = solution_set \/ solution_set' = Append(solution_set, e)
  BY DEF PopGoal, PopExpand, OpenNotDominated
<1>2. /\ UNCHANGED <<problem, search_graph, graph_size, stack, unfound>>
      /\ pc' \in {"loop", "neighbors"}
      /\ i' = i \/ i' = 1
      /\ result' = result \/ result' = [result EXCEPT !.success = TRUE]
  BY DEF PopGoal, PopExpand, extracting
<1>3. GraphTyped' /\ StackIsWalks'
  BY <1>2 DEF TInv, GraphTyped, StackIsWalks
<1>4. e \in Item /\ solution_set' \in Seq(Item) /\ open_set' \subseteq Item
  BY <1>1 DEF TInv, TypeOK
<1>5. result' \in Result
  BY <1>2 DEF TInv, TypeOK, Result
<1>6. /\ DOMAIN cost_map' \subseteq Nodes
      /\ \A n \in DOMAIN cost_map' :
            /\ DOMAIN cost_map'[n] \subseteq CostVector
            /\ cost_map'[n] \in [DOMAIN cost_map'[n] -> BOOLEAN]
  BY <1>1, ClosedTyped DEF TInv, TypeOK
<1>7. i' \in Nat \ {0}
  BY <1>2 DEF TInv, TypeOK
<1>8. TypeOK'
  BY <1>1, <1>2, <1>4, <1>5, <1>6, <1>7 DEF TInv, TypeOK
<1>9. QED
  BY <1>3, <1>8 DEF TInv

\* Steps that change at most the place in the search.
LEMMA OtherTInv ==
    TInv /\ (SkipKnown \/ EndNeighbors \/ Fail \/ ReadPastGraph \/ UNCHANGED vars) => TInv'
<1> SUFFICES ASSUME TInv, SkipKnown \/ EndNeighbors \/ Fail \/ ReadPastGraph \/ UNCHANGED vars
             PROVE  TInv'
  OBVIOUS
<1>1. UNCHANGED <<problem, cost_map, open_set, search_graph, graph_size, solution_set, curr,
                  stack, unfound, result>>
  BY DEF SkipKnown, EndNeighbors, Fail, ReadPastGraph, vars, searching, extracting
<1>2. i' = i \/ i' = i + 1
  BY DEF SkipKnown, EndNeighbors, Fail, ReadPastGraph, vars, searching
<1>3. pc' = pc \/ pc' \in {"loop", "returned", "crashed"}
  BY DEF SkipKnown, EndNeighbors, Fail, ReadPastGraph, vars
<1>4. GraphTyped' /\ StackIsWalks'
  BY <1>1 DEF TInv, GraphTyped, StackIsWalks
<1>5. i' \in Nat \ {0}
  BY <1>2 DEF TInv, TypeOK
<1>6. TypeOK'
  BY <1>1, <1>3, <1>5 DEF TInv, TypeOK
<1>7. QED
  BY <1>4, <1>6 DEF TInv

\* Erasing and adding costs of the neighbor.
LEMMA NeighborTInv == TInv /\ (FilterNeighbor \/ AddNeighbor) => TInv'
<1> SUFFICES ASSUME TInv, FilterNeighbor \/ AddNeighbor PROVE TInv'
  OBVIOUS
<1> DEFINE g == tentative_g_score
<1>1. /\ UNCHANGED <<problem, pc, solution_set, curr, stack, unfound, result>>
      /\ pc = "neighbors" /\ MoreNeighbors /\ i' = i + 1
      /\ graph_size' = graph_size \/ graph_size' = Grown
      /\ \/ /\ cost_map' = [n \in DOMAIN cost_map |->
                               IF n = neighbor THEN KeptCosts ELSE cost_map[n]]
            /\ open_set' = KeptOpen /\ search_graph' = KeptGraph
         \/ /\ cost_map' = Assign(cost_map, neighbor, Assign(KeptCosts, g, TRUE))
            /\ open_set' = KeptOpen \cup {[node |-> neighbor, cv |-> g]}
            /\ search_graph' = Connected
  BY DEF FilterNeighbor, AddNeighbor, extracting
<1>2. PointersTyped
  BY DEF TInv, TypeOK, PointersTyped
<1>3. [node |-> neighbor, cv |-> g] \in Item /\ neighbor \in Nodes /\ g \in CostVector
  BY <1>1, <1>2, NeighborTyped DEF Item
<1>4. /\ DOMAIN KeptCosts \subseteq CostVector /\ KeptCosts \in [DOMAIN KeptCosts -> BOOLEAN]
      /\ DOMAIN Assign(KeptCosts, g, TRUE) \subseteq CostVector
      /\ Assign(KeptCosts, g, TRUE) \in [DOMAIN Assign(KeptCosts, g, TRUE) -> BOOLEAN]
  <2>1. \A c \in Costs(neighbor) :
           c \in CostVector /\ cost_map[neighbor][c] \in BOOLEAN
    BY DEF Costs, TInv, TypeOK
  <2>2. /\ DOMAIN KeptCosts \subseteq Costs(neighbor)
        /\ \A c \in DOMAIN KeptCosts : KeptCosts[c] = cost_map[neighbor][c]
        /\ KeptCosts = [c \in DOMAIN KeptCosts |-> KeptCosts[c]]
    BY DEF KeptCosts
  <2>3. \A c \in DOMAIN KeptCosts : c \in CostVector /\ KeptCosts[c] \in BOOLEAN
    BY <2>1, <2>2
  <2>4. KeptCosts \in [DOMAIN KeptCosts -> BOOLEAN]
    BY <2>2, <2>3
  <2>5. /\ DOMAIN Assign(KeptCosts, g, TRUE) = DOMAIN KeptCosts \cup {g}
        /\ Assign(KeptCosts, g, TRUE) \in [DOMAIN KeptCosts \cup {g} -> BOOLEAN]
    BY <2>3 DEF Assign
  <2>6. QED
    BY <1>3, <2>3, <2>4, <2>5
<1>5. /\ DOMAIN cost_map' \subseteq Nodes
      /\ \A n \in DOMAIN cost_map' :
            /\ DOMAIN cost_map'[n] \subseteq CostVector
            /\ cost_map'[n] \in [DOMAIN cost_map'[n] -> BOOLEAN]
  <2>1. \A n \in DOMAIN cost_map :
            /\ DOMAIN cost_map[n] \subseteq CostVector
            /\ cost_map[n] \in [DOMAIN cost_map[n] -> BOOLEAN]
    BY DEF TInv, TypeOK
  <2>2. DOMAIN cost_map \subseteq Nodes
    BY DEF TInv, TypeOK
  <2>3. CASE cost_map' = [n \in DOMAIN cost_map |->
                             IF n = neighbor THEN KeptCosts ELSE cost_map[n]]
    BY <1>4, <2>1, <2>2, <2>3
  <2>4. CASE cost_map' = Assign(cost_map, neighbor, Assign(KeptCosts, g, TRUE))
    <3>1. /\ DOMAIN cost_map' = DOMAIN cost_map \cup {neighbor}
          /\ \A n \in DOMAIN cost_map' :
                cost_map'[n] = IF n = neighbor THEN Assign(KeptCosts, g, TRUE) ELSE cost_map[n]
      BY <2>4 DEF Assign
    <3> HIDE DEF g
    <3>2. QED
      BY <1>3, <1>4, <2>1, <2>2, <3>1
  <2>5. QED
    BY <1>1, <2>3, <2>4
<1>6. open_set' \subseteq Item
  BY <1>1, <1>3 DEF KeptOpen, TInv, TypeOK
<1>7. GraphTyped'
  <2>1. /\ KeptGraph \in [Nodes -> Seq(Connection)]
        /\ \A n \in Nodes : Range(KeptGraph[n]) \subseteq Range(search_graph[n])
    BY KeptGraphTyped DEF TInv
  <2>2. CASE search_graph' = KeptGraph
    BY <1>1, <2>1, <2>2 DEF TInv, GraphTyped
  <2>3. CASE search_graph' = Connected
    <3>1. /\ Connected \in [Nodes -> Seq(Connection)]
          /\ NewConnection.edge \in Range(neighborEdges(problem, curr.node))
          /\ Range(Connected[curr.node]) = Range(KeptGraph[curr.node]) \cup {NewConnection}
          /\ \A n \in Nodes \ {curr.node} : Connected[n] = KeptGraph[n]
      BY <1>1, ConnectedTyped DEF TInv
    <3>2. ASSUME NEW n \in Nodes, NEW e \in Range(Connected[n])
          PROVE  e.edge \in Range(neighborEdges(problem, n))
      <4>1. CASE e \in Range(KeptGraph[n])
        BY <2>1, <4>1 DEF TInv, GraphTyped
      <4>2. CASE e \notin Range(KeptGraph[n])
        BY <3>1, <3>2, <4>2
      <4>3. QED
        BY <4>1, <4>2
    <3>3. QED
      BY <1>1, <2>3, <3>1, <3>2 DEF GraphTyped
  <2>4. QED
    BY <1>1, <2>2, <2>3
<1>8. TypeOK'
  <2>1. i' \in Nat \ {0}
    BY <1>1 DEF TInv, TypeOK
  <2>2. search_graph' \in [Nodes -> Seq([cv : CostVector, edge : Edge])]
    BY <1>7 DEF GraphTyped, Connection
  <2>3. \A n \in Nodes : \A k \in DOMAIN search_graph'[n] :
           search_graph'[n][k].edge \in Range(neighborEdges(problem', n))
    BY <1>7 DEF GraphTyped, Range
  <2>4. graph_size' \in Nat
    <3>1. graph_size \in Nat /\ curr.node \in Nat /\ neighbor \in Nat
      BY <1>3, NodesAssumption DEF TInv, TypeOK, Item
    <3>2. Grown \in Nat
      BY <3>1 DEF Grown
    <3>3. QED
      BY <1>1, <3>1, <3>2
  <2>5. QED
    BY <1>1, <1>5, <1>6, <2>1, <2>2, <2>3, <2>4 DEF TInv, TypeOK
<1>9. StackIsWalks'
  BY <1>1 DEF TInv, StackIsWalks
<1>10. QED
  BY <1>7, <1>8, <1>9 DEF TInv

-----------------------------------------------------------------------------
\* A path of one node is on the stack for every initial node.
LEMMA StartTInv == TInv /\ StartExtraction => TInv'
<1> SUFFICES ASSUME TInv, StartExtraction PROVE TInv'
  OBVIOUS
<1> DEFINE init == SetToSeq(problem.initialNodes)
<1>1. /\ UNCHANGED <<problem, cost_map, open_set, search_graph, graph_size, solution_set,
                     curr, i, result>>
      /\ pc' = "extract" /\ unfound' = solution_set
      /\ stack' = [k \in DOMAIN init |->
                     [node_path |-> <<init[k]>>, edge_path |-> <<>>, cost |-> Zero]]
  BY DEF StartExtraction, searching
<1>2. problem \in Problems /\ problem.initialNodes \subseteq Nodes
  BY MOProblemAssumption DEF TInv, TypeOK, IsProblem
<1>3. init \in Seq(problem.initialNodes)
  BY <1>2, InitialNodesNumbered
<1>4. ASSUME NEW k \in DOMAIN init
      PROVE  /\ init[k] \in problem.initialNodes
             /\ [node_path |-> <<init[k]>>, edge_path |-> <<>>, cost |-> Zero] \in PathToGo
  <2>1. init[k] \in problem.initialNodes
    BY <1>3
  <2>2. <<init[k]>> \in Seq(Nodes) /\ <<>> \in Seq(Edge)
    BY <1>2, <2>1
  <2>3. QED
    BY <2>1, <2>2, ZeroTyped DEF PathToGo
<1>5. stack' \in Seq(PathToGo)
  <2>1. DOMAIN init = 1 .. Len(init) /\ Len(init) \in Nat
    BY <1>3
  <2> HIDE DEF init
  <2>2. QED
    BY <1>1, <1>4, <2>1
<1>6. StackIsWalks'
  <2> HIDE DEF init
  <2>1. ASSUME NEW k \in DOMAIN stack'
        PROVE  /\ stack'[k].node_path = <<init[k]>> /\ stack'[k].edge_path = <<>>
               /\ init[k] \in problem.initialNodes
    BY <1>1, <1>4
  <2>2. ASSUME NEW k \in DOMAIN stack'
        PROVE  /\ Len(stack'[k].node_path) = Len(stack'[k].edge_path) + 1
               /\ stack'[k].node_path[1] \in problem.initialNodes
               /\ DOMAIN stack'[k].edge_path = {}
    <3>1. PICK n \in problem.initialNodes :
             stack'[k].node_path = <<n>> /\ stack'[k].edge_path = <<>>
      BY <2>1
    <3>2. Len(<<n>>) = 1 /\ <<n>>[1] = n /\ Len(<<>>) = 0 /\ DOMAIN <<>> = {}
      OBVIOUS
    <3>3. QED
      BY <3>1, <3>2
  <2>3. QED
    BY <1>1, <2>2 DEF StackIsWalks
<1>7. GraphTyped'
  BY <1>1 DEF TInv, GraphTyped
<1>8. TypeOK'
  BY <1>1, <1>5 DEF TInv, TypeOK
<1>9. QED
  BY <1>6, <1>7, <1>8 DEF TInv

\* The path popped, and what is left of the stack.
LEMMA PoppedTyped ==
    ASSUME TInv, stack # <<>>
    PROVE  /\ curr_path \in PathToGo /\ curr_path = stack[Len(stack)]
           /\ Len(stack) \in DOMAIN stack
           /\ Len(curr_path.node_path) = Len(curr_path.edge_path) + 1
           /\ curr_path.node_path[1] \in problem.initialNodes
           /\ \A j \in DOMAIN curr_path.edge_path :
                 /\ curr_path.edge_path[j]
                       \in Range(neighborEdges(problem, curr_path.node_path[j]))
                 /\ curr_path.edge_path[j].to = curr_path.node_path[j + 1]
           /\ curr_path.node_path \in Seq(Nodes) /\ curr_path.edge_path \in Seq(Edge)
           /\ curr_path.cost \in CostVector
           /\ curr_node \in Nodes
           /\ curr_node = curr_path.node_path[Len(curr_path.node_path)]
           /\ Front(stack) \in Seq(PathToGo)
           /\ DOMAIN Front(stack) = DOMAIN stack \ {Len(stack)}
           /\ Len(Front(stack)) = Len(stack) - 1
           /\ \A k \in DOMAIN Front(stack) : Front(stack)[k] = stack[k]
<1>1. stack \in Seq(PathToGo) /\ Len(stack) \in Nat \ {0} /\ Len(stack) \in DOMAIN stack
  <2>1. stack \in Seq(PathToGo)
    BY DEF TInv, TypeOK
  <2>2. QED
    BY <2>1
<1>2. curr_path = stack[Len(stack)] /\ curr_path \in PathToGo
  BY <1>1 DEF curr_path, Last
<1>3. /\ Len(curr_path.node_path) = Len(curr_path.edge_path) + 1
      /\ curr_path.node_path[1] \in problem.initialNodes
      /\ \A j \in DOMAIN curr_path.edge_path :
            /\ curr_path.edge_path[j]
                  \in Range(neighborEdges(problem, curr_path.node_path[j]))
            /\ curr_path.edge_path[j].to = curr_path.node_path[j + 1]
  BY <1>1, <1>2 DEF TInv, StackIsWalks
<1>4. /\ curr_path.node_path \in Seq(Nodes) /\ curr_path.edge_path \in Seq(Edge)
      /\ curr_path.cost \in CostVector
  BY <1>2 DEF PathToGo
<1>5. /\ curr_node = curr_path.node_path[Len(curr_path.node_path)]
      /\ curr_node \in Nodes
  BY <1>3, <1>4 DEF curr_node, Last
<1>6. /\ Front(stack) \in Seq(PathToGo)
      /\ Len(Front(stack)) = Len(stack) - 1
      /\ \A k \in DOMAIN Front(stack) : Front(stack)[k] = stack[k]
      /\ DOMAIN Front(stack) = DOMAIN stack \ {Len(stack)}
  <2> DEFINE n == Len(stack)
  <2>1. Front(stack) = SubSeq(stack, 1, n - 1)
    BY DEF Front
  <2>2. n - 1 \in Nat /\ DOMAIN stack = 1 .. n
    BY <1>1
  <2>3. SubSeq(stack, 1, n - 1) = [k \in 1 .. n - 1 |-> stack[k]]
    BY <1>1, <2>2
  <2>4. /\ \A k \in 1 .. n - 1 : stack[k] \in PathToGo
        /\ 1 .. n - 1 = (1 .. n) \ {n}
    BY <1>1, <2>2
  <2> HIDE DEF n
  <2>5. [k \in 1 .. n - 1 |-> stack[k]] \in Seq(PathToGo)
    BY <2>2, <2>4
  <2>6. /\ Len([k \in 1 .. n - 1 |-> stack[k]]) = n - 1
        /\ DOMAIN [k \in 1 .. n - 1 |-> stack[k]] = 1 .. n - 1
    BY <2>2
  <2>7. QED
    BY <2>1, <2>2, <2>3, <2>4, <2>5, <2>6 DEF n
<1>7. QED
  BY <1>1, <1>2, <1>3, <1>4, <1>5, <1>6

\* A sequence without one element.
LEMMA RemovedTyped ==
    ASSUME NEW D, NEW s \in Seq(D), NEW m \in DOMAIN s
    PROVE  /\ RemoveAt(s, m) \in Seq(D)
           /\ Len(RemoveAt(s, m)) = Len(s) - 1
           /\ DOMAIN RemoveAt(s, m) = 1 .. Len(s) - 1
           /\ \A k \in 1 .. Len(s) - 1 :
                 RemoveAt(s, m)[k] = IF k < m THEN s[k] ELSE s[k + 1]
<1>1. m \in 1 .. Len(s) /\ Len(s) \in Nat
  OBVIOUS
<1>2. /\ SubSeq(s, 1, m - 1) \in Seq(D) /\ Len(SubSeq(s, 1, m - 1)) = m - 1
      /\ \A k \in 1 .. m - 1 : SubSeq(s, 1, m - 1)[k] = s[k]
  BY <1>1
<1>3. /\ SubSeq(s, m + 1, Len(s)) \in Seq(D)
      /\ Len(SubSeq(s, m + 1, Len(s))) = Len(s) - m
      /\ \A k \in 1 .. Len(s) - m : SubSeq(s, m + 1, Len(s))[k] = s[m + k]
  BY <1>1
<1> DEFINE a == SubSeq(s, 1, m - 1)
           b == SubSeq(s, m + 1, Len(s))
<1>4. RemoveAt(s, m) = a \o b
  BY DEF RemoveAt
<1> HIDE DEF a, b
<1>5. a \in Seq(D) /\ b \in Seq(D) /\ Len(a) = m - 1 /\ Len(b) = Len(s) - m
  BY <1>2, <1>3 DEF a, b
<1>6. a \o b \in Seq(D) /\ Len(a \o b) = Len(s) - 1 /\ DOMAIN (a \o b) = 1 .. Len(s) - 1
  BY <1>1, <1>5
<1>7. ASSUME NEW k \in 1 .. Len(s) - 1
      PROVE  (a \o b)[k] = IF k < m THEN s[k] ELSE s[k + 1]
  <2>1. CASE k < m
    <3>1. k \in 1 .. m - 1
      BY <1>1, <2>1
    <3>2. (a \o b)[k] = a[k]
      BY <1>5, <3>1
    <3>3. QED
      BY <1>2, <2>1, <3>1, <3>2 DEF a
  <2>2. CASE ~ (k < m)
    <3>1. k - (m - 1) \in 1 .. Len(s) - m /\ m + (k - (m - 1)) = k + 1
      BY <1>1, <2>2
    <3>2. (a \o b)[k] = b[k - (m - 1)]
      BY <1>1, <1>5, <2>2
    <3>3. b[k - (m - 1)] = s[m + (k - (m - 1))]
      BY <1>3, <3>1 DEF b
    <3>4. QED
      BY <2>2, <3>1, <3>2, <3>3
  <2>3. QED
    BY <2>1, <2>2
<1>8. QED
  BY <1>4, <1>6, <1>7

\* The solution a path is recorded for is one of those not found yet.
LEMMA FirstMatching ==
    ASSUME TInv, Matching # {}
    PROVE  Min(Matching) \in DOMAIN unfound /\ unfound[Min(Matching)].cv = curr_path.cost
<1>1. Matching \in SUBSET Nat
  BY DEF Matching, TInv, TypeOK
<1>2. PICK m \in Matching : \A k \in Matching : m <= k
  BY <1>1, NatLeastElement
<1>3. Min(Matching) \in Matching
  BY <1>2 DEF Min
<1>4. QED
  BY <1>3 DEF Matching

\* A recorded path leaves the stack, and the solution it was recorded for is found.
LEMMA RecordTInv == TInv /\ RecordSolution => TInv'
<1> SUFFICES ASSUME TInv, RecordSolution PROVE TInv'
  OBVIOUS
<1>1. /\ UNCHANGED <<problem, pc, cost_map, open_set, search_graph, graph_size, solution_set,
                     curr, i>>
      /\ stack # <<>> /\ Matching # {}
      /\ result' = [result EXCEPT !.pf = Append(@, curr_path.cost),
                                  !.node_paths = Append(@, curr_path.node_path),
                                  !.edge_paths = Append(@, curr_path.edge_path)]
      /\ unfound' = RemoveAt(unfound, Min(Matching))
      /\ stack' = Front(stack)
  BY DEF RecordSolution, MoreStack, searching
<1>2. /\ Front(stack) \in Seq(PathToGo)
      /\ \A k \in DOMAIN Front(stack) : k \in DOMAIN stack /\ Front(stack)[k] = stack[k]
      /\ curr_path.node_path \in Seq(Nodes) /\ curr_path.edge_path \in Seq(Edge)
      /\ curr_path.cost \in CostVector
  BY <1>1, PoppedTyped
<1>3. unfound' \in Seq(Item)
  BY <1>1, FirstMatching, RemovedTyped DEF TInv, TypeOK
<1>4. result' \in Result
  <2>1. result \in Result
    BY DEF TInv, TypeOK
  <2>2. /\ Append(result.pf, curr_path.cost) \in Seq(CostVector)
        /\ Append(result.node_paths, curr_path.node_path) \in Seq(Seq(Nodes))
        /\ Append(result.edge_paths, curr_path.edge_path) \in Seq(Seq(Edge))
    BY <1>2, <2>1 DEF Result
  <2>3. QED
    BY <1>1, <2>1, <2>2 DEF Result
<1>5. TypeOK'
  BY <1>1, <1>2, <1>3, <1>4 DEF TInv, TypeOK
<1>6. GraphTyped'
  BY <1>1 DEF TInv, GraphTyped
<1>7. StackIsWalks'
  BY <1>1, <1>2 DEF TInv, StackIsWalks
<1>8. QED
  BY <1>5, <1>6, <1>7 DEF TInv

LEMMA PassTInv == TInv /\ PassGoal => TInv'
<1> SUFFICES ASSUME TInv, PassGoal PROVE TInv'
  OBVIOUS
<1>1. /\ UNCHANGED <<problem, pc, cost_map, open_set, search_graph, graph_size, solution_set, curr, i,
                     unfound, result>>
      /\ stack # <<>> /\ stack' = Front(stack)
  BY DEF PassGoal, MoreStack, searching
<1>2. /\ Front(stack) \in Seq(PathToGo)
      /\ \A k \in DOMAIN Front(stack) : k \in DOMAIN stack /\ Front(stack)[k] = stack[k]
  BY <1>1, PoppedTyped
<1>3. TypeOK'
  BY <1>1, <1>2 DEF TInv, TypeOK
<1>4. GraphTyped'
  BY <1>1 DEF TInv, GraphTyped
<1>5. StackIsWalks'
  BY <1>1, <1>2 DEF TInv, StackIsWalks
<1>6. QED
  BY <1>3, <1>4, <1>5 DEF TInv

\* The connections followed from the path popped, and the paths they make.
Followed == Sublist(search_graph[curr_node], {e \in Range(search_graph[curr_node]) : Worth(e)})

Longer(e) == [node_path |-> Append(curr_path.node_path, e.edge.to),
              edge_path |-> Append(curr_path.edge_path, e.edge),
              cost      |-> e.cv]

LEMMA FollowedTyped ==
    ASSUME TInv, stack # <<>>
    PROVE  /\ Followed \in Seq(Connection)
           /\ Range(Followed) = {e \in Range(search_graph[curr_node]) : Worth(e)}
           /\ \A e \in Range(Followed) :
                 /\ e \in Connection /\ e.edge \in Range(neighborEdges(problem, curr_node))
                 /\ e.edge \in Edge /\ e.edge.to \in Nodes
                 /\ Longer(e) \in PathToGo
<1> DEFINE S == {e \in Range(search_graph[curr_node]) : Worth(e)}
<1>1. curr_node \in Nodes /\ search_graph[curr_node] \in Seq(Connection)
  BY PoppedTyped DEF TInv, GraphTyped
<1>2. S \subseteq Range(search_graph[curr_node]) /\ Followed = Sublist(search_graph[curr_node], S)
  BY DEF Followed
<1> HIDE DEF S
<1>3. Followed \in Seq(Connection) /\ Range(Followed) = S
  <2> DEFINE all == search_graph[curr_node]
  <2>1. all \in Seq(Connection)
    BY <1>1
  <2> HIDE DEF all
  <2>2. Sublist(all, S) \in Seq(Connection) /\ Range(Sublist(all, S)) = Range(all) \cap S
    BY <2>1, SublistElements
  <2>3. QED
    BY <1>2, <2>2 DEF all
<1>4. ASSUME NEW e \in Range(Followed)
      PROVE  /\ e \in Connection /\ e.edge \in Range(neighborEdges(problem, curr_node))
             /\ e.edge \in Edge /\ e.edge.to \in Nodes
             /\ Longer(e) \in PathToGo
  <2>1. e \in Connection
    BY <1>3, <1>4 DEF Range
  <2>2. e.edge \in Range(neighborEdges(problem, curr_node))
    BY <1>1, <1>2, <1>3, <1>4 DEF TInv, GraphTyped
  <2>3. e.edge \in Edge /\ e.edge.to \in Nodes /\ e.cv \in CostVector
    BY <2>1 DEF Connection, Edge
  <2>4. /\ curr_path.node_path \in Seq(Nodes) /\ curr_path.edge_path \in Seq(Edge)
    BY PoppedTyped
  <2>5. /\ Append(curr_path.node_path, e.edge.to) \in Seq(Nodes)
        /\ Append(curr_path.edge_path, e.edge) \in Seq(Edge)
    BY <2>3, <2>4
  <2>6. Longer(e) \in PathToGo
    BY <2>3, <2>5 DEF Longer, PathToGo
  <2>7. QED
    BY <2>1, <2>2, <2>3, <2>6
<1>5. QED
  BY <1>3, <1>4 DEF S

\* The stack after its last path was replaced by those that are longer.
LEMMA FollowedStack ==
    ASSUME TInv, FollowConnections
    PROVE  /\ stack # <<>>
           /\ stack' \in Seq(PathToGo)
           /\ \A k \in DOMAIN stack \ {Len(stack)} : k \in DOMAIN stack' /\ stack'[k] = stack[k]
           /\ \A k \in DOMAIN stack' :
                 \/ k \in DOMAIN stack \ {Len(stack)}
                 \/ \E e \in Range(Followed) : stack'[k] = Longer(e)
           /\ \A e \in Range(Followed) : \E k \in DOMAIN stack' : stack'[k] = Longer(e)
<1> DEFINE new == [k \in DOMAIN Followed |-> Longer(Followed[k])]
           old == Front(stack)
<1>1. stack # <<>> /\ stack' = old \o new
  BY DEF FollowConnections, MoreStack, Followed, Longer
<1>2. Followed \in Seq(Connection) /\ \A k \in DOMAIN Followed : Followed[k] \in Range(Followed)
  BY <1>1, FollowedTyped DEF Range
<1>3. new \in Seq(PathToGo) /\ DOMAIN new = DOMAIN Followed
  <2>1. \A k \in DOMAIN Followed : Longer(Followed[k]) \in PathToGo
    BY <1>1, <1>2, FollowedTyped
  <2>2. DOMAIN Followed = 1 .. Len(Followed) /\ Len(Followed) \in Nat
    BY <1>2
  <2>3. QED
    BY <2>1, <2>2
<1>4. /\ old \in Seq(PathToGo) /\ DOMAIN old = DOMAIN stack \ {Len(stack)}
      /\ \A k \in DOMAIN old : old[k] = stack[k]
  BY <1>1, PoppedTyped
<1>5. \A k \in DOMAIN new : new[k] = Longer(Followed[k])
  OBVIOUS
<1> HIDE DEF new, old
<1>o. old \in Seq(PathToGo) /\ new \in Seq(PathToGo)
  BY <1>3, <1>4
<1>6. /\ old \o new \in Seq(PathToGo)
      /\ DOMAIN (old \o new) = 1 .. Len(old) + Len(new)
      /\ DOMAIN old = 1 .. Len(old) /\ DOMAIN new = 1 .. Len(new)
      /\ Len(old) \in Nat /\ Len(new) \in Nat
      /\ \A k \in 1 .. Len(old) : (old \o new)[k] = old[k]
      /\ \A k \in 1 .. Len(old) + Len(new) :
            k > Len(old) => (old \o new)[k] = new[k - Len(old)]
  BY <1>o
<1>7. \A k \in DOMAIN stack \ {Len(stack)} : k \in DOMAIN stack' /\ stack'[k] = stack[k]
  BY <1>1, <1>4, <1>6
<1>8. ASSUME NEW k \in DOMAIN stack', k \notin DOMAIN stack \ {Len(stack)}
      PROVE  \E e \in Range(Followed) : stack'[k] = Longer(e)
  <2>1. k > Len(old) /\ k - Len(old) \in DOMAIN new
    BY <1>1, <1>4, <1>6, <1>8
  <2>2. stack'[k] = Longer(Followed[k - Len(old)])
    BY <1>1, <1>5, <1>6, <1>8, <2>1
  <2>3. QED
    BY <1>2, <1>3, <2>1, <2>2
<1>9. ASSUME NEW e \in Range(Followed) PROVE \E k \in DOMAIN stack' : stack'[k] = Longer(e)
  <2>1. PICK k \in DOMAIN Followed : e = Followed[k]
    BY DEF Range
  <2>2. k \in 1 .. Len(new) /\ new[k] = Longer(e)
    BY <1>3, <1>5, <1>6, <2>1
  <2>3. /\ Len(old) + k \in DOMAIN stack' /\ Len(old) + k > Len(old)
        /\ (Len(old) + k) - Len(old) = k
    BY <1>1, <1>6, <2>2
  <2>4. stack'[Len(old) + k] = new[k]
    BY <1>1, <1>6, <2>3
  <2>5. QED
    BY <2>2, <2>3, <2>4
<1>10. QED
  BY <1>1, <1>6, <1>7, <1>8, <1>9

\* A walk that follows a connection is a walk.
LEMMA LongerIsWalk ==
    ASSUME TInv, stack # <<>>, NEW e \in Range(Followed)
    PROVE  /\ Len(Longer(e).node_path) = Len(Longer(e).edge_path) + 1
           /\ Longer(e).node_path[1] \in problem.initialNodes
           /\ \A j \in DOMAIN Longer(e).edge_path :
                 /\ Longer(e).edge_path[j]
                       \in Range(neighborEdges(problem, Longer(e).node_path[j]))
                 /\ Longer(e).edge_path[j].to = Longer(e).node_path[j + 1]
           /\ Last(Longer(e).node_path) = e.edge.to
<1> DEFINE np == curr_path.node_path
           ep == curr_path.edge_path
<1>1. /\ np \in Seq(Nodes) /\ ep \in Seq(Edge) /\ Len(np) = Len(ep) + 1
      /\ np[1] \in problem.initialNodes /\ curr_node = np[Len(np)]
      /\ \A j \in DOMAIN ep :
            ep[j] \in Range(neighborEdges(problem, np[j])) /\ ep[j].to = np[j + 1]
  BY PoppedTyped
<1>2. e.edge \in Edge /\ e.edge.to \in Nodes /\ e.edge \in Range(neighborEdges(problem, curr_node))
  BY FollowedTyped
<1>3. Longer(e).node_path = Append(np, e.edge.to) /\ Longer(e).edge_path = Append(ep, e.edge)
  BY DEF Longer
<1> HIDE DEF np, ep
<1>4. /\ Len(Append(np, e.edge.to)) = Len(np) + 1 /\ Len(np) \in Nat /\ Len(ep) \in Nat
      /\ Len(Append(ep, e.edge)) = Len(ep) + 1
      /\ \A j \in 1 .. Len(np) : Append(np, e.edge.to)[j] = np[j]
      /\ Append(np, e.edge.to)[Len(np) + 1] = e.edge.to
      /\ \A j \in 1 .. Len(ep) : Append(ep, e.edge)[j] = ep[j]
      /\ Append(ep, e.edge)[Len(ep) + 1] = e.edge
      /\ DOMAIN Append(ep, e.edge) = 1 .. Len(ep) + 1 /\ DOMAIN ep = 1 .. Len(ep)
  BY <1>1, <1>2
<1>5. ASSUME NEW j \in 1 .. Len(ep) + 1
      PROVE  /\ Append(ep, e.edge)[j] \in Range(neighborEdges(problem, Append(np, e.edge.to)[j]))
             /\ Append(ep, e.edge)[j].to = Append(np, e.edge.to)[j + 1]
  <2>1. CASE j \in 1 .. Len(ep)
    <3>1. j \in 1 .. Len(np) /\ j + 1 \in 1 .. Len(np)
      BY <1>1, <1>4, <2>1
    <3>2. QED
      BY <1>1, <1>4, <2>1, <3>1
  <2>2. CASE j = Len(ep) + 1
    <3>1. j = Len(np) /\ j \in 1 .. Len(np)
      BY <1>1, <1>4, <2>2
    <3>2. QED
      BY <1>1, <1>2, <1>4, <2>2, <3>1
  <2>3. j \in 1 .. Len(ep) \/ j = Len(ep) + 1
    BY <1>4
  <2>4. QED
    BY <2>1, <2>2, <2>3
<1>6. Last(Append(np, e.edge.to)) = e.edge.to
  BY <1>4 DEF Last
<1>7. Append(np, e.edge.to)[1] \in problem.initialNodes
  BY <1>1, <1>4
<1>8. QED
  BY <1>1, <1>3, <1>4, <1>5, <1>6, <1>7

LEMMA FollowTInv == TInv /\ FollowConnections => TInv'
<1> SUFFICES ASSUME TInv, FollowConnections PROVE TInv'
  OBVIOUS
<1>1. UNCHANGED <<problem, pc, cost_map, open_set, search_graph, graph_size, solution_set, curr, i,
                  unfound, result>>
  BY DEF FollowConnections, searching
<1>2. stack # <<>> /\ stack' \in Seq(PathToGo)
  BY FollowedStack
<1>3. TypeOK'
  BY <1>1, <1>2 DEF TInv, TypeOK
<1>4. GraphTyped'
  BY <1>1 DEF TInv, GraphTyped
<1>5. StackIsWalks'
  <2> SUFFICES ASSUME NEW k \in DOMAIN stack'
               PROVE  /\ Len(stack'[k].node_path) = Len(stack'[k].edge_path) + 1
                      /\ stack'[k].node_path[1] \in problem.initialNodes
                      /\ \A j \in DOMAIN stack'[k].edge_path :
                            /\ stack'[k].edge_path[j]
                                  \in Range(neighborEdges(problem, stack'[k].node_path[j]))
                            /\ stack'[k].edge_path[j].to = stack'[k].node_path[j + 1]
    BY <1>1 DEF StackIsWalks
  <2>1. CASE k \in DOMAIN stack \ {Len(stack)}
    <3>1. k \in DOMAIN stack /\ stack'[k] = stack[k]
      BY <2>1, FollowedStack
    <3>2. QED
      BY <3>1 DEF TInv, StackIsWalks
  <2>2. CASE k \notin DOMAIN stack \ {Len(stack)}
    <3>1. PICK e \in Range(Followed) : stack'[k] = Longer(e)
      BY <2>2, FollowedStack
    <3>2. QED
      BY <1>2, <3>1, LongerIsWalk
  <2>3. QED
    BY <2>1, <2>2
<1>6. QED
  BY <1>3, <1>4, <1>5 DEF TInv

LEMMA PackageTInv == TInv /\ Package => TInv'
<1> SUFFICES ASSUME TInv, Package PROVE TInv'
  OBVIOUS
<1>1. /\ UNCHANGED <<problem, cost_map, open_set, search_graph, graph_size, solution_set, curr, i,
                     stack, unfound>>
      /\ pc' = "returned"
      /\ result' = [result EXCEPT !.pf = sorted(problem, @),
                                  !.node_paths = sorted(problem, @),
                                  !.edge_paths = sorted(problem, @)]
  BY DEF Package, searching, extracting
<1>2. result' \in Result
  <2>1. result \in Result
    BY DEF TInv, TypeOK
  <2>2. /\ sorted(problem, result.pf) \in Seq(CostVector)
        /\ sorted(problem, result.node_paths) \in Seq(Seq(Nodes))
        /\ sorted(problem, result.edge_paths) \in Seq(Seq(Edge))
    BY <2>1, SortedTyped DEF Result
  <2>3. QED
    BY <1>1, <2>1, <2>2 DEF Result
<1>3. TypeOK'
  BY <1>1, <1>2 DEF TInv, TypeOK
<1>4. GraphTyped'
  BY <1>1 DEF TInv, GraphTyped
<1>5. StackIsWalks'
  BY <1>1 DEF TInv, StackIsWalks
<1>6. QED
  BY <1>3, <1>4, <1>5 DEF TInv

LEMMA TInvHolds == Spec => []TInv
<1>1. TInv /\ [Next]_vars => TInv'
  BY PopTInv, OtherTInv, NeighborTInv, StartTInv, RecordTInv, PassTInv, FollowTInv, PackageTInv
     DEF Next
<1>2. QED
  BY <1>1, InitTInv, PTL DEF Spec

\* Every variable of the search and of the extraction has its type, however the
\* search graph is cut back and the stack of paths grows.
THEOREM TypeCorrect == Spec => []TypeOK
<1>1. TInv => TypeOK
  BY DEF TInv
<1>2. QED
  BY <1>1, TInvHolds, PTL

-----------------------------------------------------------------------------
(***************************************************************************)
(* Where gScore adds, the search finds the Pareto front.  An item matters  *)
(* if a point of the front lies ahead of it: such an item is never erased. *)
(***************************************************************************)
ParetoFront == ParetoFrontOf(problem)
ToGo == ParetoToGo(problem)
Found == {solution_set[k].cv : k \in DOMAIN solution_set}

AboveFront(v) == \E f \in ParetoFront : Leq(f, v)

\* The points of the front that lie ahead of an item, and the items of which one
\* does.
LeadsTo(x, f) == \E d \in ToGo[x.node] : Plus(x.cv, d.cost) = f
Matters == {x \in Item : \E f \in ParetoFront : LeadsTo(x, f)}

Initials == [node : problem.initialNodes, cv : {Zero}]

\* A point is ahead of the search if an open item leads to it in k steps, or an
\* edge that is not looked at yet does in fewer.
OpenLeads(f, k) ==
    \E o \in open_set : \E d \in ToGo[o.node] : Plus(o.cv, d.cost) = f /\ d.hops <= k

EdgeLeads(f, k, j) ==
    \E d \in ToGo[neighborEdges(problem, curr.node)[j].to] :
        /\ Plus(Plus(curr.cv, neighborEdges(problem, curr.node)[j].cost), d.cost) = f
        /\ d.hops < k

Ahead(f, k) ==
    \/ OpenLeads(f, k)
    \/ /\ pc = "neighbors"
       /\ \E j \in DOMAIN neighborEdges(problem, curr.node) : i <= j /\ EdgeLeads(f, k, j)

\* No item held leads to less than the front.
HeldAboveFront ==
    \A x \in Item : IsHeld(x) => \A d \in ToGo[x.node] : AboveFront(Plus(x.cv, d.cost))

\* What an item held leads to is found, or ahead.
HeldSettled ==
    \A x \in Item : IsHeld(x) => \A d \in ToGo[x.node] :
        Plus(x.cv, d.cost) \in ParetoFront \ Found => Ahead(Plus(x.cv, d.cost), d.hops)

\* The items the search started from and the item being expanded are held.
StartAndCurrHeld ==
    /\ \A x \in Initials : IsHeld(x)
    /\ pc = "neighbors" => IsHeld(curr) /\ ~ goal(problem, curr.node)

\* What is found is on the front, at items of goals that are held, closed, and
\* different.
SolutionsRight ==
    /\ Found \subseteq ParetoFront
    /\ \A k \in DOMAIN solution_set :
          /\ goal(problem, solution_set[k].node)
          /\ IsHeld(solution_set[k])
          /\ solution_set[k] \notin open_set
          /\ \A l \in DOMAIN solution_set : solution_set[k] = solution_set[l] => k = l

\* No solution dominates an open item.
OpenUnbeaten ==
    \A o \in open_set : \A k \in DOMAIN solution_set : ~ Dominates(solution_set[k].cv, o.cv)

PInv ==
    /\ Additive(problem)
    /\ HeldAboveFront
    /\ HeldSettled
    /\ StartAndCurrHeld
    /\ SolutionsRight
    /\ OpenUnbeaten

Inv == TInv /\ IInv /\ PInv

-----------------------------------------------------------------------------
\* A cost vector that is smaller comes first in the order of the open set.
LEMMA SmallerIsLexLess ==
    ASSUME NEW b \in CostVector, NEW c \in CostVector, Leq(b, c), b # c
    PROVE  LexLess(b, c)
<1> DEFINE T == {k \in Objectives : b[k] # c[k]}
<1>1. \A k \in Objectives : b[k] \in Nat /\ c[k] \in Nat
  BY DEF CostVector
<1>2. T \in SUBSET Nat /\ T # {}
  <2>1. Objectives \subseteq Nat
    BY ObjectivesAssumption DEF Objectives
  <2>2. b = [k \in Objectives |-> b[k]] /\ c = [k \in Objectives |-> c[k]]
    BY DEF CostVector
  <2>3. \E k \in Objectives : b[k] # c[k]
    BY <2>2
  <2>4. QED
    BY <2>1, <2>3
<1>3. PICK k \in T : \A j \in T : k <= j
  <2> HIDE DEF T
  <2>1. QED
    BY <1>2, NatLeastElement
<1>4. k \in Objectives /\ b[k] < c[k]
  BY <1>1, <1>3 DEF Leq
<1>5. ASSUME NEW j \in 1 .. k - 1 PROVE b[j] = c[j]
  <2>1. j \in Objectives /\ ~ (k <= j)
    BY <1>4, ObjectivesAssumption DEF Objectives
  <2>2. QED
    BY <1>3, <2>1
<1>6. QED
  BY <1>4, <1>5 DEF LexLess

\* Items that are equal in their parts are equal.
LEMMA ItemParts ==
    ASSUME NEW x \in Item
    PROVE  /\ x.node \in Nodes /\ x.cv \in CostVector
           /\ x = [node |-> x.node, cv |-> x.cv]
           /\ hScore(problem, x.node) = hScore(problem, x.node)
BY DEF Item

\* A front vector is no larger than what lies below it.
LEMMA FrontIsLeast ==
    ASSUME NEW p \in Problems, NEW v \in CostVector, \E f \in ParetoFrontOf(p) : Leq(f, v),
           NEW g \in ParetoFrontOf(p), Leq(v, g)
    PROVE  v = g
<1>1. PICK f \in ParetoFrontOf(p) : Leq(f, v)
  OBVIOUS
<1>2. f \in CostVector /\ g \in CostVector
  BY FrontOfReference
<1>3. Leq(f, g)
  BY <1>1, <1>2, CostOrder
<1>4. f = g
  BY <1>1, <1>3, FrontOfReference
<1>5. QED
  BY <1>1, <1>2, <1>4, CostOrder

\* What lies ahead of an item is no smaller than the item and its f-score.
LEMMA ItemBelow ==
    ASSUME TInv, NEW x \in Item, NEW d \in ToGo[x.node]
    PROVE  /\ d.cost \in CostVector /\ d.hops \in Nat
           /\ Plus(x.cv, d.cost) \in CostVector
           /\ f_score(x) \in CostVector
           /\ Leq(x.cv, f_score(x)) /\ Leq(f_score(x), Plus(x.cv, d.cost))
           /\ Leq(x.cv, Plus(x.cv, d.cost))
<1>1. problem \in Problems /\ x.node \in Nodes /\ x.cv \in CostVector
  BY DEF TInv, TypeOK, Item
<1>2. /\ hScore(problem, x.node) \in CostVector
      /\ d.cost \in CostVector /\ d.hops \in Nat /\ Leq(hScore(problem, x.node), d.cost)
  BY <1>1, ReferenceTyped DEF ToGo
<1>3. /\ Plus(x.cv, d.cost) \in CostVector
      /\ f_score(x) \in CostVector
  BY <1>1, <1>2, PlusTyped DEF f_score
<1>4. Leq(x.cv, f_score(x)) /\ Leq(x.cv, Plus(x.cv, d.cost))
  BY <1>1, <1>2, CostOrder DEF f_score
<1>5. Leq(f_score(x), Plus(x.cv, d.cost))
  BY <1>1, <1>2, SumMonotone DEF f_score
<1>6. QED
  BY <1>2, <1>3, <1>4, <1>5

\* What is known of the neighbor and the walk to it.
New == [node |-> neighbor, cv |-> tentative_g_score]

LEMMA NeighborFacts ==
    ASSUME Inv, pc = "neighbors", MoreNeighbors
    PROVE  /\ problem \in Problems /\ curr \in Item /\ IsHeld(curr) /\ ~ goal(problem, curr.node)
           /\ i \in DOMAIN neighborEdges(problem, curr.node)
           /\ New \in Item /\ New.node = neighbor /\ New.cv = tentative_g_score
           /\ neighbor = neighborEdges(problem, curr.node)[i].to
           /\ ToNeighbor.cost \in CostVector
           /\ tentative_g_score
                = Plus(curr.cv, neighborEdges(problem, curr.node)[i].cost)
           /\ Leq(curr.cv, tentative_g_score)
           /\ tentative_f_score = f_score(New)
           /\ \A d \in ToGo[neighbor] : AboveFront(Plus(tentative_g_score, d.cost))
<1>1. /\ problem \in Problems /\ curr \in Item /\ IsHeld(curr) /\ ~ goal(problem, curr.node)
      /\ i \in DOMAIN neighborEdges(problem, curr.node)
      /\ curr.node \in Nodes /\ curr.cv \in CostVector
  BY DEF Inv, TInv, TypeOK, Item, PInv, StartAndCurrHeld, MoreNeighbors
<1>2. New \in Item /\ New.node = neighbor /\ New.cv = tentative_g_score
  BY NeighborTyped DEF New, Inv, IInv
<1>3. ToNeighbor = neighborEdges(problem, curr.node)[i] /\ neighbor = ToNeighbor.to
  BY DEF ToNeighbor, neighbor
<1>4. /\ ToNeighbor.to \in Nodes /\ ToNeighbor.cost \in CostVector
      /\ \A c \in ToGo[ToNeighbor.to] : \E d \in ToGo[curr.node] :
            Leq(d.cost, Plus(ToNeighbor.cost, c.cost))
  BY <1>1, <1>3, ReferenceOfEdge DEF ToGo
<1>5. tentative_g_score = Plus(curr.cv, ToNeighbor.cost)
  BY <1>1, <1>3, ScoreAdds DEF tentative_g_score, Inv, PInv
<1>6. Leq(curr.cv, tentative_g_score)
  BY <1>1, <1>4, <1>5, CostOrder
<1>7. tentative_f_score = f_score(New)
  BY <1>2 DEF tentative_f_score, f_score
<1>8. ASSUME NEW c \in ToGo[neighbor] PROVE AboveFront(Plus(tentative_g_score, c.cost))
  <2>1. PICK d \in ToGo[curr.node] : Leq(d.cost, Plus(ToNeighbor.cost, c.cost))
    BY <1>3, <1>4, <1>8
  <2>2. c.cost \in CostVector /\ d.cost \in CostVector
    BY <1>1, <1>3, <1>4, ReferenceTyped DEF ToGo
  <2>3. PICK f \in ParetoFront : Leq(f, Plus(curr.cv, d.cost))
    BY <1>1 DEF Inv, PInv, HeldAboveFront, AboveFront
  <2>4. f \in CostVector
    BY <1>1, FrontOfReference DEF ParetoFront
  <2> DEFINE sum == Plus(ToNeighbor.cost, c.cost)
  <2>5. sum \in CostVector /\ Leq(d.cost, sum)
    BY <1>4, <2>1, <2>2, PlusTyped
  <2>6. Plus(tentative_g_score, c.cost) = Plus(curr.cv, sum)
    BY <1>1, <1>4, <1>5, <2>2, SumOrder
  <2> HIDE DEF sum
  <2>7. Leq(Plus(curr.cv, d.cost), Plus(curr.cv, sum))
    BY <1>1, <2>2, <2>5, SumMonotone
  <2>8. Leq(f, Plus(curr.cv, sum))
    <3>1. Plus(curr.cv, d.cost) \in CostVector /\ Plus(curr.cv, sum) \in CostVector
      BY <1>1, <2>2, <2>5, PlusTyped
    <3>2. QED
      BY <2>3, <2>4, <2>7, <3>1, CostOrder
  <2>9. QED
    BY <2>3, <2>6, <2>8 DEF AboveFront
<1>9. QED
  BY <1>1, <1>2, <1>3, <1>4, <1>5, <1>6, <1>7, <1>8

\* An item that matters is not erased by the walk to the neighbor.
LEMMA NotErased ==
    ASSUME Inv, pc = "neighbors", MoreNeighbors,
           NEW x \in Item, x.node = neighbor, NEW d \in ToGo[neighbor],
           Plus(x.cv, d.cost) \in ParetoFront
    PROVE  x.cv \notin Erased /\ (Leq(tentative_g_score, x.cv) => x.cv = tentative_g_score)
<1> DEFINE g == tentative_g_score
<1>1. problem \in Problems /\ g \in CostVector /\ x.cv \in CostVector
  BY NeighborFacts DEF Item
<1>2. d.cost \in CostVector
  BY ItemBelow DEF Inv
<1>3. AboveFront(Plus(g, d.cost))
  BY NeighborFacts
<1> HIDE DEF g
<1>4. ASSUME Leq(g, x.cv) PROVE x.cv = g
  <2>1. Leq(Plus(d.cost, g), Plus(d.cost, x.cv))
    BY <1>1, <1>2, <1>4, SumMonotone
  <2>2. /\ Plus(d.cost, g) = Plus(g, d.cost) /\ Plus(d.cost, x.cv) = Plus(x.cv, d.cost)
        /\ Plus(g, d.cost) \in CostVector
    BY <1>1, <1>2, SumOrder, PlusTyped
  <2>3. Plus(g, d.cost) = Plus(x.cv, d.cost)
    BY <1>1, <1>3, <2>1, <2>2, FrontIsLeast DEF AboveFront, ParetoFront
  <2>4. Plus(d.cost, g) = Plus(d.cost, x.cv)
    BY <2>2, <2>3
  <2>5. QED
    BY <1>1, <1>2, <2>4, SumCancels
<1>5. x.cv \notin Erased
  BY <1>4 DEF g, Erased, Dominates, dominates
<1>6. QED
  BY <1>4, <1>5 DEF g

\* Neither are the items the search started from, nor the item being expanded.
LEMMA StartAndCurrNotErased ==
    ASSUME Inv, pc = "neighbors", MoreNeighbors
    PROVE  Zero \notin Erased /\ (curr.node = neighbor => curr.cv \notin Erased)
<1>1. tentative_g_score \in CostVector /\ curr.cv \in CostVector
  BY NeighborFacts DEF Item
<1>2. Leq(Zero, tentative_g_score) /\ Leq(curr.cv, tentative_g_score)
  <2>1. Leq(Zero, Plus(Zero, tentative_g_score))
    BY <1>1, ZeroTyped, CostOrder
  <2>2. QED
    BY <1>1, <2>1, SumWithZero, NeighborFacts
<1>3. \A c \in {Zero, curr.cv} : ~ Dominates(tentative_g_score, c)
  <2> SUFFICES ASSUME NEW c \in {Zero, curr.cv}, Leq(tentative_g_score, c)
               PROVE  tentative_g_score = c
    BY DEF Dominates, dominates
  <2>1. c \in CostVector /\ Leq(c, tentative_g_score)
    BY <1>1, <1>2, ZeroTyped
  <2>2. QED
    BY <1>1, <2>1, CostOrder
<1>4. QED
  BY <1>3 DEF Erased

\* The items held after a step.
LEMMA HeldAfterFilter ==
    ASSUME FilterNeighbor, NEW x
    PROVE  IsHeld(x)' <=> IsHeld(x) /\ ~ (x.node = neighbor /\ x.cv \in Erased)
BY DEF FilterNeighbor, IsHeld, Costs, KeptCosts

LEMMA HeldAfterAdd ==
    ASSUME AddNeighbor, NEW x \in Item
    PROVE  /\ x = New => IsHeld(x)'
           /\ x # New => (IsHeld(x)' <=> IsHeld(x) /\ ~ (x.node = neighbor /\ x.cv \in Erased))
<1>1. /\ DOMAIN cost_map' = DOMAIN cost_map \cup {neighbor}
      /\ \A n \in DOMAIN cost_map' :
            cost_map'[n] = IF n = neighbor THEN Assign(KeptCosts, tentative_g_score, TRUE)
                                           ELSE cost_map[n]
  BY DEF AddNeighbor, Assign
<1>2. DOMAIN cost_map'[neighbor] = DOMAIN KeptCosts \cup {tentative_g_score}
  BY <1>1 DEF Assign
<1>3. DOMAIN KeptCosts = Costs(neighbor) \ Erased
  BY DEF KeptCosts
<1>4. x = New => IsHeld(x)'
  BY <1>1, <1>2 DEF IsHeld, Costs, New
<1>5. ASSUME x # New
      PROVE  IsHeld(x)' <=> IsHeld(x) /\ ~ (x.node = neighbor /\ x.cv \in Erased)
  <2>1. CASE x.node = neighbor
    <3>1. x.cv # tentative_g_score
      BY <1>5, <2>1, ItemParts DEF New
    <3>2. QED
      BY <1>1, <1>2, <1>3, <2>1, <3>1 DEF IsHeld, Costs
  <2>2. CASE x.node # neighbor
    BY <1>1, <2>2 DEF IsHeld, Costs
  <2>3. QED
    BY <2>1, <2>2
<1>6. QED
  BY <1>4, <1>5

LEMMA HeldAfterPop ==
    ASSUME NEW e \in open_set, cost_map' = moveToClosed(e), NEW x
    PROVE  IsHeld(x)' <=> IsHeld(x)
BY DEF moveToClosed, IsHeld, Costs

-----------------------------------------------------------------------------
LEMMA InitPInv == Init /\ Additive(problem) => PInv
<1> SUFFICES ASSUME Init, Additive(problem) PROVE PInv
  OBVIOUS
<1>1. /\ problem \in Problems /\ pc = "loop" /\ solution_set = <<>>
      /\ open_set = Initials
      /\ problem.initialNodes \subseteq Nodes
  BY MOProblemAssumption DEF Init, Initials, IsProblem
<1>2. cost_map = [n \in problem.initialNodes |-> [c \in {Zero} |-> TRUE]]
  BY DEF Init
<1>3. ASSUME NEW x \in Item PROVE IsHeld(x) <=> x \in Initials
  <2>1. IsHeld(x) <=> x.node \in problem.initialNodes /\ x.cv = Zero
    BY <1>2 DEF IsHeld, Costs
  <2>2. x \in Initials <=> x.node \in problem.initialNodes /\ x.cv = Zero
    BY ItemParts DEF Initials, Item
  <2>3. QED
    BY <2>1, <2>2
<1>4. Initials \subseteq Item
  BY <1>1, ZeroTyped DEF Initials, Item
<1>5. HeldAboveFront
  <2> SUFFICES ASSUME NEW x \in Initials, NEW d \in ToGo[x.node]
               PROVE  AboveFront(Plus(x.cv, d.cost))
    BY <1>3 DEF HeldAboveFront
  <2>1. x.node \in problem.initialNodes /\ x.cv = Zero
    BY DEF Initials
  <2>2. d.cost \in CostVector
    BY <1>1, <2>1, ReferenceTyped DEF ToGo
  <2>3. Plus(x.cv, d.cost) = d.cost
    BY <2>1, <2>2, SumWithZero
  <2>4. QED
    BY <1>1, <2>1, <2>3, FrontOfReference DEF AboveFront, ParetoFront, ToGo
<1>6. HeldSettled
  <2> SUFFICES ASSUME NEW x \in Initials, NEW d \in ToGo[x.node]
               PROVE  OpenLeads(Plus(x.cv, d.cost), d.hops)
    BY <1>3 DEF HeldSettled, Ahead
  <2>1. d.hops \in Nat
    BY <1>1, ReferenceTyped DEF ToGo, Initials
  <2>2. d.hops <= d.hops
    BY <2>1
  <2>3. QED
    BY <1>1, <2>2 DEF OpenLeads
<1>7. StartAndCurrHeld
  BY <1>1, <1>3, <1>4 DEF StartAndCurrHeld
<1>8. SolutionsRight /\ OpenUnbeaten
  BY <1>1 DEF SolutionsRight, OpenUnbeaten, Found
<1>9. QED
  BY <1>5, <1>6, <1>7, <1>8 DEF PInv

\* What a step has to do to keep what is held settled: new items are open, and
\* what was ahead stays ahead or is found.
LEMMA StepSettles ==
    ASSUME Inv, problem' = problem, Found \subseteq Found',
           \A x \in Item : IsHeld(x)' => IsHeld(x) \/ x \in open_set',
           \A f \in ParetoFront \ Found' : \A k \in Nat : Ahead(f, k) => Ahead(f, k)'
    PROVE  HeldSettled'
<1>1. ParetoFront' = ParetoFront /\ ToGo' = ToGo
  BY DEF ParetoFront, ToGo
<1> SUFFICES ASSUME NEW x \in Item, IsHeld(x)', NEW d \in ToGo[x.node],
                    Plus(x.cv, d.cost) \in ParetoFront \ Found'
             PROVE  Ahead(Plus(x.cv, d.cost), d.hops)'
  BY <1>1 DEF HeldSettled
<1>2. d.hops \in Nat /\ d.hops <= d.hops
  BY ItemBelow DEF Inv
<1>3. CASE IsHeld(x)
  BY <1>2, <1>3 DEF Inv, PInv, HeldSettled
<1>4. CASE x \in open_set'
  BY <1>1, <1>2, <1>4 DEF Ahead, OpenLeads
<1>5. QED
  BY <1>3, <1>4

\* The same for the bound that the front is.
LEMMA StepStaysAbove ==
    ASSUME Inv, problem' = problem,
           \A x \in Item : IsHeld(x)' =>
              \/ IsHeld(x)
              \/ \A d \in ToGo[x.node] : AboveFront(Plus(x.cv, d.cost))
    PROVE  HeldAboveFront'
<1>1. ParetoFront' = ParetoFront /\ ToGo' = ToGo
  BY DEF ParetoFront, ToGo
<1>2. \A v : AboveFront(v)' = AboveFront(v)
  BY <1>1 DEF AboveFront
<1>3. QED
  BY <1>1, <1>2 DEF Inv, PInv, HeldAboveFront

\* A goal that is popped is a point of the front: of any other point below it,
\* found or ahead, it would not be the first.
LEMMA PoppedGoalOnFront ==
    ASSUME Inv, pc = "loop", NEW e \in open_set, Top(e), goal(problem, e.node)
    PROVE  /\ e.cv \in ParetoFront
           /\ \A d \in ToGo[e.node] : Plus(e.cv, d.cost) = e.cv
           /\ ToGo[e.node] # {}
<1>1. /\ problem \in Problems /\ e \in Item /\ e.node \in Nodes /\ e.cv \in CostVector
      /\ IsHeld(e)
  BY DEF Inv, TInv, TypeOK, IInv, OpenIsHeld, Item
<1>2. ToGo[e.node] # {} /\ \A d \in ToGo[e.node] : d.cost = Zero
  BY <1>1, MOProblemAssumption DEF IsParetoToGo, ToGo, goal
<1>3. PICK z \in ToGo[e.node] : z.cost = Zero
  BY <1>2
<1>4. Plus(e.cv, z.cost) = e.cv
  BY <1>1, <1>3, SumWithZero
<1>5. PICK f \in ParetoFront : Leq(f, e.cv)
  BY <1>1, <1>4 DEF Inv, PInv, HeldAboveFront, AboveFront
<1>6. f \in CostVector
  BY <1>1, FrontOfReference DEF ParetoFront
<1>7. f = e.cv
  <2> SUFFICES ASSUME f # e.cv PROVE FALSE
    OBVIOUS
  <2>1. CASE f \in Found
    BY <1>5, <2>1 DEF Found, Inv, PInv, OpenUnbeaten, Dominates, dominates
  <2>2. CASE f \notin Found
    <3>1. PICK n \in problem.initialNodes : \E d \in ToGo[n] : d.cost = f
      BY <1>1, FrontOfReference DEF ParetoFront, ToGo
    <3>2. PICK d \in ToGo[n] : d.cost = f
      BY <3>1
    <3> DEFINE x == [node |-> n, cv |-> Zero]
    <3>3. x \in Initials /\ x \in Item /\ x.node = n /\ x.cv = Zero
      BY <1>1, ZeroTyped, MOProblemAssumption DEF Initials, Item, IsProblem
    <3>4. IsHeld(x)
      BY <3>3 DEF Inv, PInv, StartAndCurrHeld
    <3> HIDE DEF x
    <3>5. Plus(x.cv, d.cost) = f
      BY <1>6, <3>2, <3>3, SumWithZero
    <3>6. Ahead(f, d.hops)
      BY <2>2, <3>2, <3>3, <3>4, <3>5 DEF Inv, PInv, HeldSettled
    <3>7. PICK o \in open_set : \E c \in ToGo[o.node] : Plus(o.cv, c.cost) = f
      BY <3>6 DEF Ahead, OpenLeads
    <3>8. PICK c \in ToGo[o.node] : Plus(o.cv, c.cost) = f
      BY <3>7
    <3>9. o \in Item
      BY DEF Inv, TInv, TypeOK
    <3>10. f_score(o) \in CostVector /\ Leq(f_score(o), f)
      BY <3>8, <3>9, ItemBelow DEF Inv
    <3>11. f_score(e) \in CostVector /\ Leq(e.cv, f_score(e))
      BY <1>1, <1>3, ItemBelow DEF Inv
    <3>12. Leq(f_score(o), e.cv)
      BY <1>1, <1>5, <1>6, <3>10, CostOrder
    <3>13. Leq(f_score(o), f_score(e))
      BY <1>1, <3>10, <3>11, <3>12, CostOrder
    <3>14. f_score(o) # f_score(e)
      <4> SUFFICES ASSUME f_score(o) = f_score(e) PROVE FALSE
        OBVIOUS
      <4>1. Leq(e.cv, f)
        BY <1>1, <1>6, <3>10, <3>11, CostOrder
      <4>2. QED
        BY <1>1, <1>5, <1>6, <4>1, CostOrder
    <3>15. LexLess(f_score(o), f_score(e))
      BY <3>10, <3>11, <3>13, <3>14, SmallerIsLexLess
    <3>16. QED
      BY <3>15 DEF Top
  <2>3. QED
    BY <2>1, <2>2
<1>8. QED
  BY <1>1, <1>2, <1>7, SumWithZero

\* Points of the front that are not popped stay ahead: what else leaves the open
\* set is dominated by the point popped.
LEMMA PopGoalPInv == Inv /\ PopGoal => PInv'
<1> SUFFICES ASSUME Inv, PopGoal PROVE PInv'
  OBVIOUS
<1>1. PICK e \in open_set :
         /\ Top(e) /\ goal(problem, e.node)
         /\ cost_map' = moveToClosed(e)
         /\ solution_set' = Append(solution_set, e)
         /\ open_set' = OpenNotDominated(e.cv) \ {e}
  BY DEF PopGoal
<1>2. pc = "loop" /\ UNCHANGED <<problem, pc>>
  BY DEF PopGoal
<1>3. /\ e.cv \in ParetoFront
      /\ \A d \in ToGo[e.node] : Plus(e.cv, d.cost) = e.cv
  BY <1>1, <1>2, PoppedGoalOnFront
<1>4. /\ problem \in Problems /\ e \in Item /\ e.cv \in CostVector /\ IsHeld(e)
      /\ solution_set \in Seq(Item)
  BY DEF Inv, TInv, TypeOK, Item, IInv, OpenIsHeld
<1>5. ParetoFront' = ParetoFront /\ ToGo' = ToGo
  BY <1>2 DEF ParetoFront, ToGo
<1>6. /\ DOMAIN solution_set' = DOMAIN solution_set \cup {Len(solution_set) + 1}
      /\ Len(solution_set) + 1 \notin DOMAIN solution_set
      /\ solution_set'[Len(solution_set) + 1] = e
      /\ \A k \in DOMAIN solution_set : solution_set'[k] = solution_set[k]
  BY <1>1, <1>4
<1>7. Found' = Found \cup {e.cv}
  BY <1>6 DEF Found
<1>8. \A x \in Item : IsHeld(x)' <=> IsHeld(x)
  BY <1>1, HeldAfterPop
<1>9. ASSUME NEW f \in ParetoFront \ Found', NEW k \in Nat, Ahead(f, k)
      PROVE  Ahead(f, k)'
  <2>1. PICK o \in open_set : \E d \in ToGo[o.node] : Plus(o.cv, d.cost) = f /\ d.hops <= k
    BY <1>2, <1>9 DEF Ahead, OpenLeads
  <2>2. PICK d \in ToGo[o.node] : Plus(o.cv, d.cost) = f /\ d.hops <= k
    BY <2>1
  <2>3. o # e
    BY <1>3, <1>7, <2>2
  <2>4. ~ Dominates(e.cv, o.cv)
    <3> SUFFICES ASSUME Dominates(e.cv, o.cv) PROVE FALSE
      OBVIOUS
    <3>1. o \in Item /\ o.cv \in CostVector /\ f \in CostVector
      BY <1>4, FrontOfReference DEF Inv, TInv, TypeOK, Item, ParetoFront
    <3>2. Leq(e.cv, o.cv) /\ Leq(o.cv, f)
      BY <2>2, <3>1, ItemBelow DEF Dominates, dominates, Inv
    <3>3. Leq(e.cv, f)
      BY <1>4, <3>1, <3>2, CostOrder
    <3>4. e.cv = f
      BY <1>3, <1>4, <3>3, FrontOfReference DEF ParetoFront
    <3>5. QED
      BY <1>7, <3>4
  <2>5. o \in open_set'
    BY <1>1, <2>3, <2>4 DEF OpenNotDominated
  <2>6. QED
    BY <1>5, <2>2, <2>5 DEF Ahead, OpenLeads
<1>10. HeldSettled'
  BY <1>2, <1>7, <1>8, <1>9, StepSettles
<1>11. HeldAboveFront'
  BY <1>2, <1>8, StepStaysAbove
<1>12. StartAndCurrHeld'
  <2>1. Initials' = Initials /\ Initials \subseteq Item
    BY <1>2, <1>4, ZeroTyped, MOProblemAssumption DEF Initials, Item, IsProblem
  <2>2. QED
    BY <1>2, <1>8, <2>1 DEF Inv, PInv, StartAndCurrHeld
<1>13. SolutionsRight'
  <2>1. Found' \subseteq ParetoFront'
    BY <1>3, <1>5, <1>7 DEF Inv, PInv, SolutionsRight
  <2>2. \A k \in DOMAIN solution_set : solution_set[k] # e /\ solution_set[k] \in Item
    BY <1>4 DEF Inv, PInv, SolutionsRight
  <2>3. open_set' \subseteq open_set \ {e}
    BY <1>1 DEF OpenNotDominated
  <2>4. ASSUME NEW k \in DOMAIN solution_set'
        PROVE  /\ goal(problem, solution_set'[k].node)
               /\ IsHeld(solution_set'[k])
               /\ solution_set'[k] \in Item
               /\ solution_set'[k] \notin open_set'
               /\ \A l \in DOMAIN solution_set' : solution_set'[k] = solution_set'[l] => k = l
    <3>1. CASE k \in DOMAIN solution_set
      <4>1. /\ goal(problem, solution_set[k].node)
            /\ IsHeld(solution_set[k])
            /\ solution_set[k] \in Item
            /\ solution_set[k] \notin open_set
            /\ \A l \in DOMAIN solution_set : solution_set[k] = solution_set[l] => k = l
        BY <2>2, <3>1 DEF Inv, PInv, SolutionsRight
      <4>2. QED
        BY <1>6, <2>2, <2>3, <3>1, <4>1
    <3>2. CASE k = Len(solution_set) + 1
      BY <1>1, <1>4, <1>6, <2>2, <2>3, <3>2
    <3>3. QED
      BY <1>6, <3>1, <3>2
  <2>5. QED
    BY <1>2, <1>8, <2>1, <2>4 DEF SolutionsRight, goal
<1>14. OpenUnbeaten'
  <2>1. \A o \in open_set' : o \in open_set /\ ~ Dominates(e.cv, o.cv)
    BY <1>1 DEF OpenNotDominated
  <2>2. QED
    BY <1>6, <2>1 DEF Inv, PInv, OpenUnbeaten
<1>15. QED
  BY <1>2, <1>10, <1>11, <1>12, <1>13, <1>14 DEF Inv, PInv

\* What an item that is expanded leads to, its edges lead to.
LEMMA PopExpandPInv == Inv /\ PopExpand => PInv'
<1> SUFFICES ASSUME Inv, PopExpand PROVE PInv'
  OBVIOUS
<1>1. PICK e \in open_set :
         /\ ~ goal(problem, e.node)
         /\ cost_map' = moveToClosed(e) /\ open_set' = open_set \ {e} /\ curr' = e
  BY DEF PopExpand
<1>2. /\ pc = "loop" /\ pc' = "neighbors" /\ i' = 1
      /\ UNCHANGED <<problem, solution_set>>
  BY DEF PopExpand
<1>3. /\ problem \in Problems /\ e \in Item /\ e.node \in Nodes /\ e.cv \in CostVector
      /\ IsHeld(e)
  BY DEF Inv, TInv, TypeOK, Item, IInv, OpenIsHeld
<1>4. ParetoFront' = ParetoFront /\ ToGo' = ToGo /\ Found' = Found
  BY <1>2 DEF ParetoFront, ToGo, Found
<1>5. \A x \in Item : IsHeld(x)' <=> IsHeld(x)
  BY <1>1, HeldAfterPop
<1>6. ASSUME NEW f \in ParetoFront \ Found', NEW k \in Nat, Ahead(f, k)
      PROVE  Ahead(f, k)'
  <2>1. PICK o \in open_set : \E d \in ToGo[o.node] : Plus(o.cv, d.cost) = f /\ d.hops <= k
    BY <1>2, <1>6 DEF Ahead, OpenLeads
  <2>2. PICK d \in ToGo[o.node] : Plus(o.cv, d.cost) = f /\ d.hops <= k
    BY <2>1
  <2>3. CASE o # e
    BY <1>1, <1>4, <2>2, <2>3 DEF Ahead, OpenLeads
  <2>4. CASE o = e
    <3>1. PICK j \in DOMAIN neighborEdges(problem, e.node) :
             \E c \in ToGo[neighborEdges(problem, e.node)[j].to] :
                 /\ d.cost = Plus(neighborEdges(problem, e.node)[j].cost, c.cost)
                 /\ c.hops < d.hops
      BY <1>1, <1>3, <2>2, <2>4, MOProblemAssumption
         DEF IsParetoToGo, ToGo, goal, neighborEdges
    <3> DEFINE edge == neighborEdges(problem, e.node)[j]
    <3>2. PICK c \in ToGo[edge.to] : d.cost = Plus(edge.cost, c.cost) /\ c.hops < d.hops
      BY <3>1
    <3>3. edge.to \in Nodes /\ edge.cost \in CostVector
      BY <1>3, ReferenceOfEdge
    <3> HIDE DEF edge
    <3>4. c.cost \in CostVector /\ c.hops \in Nat
      BY <1>3, <3>3, ReferenceTyped DEF ToGo
    <3>5. d.hops \in Nat
      BY <1>3, <2>4, ReferenceTyped DEF ToGo
    <3>6. c.hops < k
      BY <2>2, <3>2, <3>4, <3>5
    <3>7. Plus(Plus(e.cv, edge.cost), c.cost) = f
      BY <1>3, <2>2, <2>4, <3>2, <3>3, <3>4, SumOrder
    <3>8. EdgeLeads(f, k, j)'
      BY <1>1, <1>2, <1>4, <3>2, <3>6, <3>7 DEF EdgeLeads, edge
    <3>9. j \in DOMAIN neighborEdges(problem', curr'.node) /\ i' <= j
      <4>1. neighborEdges(problem, e.node) \in Seq(Edge)
        BY <1>3, EdgeTyped
      <4>2. j >= 1
        BY <4>1
      <4>3. QED
        BY <1>1, <1>2, <4>1, <4>2
    <3>10. QED
      BY <1>2, <3>8, <3>9 DEF Ahead
  <2>5. QED
    BY <2>3, <2>4
<1>7. HeldSettled'
  BY <1>2, <1>4, <1>5, <1>6, StepSettles
<1>8. HeldAboveFront'
  BY <1>2, <1>5, StepStaysAbove
<1>9. StartAndCurrHeld'
  <2>1. Initials' = Initials /\ Initials \subseteq Item
    BY <1>2, <1>3, ZeroTyped, MOProblemAssumption DEF Initials, Item, IsProblem
  <2>2. IsHeld(curr)'
    BY <1>1, <1>3, <1>5 DEF IsHeld, Costs
  <2>3. QED
    BY <1>1, <1>2, <1>5, <2>1, <2>2 DEF Inv, PInv, StartAndCurrHeld
<1>10. SolutionsRight'
  <2>1. \A k \in DOMAIN solution_set : solution_set[k] \in Item
    BY DEF Inv, TInv, TypeOK
  <2>2. ASSUME NEW k \in DOMAIN solution_set PROVE IsHeld(solution_set[k])'
    <3>1. PICK x \in Item : x = solution_set[k]
      BY <2>1
    <3>2. IsHeld(x)'
      BY <1>5, <3>1 DEF Inv, PInv, SolutionsRight
    <3>3. QED
      BY <1>2, <3>1, <3>2
  <2>3. QED
    BY <1>1, <1>2, <1>4, <2>2 DEF Inv, PInv, SolutionsRight
<1>11. OpenUnbeaten'
  BY <1>1, <1>2 DEF Inv, PInv, OpenUnbeaten
<1>12. QED
  BY <1>2, <1>7, <1>8, <1>9, <1>10, <1>11 DEF Inv, PInv

-----------------------------------------------------------------------------
\* Looking at a neighbor leaves the edges behind it ahead.
LEMMA LaterEdges ==
    ASSUME TInv, pc = "neighbors", UNCHANGED <<problem, pc, curr>>, i' = i + 1,
           NEW f, NEW k,
           NEW j \in DOMAIN neighborEdges(problem, curr.node), i <= j, j # i,
           EdgeLeads(f, k, j)
    PROVE  Ahead(f, k)'
<1>1. neighborEdges(problem, curr.node) \in Seq(Edge)
  BY EdgeTyped DEF TInv, TypeOK, Item
<1>2. j \in Nat /\ i \in Nat
  BY <1>1 DEF TInv, TypeOK
<1>3. i' <= j
  BY <1>2
<1>4. EdgeLeads(f, k, j)'
  BY DEF EdgeLeads, ToGo
<1>5. QED
  BY <1>3, <1>4 DEF Ahead

\* What the edge that is looked at leads to.
LEMMA EdgeLooked ==
    ASSUME Inv, pc = "neighbors", MoreNeighbors, NEW f, NEW k, EdgeLeads(f, k, i)
    PROVE  \E d \in ToGo[neighbor] : Plus(tentative_g_score, d.cost) = f /\ d.hops < k
BY NeighborFacts DEF EdgeLeads

\* A walk that is skipped adds nothing: what it leads to, an item that is held
\* leads to in as many steps, and has not to go through the same edge.
LEMMA SkipKnownAhead ==
    ASSUME Inv, SkipKnown, NEW f \in ParetoFront \ Found, NEW k \in Nat, Ahead(f, k)
    PROVE  Ahead(f, k)'
<1>1. /\ pc = "neighbors" /\ MoreNeighbors /\ DominatedAt(neighbor, tentative_g_score)
      /\ i' = i + 1 /\ UNCHANGED <<problem, pc, open_set, curr>>
  BY DEF SkipKnown
<1>2. problem \in Problems /\ tentative_g_score \in CostVector /\ neighbor \in Nodes
  BY <1>1, NeighborFacts DEF Item
<1>3. ASSUME NEW l \in Nat, OpenLeads(f, l), l <= k PROVE Ahead(f, k)'
  <2>1. PICK o \in open_set : \E d \in ToGo[o.node] : Plus(o.cv, d.cost) = f /\ d.hops <= l
    BY <1>3 DEF OpenLeads
  <2>2. PICK d \in ToGo[o.node] : Plus(o.cv, d.cost) = f /\ d.hops <= l
    BY <2>1
  <2>3. d.hops \in Nat
    BY <2>2, ItemBelow DEF Inv, TInv, TypeOK
  <2>4. d.hops <= k
    BY <1>3, <2>2, <2>3
  <2>5. ToGo' = ToGo
    BY <1>1 DEF ToGo
  <2>6. QED
    BY <1>1, <2>2, <2>4, <2>5 DEF Ahead, OpenLeads
<1>4. ASSUME NEW l \in Nat, l <= k, NEW j \in DOMAIN neighborEdges(problem, curr.node),
             i <= j, j # i, EdgeLeads(f, l, j)
      PROVE  Ahead(f, k)'
  <2>1. EdgeLeads(f, k, j)
    <3>1. PICK d \in ToGo[neighborEdges(problem, curr.node)[j].to] :
             /\ Plus(Plus(curr.cv, neighborEdges(problem, curr.node)[j].cost), d.cost) = f
             /\ d.hops < l
      BY <1>4 DEF EdgeLeads
    <3>2. neighborEdges(problem, curr.node)[j].to \in Nodes
      BY <1>2, ReferenceOfEdge DEF Inv, TInv, TypeOK, Item
    <3>3. d.hops \in Nat
      BY <1>2, <3>2, ReferenceTyped DEF ToGo
    <3>4. d.hops < k
      BY <1>4, <3>1, <3>3
    <3>5. QED
      BY <3>1, <3>4 DEF EdgeLeads
  <2>2. QED
    BY <1>1, <1>4, <2>1, LaterEdges DEF Inv
<1>5. CASE EdgeLeads(f, k, i)
  <2>1. PICK d \in ToGo[neighbor] : Plus(tentative_g_score, d.cost) = f /\ d.hops < k
    BY <1>1, <1>5, EdgeLooked
  <2>2. PICK b \in Costs(neighbor) : dominates(b, tentative_g_score) # "DoesNotDominate"
    BY <1>1 DEF DominatedAt
  <2>3. b \in CostVector
    BY DEF Costs, Inv, TInv, TypeOK
  <2>4. Leq(b, tentative_g_score)
    BY <2>2 DEF dominates
  <2> DEFINE x == [node |-> neighbor, cv |-> b]
  <2>5. x \in Item /\ IsHeld(x) /\ x.node = neighbor /\ x.cv = b
    BY <1>2, <2>2, <2>3 DEF Item, IsHeld
  <2> HIDE DEF x
  <2>6. d.cost \in CostVector /\ d.hops \in Nat /\ Plus(b, d.cost) \in CostVector
    BY <1>2, <2>3, ReferenceTyped, PlusTyped DEF ToGo
  <2>7. Leq(Plus(b, d.cost), f)
    <3>1. Leq(Plus(d.cost, b), Plus(d.cost, tentative_g_score))
      BY <1>2, <2>3, <2>4, <2>6, SumMonotone
    <3>2. /\ Plus(d.cost, b) = Plus(b, d.cost)
          /\ Plus(d.cost, tentative_g_score) = Plus(tentative_g_score, d.cost)
      BY <1>2, <2>3, <2>6, SumOrder
    <3>3. QED
      BY <2>1, <3>1, <3>2
  <2>8. Plus(b, d.cost) = f
    <3>1. AboveFront(Plus(b, d.cost))
      BY <2>5 DEF Inv, PInv, HeldAboveFront
    <3>2. QED
      BY <1>2, <2>6, <2>7, <3>1, FrontIsLeast DEF AboveFront, ParetoFront
  <2>9. Ahead(f, d.hops)
    BY <2>5, <2>8 DEF Inv, PInv, HeldSettled
  <2>10. d.hops <= k
    BY <2>1, <2>6
  <2>11. CASE OpenLeads(f, d.hops)
    BY <1>3, <2>6, <2>10, <2>11
  <2>12. ASSUME NEW j \in DOMAIN neighborEdges(problem, curr.node), i <= j,
                EdgeLeads(f, d.hops, j)
         PROVE  Ahead(f, k)'
    <3>1. CASE j # i
      BY <1>4, <2>6, <2>10, <2>12, <3>1
    <3>2. CASE j = i
      <4>1. EdgeLeads(f, d.hops, i)
        BY <2>12, <3>2
      <4>2. PICK c \in ToGo[neighbor] :
               Plus(tentative_g_score, c.cost) = f /\ c.hops < d.hops
        BY <1>1, <4>1, EdgeLooked
      <4>3. c.cost \in CostVector
        BY <1>2, <4>2, ReferenceTyped DEF ToGo
      <4>4. c.cost = d.cost
        BY <1>2, <2>1, <2>6, <4>2, <4>3, SumCancels
      <4>5. c = d
        BY <1>2, <4>2, <4>4, ReferenceTyped DEF ToGo
      <4>6. QED
        BY <2>6, <4>2, <4>5
    <3>3. QED
      BY <3>1, <3>2
  <2>13. QED
    BY <2>9, <2>11, <2>12 DEF Ahead
<1>6. k <= k
  OBVIOUS
<1>7. CASE OpenLeads(f, k)
  BY <1>3, <1>6, <1>7
<1>8. ASSUME NEW j \in DOMAIN neighborEdges(problem, curr.node), i <= j, EdgeLeads(f, k, j)
      PROVE  Ahead(f, k)'
  <2>1. CASE j = i
    BY <1>5, <1>8, <2>1
  <2>2. CASE j # i
    BY <1>4, <1>6, <1>8, <2>2
  <2>3. QED
    BY <2>1, <2>2
<1>9. QED
  BY <1>7, <1>8 DEF Ahead

\* An open item that leads to a point of the front stays open.
LEMMA OpenLeadsKept ==
    ASSUME Inv, pc = "neighbors", MoreNeighbors, UNCHANGED problem, KeptOpen \subseteq open_set',
           NEW f \in ParetoFront, NEW k, OpenLeads(f, k)
    PROVE  Ahead(f, k)'
<1>1. PICK o \in open_set : \E d \in ToGo[o.node] : Plus(o.cv, d.cost) = f /\ d.hops <= k
  BY DEF OpenLeads
<1>2. PICK d \in ToGo[o.node] : Plus(o.cv, d.cost) = f /\ d.hops <= k
  BY <1>1
<1>3. o \in Item
  BY DEF Inv, TInv, TypeOK
<1>4. o.node = neighbor => o.cv \notin Erased
  BY <1>2, <1>3, NotErased
<1>5. o \in KeptOpen
  BY <1>4 DEF KeptOpen
<1>6. ToGo' = ToGo
  BY DEF ToGo
<1>7. QED
  BY <1>2, <1>5, <1>6 DEF Ahead, OpenLeads

\* Solutions are not erased: they are on the front.
LEMMA SolutionsNotErased ==
    ASSUME Inv, pc = "neighbors", MoreNeighbors, NEW k \in DOMAIN solution_set
    PROVE  /\ solution_set[k] \in Item
           /\ ~ (solution_set[k].node = neighbor /\ solution_set[k].cv \in Erased)
<1>1. PICK x \in Item : x = solution_set[k]
  BY DEF Inv, TInv, TypeOK
<1>2. problem \in Problems /\ x.cv \in ParetoFront /\ goal(problem, x.node)
      /\ x.node \in Nodes /\ x.cv \in CostVector
  BY <1>1 DEF Inv, TInv, TypeOK, PInv, SolutionsRight, Found, Item
<1>3. PICK d \in ToGo[x.node] : d.cost = Zero
  BY <1>2, MOProblemAssumption DEF IsParetoToGo, ToGo, goal
<1>4. Plus(x.cv, d.cost) = x.cv
  BY <1>2, <1>3, SumWithZero
<1>5. x.node = neighbor => x.cv \notin Erased
  BY <1>2, <1>3, <1>4, NotErased
<1>6. QED
  BY <1>1, <1>5

\* What both ways of erasing the neighbor's worse costs keep.
LEMMA NeighborKeeps ==
    ASSUME Inv, FilterNeighbor \/ AddNeighbor,
           \A x \in Item : IsHeld(x) /\ ~ (x.node = neighbor /\ x.cv \in Erased) => IsHeld(x)'
    PROVE  /\ StartAndCurrHeld'
           /\ \A k \in DOMAIN solution_set' : IsHeld(solution_set[k])' 
<1>1. /\ pc = "neighbors" /\ MoreNeighbors
      /\ UNCHANGED <<problem, pc, curr, solution_set>>
  BY DEF FilterNeighbor, AddNeighbor
<1>2. Zero \notin Erased /\ (curr.node = neighbor => curr.cv \notin Erased)
  BY <1>1, StartAndCurrNotErased
<1>3. Initials' = Initials /\ Initials \subseteq Item /\ \A x \in Initials : x.cv = Zero
  BY <1>1, ZeroTyped, MOProblemAssumption DEF Initials, Item, IsProblem, Inv, TInv, TypeOK
<1>4. \A x \in Initials : IsHeld(x)'
  BY <1>2, <1>3 DEF Inv, PInv, StartAndCurrHeld
<1>5. IsHeld(curr)' /\ ~ goal(problem, curr.node)
  <2>1. PICK x \in Item : x = curr
    BY <1>1, NeighborFacts
  <2>2. IsHeld(x)'
    BY <1>1, <1>2, <2>1, NeighborFacts
  <2>3. QED
    BY <1>1, <2>1, <2>2, NeighborFacts
<1>6. StartAndCurrHeld'
  BY <1>1, <1>3, <1>4, <1>5 DEF StartAndCurrHeld
<1>7. ASSUME NEW k \in DOMAIN solution_set PROVE IsHeld(solution_set[k])'
  <2>1. PICK x \in Item : x = solution_set[k]
    BY <1>1, SolutionsNotErased
  <2>2. IsHeld(x) /\ ~ (x.node = neighbor /\ x.cv \in Erased)
    BY <1>1, <2>1, SolutionsNotErased DEF Inv, PInv, SolutionsRight
  <2>3. IsHeld(x)'
    BY <2>2
  <2>4. QED
    BY <1>1, <2>1, <2>3
<1>8. QED
  BY <1>1, <1>6, <1>7

\* A walk that is filtered leads to nothing that is not found.
LEMMA FilterNeighborPInv == Inv /\ FilterNeighbor => PInv'
<1> SUFFICES ASSUME Inv, FilterNeighbor PROVE PInv'
  OBVIOUS
<1>1. /\ pc = "neighbors" /\ MoreNeighbors /\ Filtered
      /\ open_set' = KeptOpen /\ i' = i + 1
      /\ UNCHANGED <<problem, pc, curr, solution_set>>
  BY DEF FilterNeighbor
<1>2. ParetoFront' = ParetoFront /\ ToGo' = ToGo /\ Found' = Found
  BY <1>1 DEF ParetoFront, ToGo, Found
<1>3. \A x \in Item : IsHeld(x)' <=> IsHeld(x) /\ ~ (x.node = neighbor /\ x.cv \in Erased)
  BY HeldAfterFilter
<1>4. ASSUME NEW f \in ParetoFront \ Found', NEW k \in Nat, Ahead(f, k)
      PROVE  Ahead(f, k)'
  <2>1. CASE OpenLeads(f, k)
    BY <1>1, <2>1, OpenLeadsKept
  <2>2. ASSUME NEW j \in DOMAIN neighborEdges(problem, curr.node), i <= j, EdgeLeads(f, k, j)
        PROVE  Ahead(f, k)'
    <3>1. CASE j # i
      BY <1>1, <2>2, <3>1, LaterEdges DEF Inv
    <3>2. CASE j = i
      <4>1. PICK d \in ToGo[neighbor] : Plus(tentative_g_score, d.cost) = f
        BY <1>1, <2>2, <3>2, EdgeLooked
      <4>2. PICK l \in DOMAIN solution_set : Leq(solution_set[l].cv, tentative_f_score)
        BY <1>1 DEF Filtered, dominates
      <4>3. PICK x \in Item : x = New
        BY <1>1, NeighborFacts
      <4>4. x.node = neighbor /\ x.cv = tentative_g_score /\ tentative_f_score = f_score(x)
        BY <1>1, <4>3, NeighborFacts
      <4>5. f_score(x) \in CostVector /\ Leq(f_score(x), f)
        BY <4>1, <4>4, ItemBelow DEF Inv
      <4>6. solution_set[l].cv \in ParetoFront /\ solution_set[l].cv \in Found
        BY DEF Inv, PInv, SolutionsRight, Found
      <4>7. solution_set[l].cv \in CostVector /\ f \in CostVector /\ problem \in Problems
        BY <4>6, FrontOfReference DEF Inv, TInv, TypeOK, ParetoFront
      <4>8. Leq(solution_set[l].cv, f)
        BY <4>2, <4>4, <4>5, <4>7, CostOrder
      <4>9. solution_set[l].cv = f
        BY <4>6, <4>7, <4>8, FrontOfReference DEF ParetoFront
      <4>10. QED
        BY <1>2, <4>6, <4>9
    <3>3. QED
      BY <3>1, <3>2
  <2>3. QED
    BY <1>4, <2>1, <2>2 DEF Ahead
<1>5. HeldSettled'
  BY <1>1, <1>2, <1>3, <1>4, StepSettles
<1>6. HeldAboveFront'
  BY <1>1, <1>3, StepStaysAbove
<1>7. StartAndCurrHeld' /\ \A k \in DOMAIN solution_set' : IsHeld(solution_set[k])'
  BY <1>3, NeighborKeeps
<1>8. open_set' \subseteq open_set
  BY <1>1 DEF KeptOpen
<1>9. SolutionsRight'
  BY <1>1, <1>2, <1>7, <1>8 DEF Inv, PInv, SolutionsRight
<1>10. OpenUnbeaten'
  BY <1>1, <1>8 DEF Inv, PInv, OpenUnbeaten
<1>11. QED
  BY <1>1, <1>5, <1>6, <1>7, <1>9, <1>10 DEF Inv, PInv

\* A walk that is kept is open.
LEMMA AddNeighborPInv == Inv /\ AddNeighbor => PInv'
<1> SUFFICES ASSUME Inv, AddNeighbor PROVE PInv'
  OBVIOUS
<1>1. /\ pc = "neighbors" /\ MoreNeighbors /\ ~ Filtered
      /\ ~ DominatedAt(neighbor, tentative_g_score)
      /\ open_set' = KeptOpen \cup {New} /\ i' = i + 1
      /\ UNCHANGED <<problem, pc, curr, solution_set>>
  BY DEF AddNeighbor, New
<1>2. ParetoFront' = ParetoFront /\ ToGo' = ToGo /\ Found' = Found
  BY <1>1 DEF ParetoFront, ToGo, Found
<1>3. PICK w \in Item : w = New
  BY <1>1, NeighborFacts
<1>4. /\ w.node = neighbor /\ w.cv = tentative_g_score /\ tentative_f_score = f_score(w)
      /\ \A d \in ToGo[w.node] : AboveFront(Plus(w.cv, d.cost))
  BY <1>1, <1>3, NeighborFacts
<1>5. open_set' = KeptOpen \cup {w}
  BY <1>1, <1>3
<1>6. \A x \in Item :
         /\ x = w => IsHeld(x)'
         /\ x # w => (IsHeld(x)' <=> IsHeld(x) /\ ~ (x.node = neighbor /\ x.cv \in Erased))
  BY <1>3, HeldAfterAdd
<1>7. ASSUME NEW f \in ParetoFront \ Found', NEW k \in Nat, Ahead(f, k)
      PROVE  Ahead(f, k)'
  <2>1. CASE OpenLeads(f, k)
    BY <1>1, <2>1, OpenLeadsKept
  <2>2. ASSUME NEW j \in DOMAIN neighborEdges(problem, curr.node), i <= j, EdgeLeads(f, k, j)
        PROVE  Ahead(f, k)'
    <3>1. CASE j # i
      BY <1>1, <2>2, <3>1, LaterEdges DEF Inv
    <3>2. CASE j = i
      <4>1. PICK d \in ToGo[neighbor] :
               Plus(tentative_g_score, d.cost) = f /\ d.hops < k
        BY <1>1, <2>2, <3>2, EdgeLooked
      <4>2. d.hops \in Nat
        BY <1>4, <4>1, ItemBelow DEF Inv
      <4>3. d.hops <= k
        BY <4>1, <4>2
      <4>4. d \in ToGo'[w.node] /\ Plus(w.cv, d.cost) = f /\ w \in open_set'
        BY <1>2, <1>4, <1>5, <4>1
      <4>5. QED
        BY <4>3, <4>4 DEF Ahead, OpenLeads
    <3>3. QED
      BY <3>1, <3>2
  <2>3. QED
    BY <1>7, <2>1, <2>2 DEF Ahead
<1>8. HeldSettled'
  BY <1>1, <1>2, <1>5, <1>6, <1>7, StepSettles
<1>9. HeldAboveFront'
  BY <1>1, <1>4, <1>6, StepStaysAbove
<1>10. StartAndCurrHeld' /\ \A k \in DOMAIN solution_set' : IsHeld(solution_set[k])'
  BY <1>6, NeighborKeeps
<1>11. ASSUME NEW k \in DOMAIN solution_set
       PROVE  solution_set[k] \notin open_set'
  <2>1. /\ IsHeld(solution_set[k]) /\ solution_set[k] \notin open_set
        /\ solution_set[k] \in Item
    BY DEF Inv, PInv, SolutionsRight, TInv, TypeOK
  <2>2. solution_set[k] # w
    <3> SUFFICES ASSUME solution_set[k] = w PROVE FALSE
      OBVIOUS
    <3>1. tentative_g_score \in Costs(neighbor) /\ tentative_g_score \in CostVector
      BY <1>4, <2>1 DEF IsHeld, Item
    <3>2. dominates(tentative_g_score, tentative_g_score) # "DoesNotDominate"
      BY <3>1, CostOrder DEF dominates
    <3>3. QED
      BY <1>1, <3>1, <3>2 DEF DominatedAt
  <2>3. QED
    BY <1>5, <2>1, <2>2 DEF KeptOpen
<1>12. SolutionsRight'
  BY <1>1, <1>2, <1>10, <1>11 DEF Inv, PInv, SolutionsRight
<1>13. OpenUnbeaten'
  <2> SUFFICES ASSUME NEW o \in open_set', NEW k \in DOMAIN solution_set
               PROVE  ~ Dominates(solution_set[k].cv, o.cv)
    BY <1>1 DEF OpenUnbeaten
  <2>1. CASE o \in open_set
    BY <2>1 DEF Inv, PInv, OpenUnbeaten
  <2>2. CASE o = w
    <3> SUFFICES ASSUME Leq(solution_set[k].cv, w.cv) PROVE FALSE
      BY <2>2 DEF Dominates, dominates
    <3>1. solution_set[k].cv \in CostVector /\ w.cv \in CostVector
      <4>1. solution_set[k] \in Item
        BY <1>1, SolutionsNotErased
      <4>2. QED
        BY <4>1, ItemParts
    <3>2. f_score(w) \in CostVector /\ Leq(w.cv, f_score(w))
      <4>1. hScore(problem, w.node) \in CostVector
        BY ReferenceTyped DEF Inv, TInv, TypeOK, Item
      <4>2. QED
        BY <3>1, <4>1, CostOrder, PlusTyped DEF f_score
    <3>3. Leq(solution_set[k].cv, f_score(w))
      BY <3>1, <3>2, CostOrder
    <3>4. QED
      BY <1>1, <1>4, <3>3 DEF Filtered, dominates
  <2>3. QED
    BY <1>5, <2>1, <2>2 DEF KeptOpen
<1>14. QED
  BY <1>1, <1>8, <1>9, <1>10, <1>12, <1>13 DEF Inv, PInv

\* The other steps erase and add nothing.
LEMMA OtherPInv ==
    ASSUME Inv,
           \/ SkipKnown \/ EndNeighbors \/ Fail \/ StartExtraction \/ RecordSolution
           \/ PassGoal \/ ReadPastGraph \/ FollowConnections \/ Package \/ UNCHANGED vars
    PROVE  PInv'
<1>1. UNCHANGED <<problem, cost_map, open_set, solution_set, curr>>
  BY DEF SkipKnown, EndNeighbors, Fail, StartExtraction, RecordSolution, PassGoal,
         ReadPastGraph, FollowConnections, Package, vars, searching
<1>2. pc' = "neighbors" => pc = "neighbors"
  BY DEF SkipKnown, EndNeighbors, Fail, StartExtraction, RecordSolution, PassGoal,
         ReadPastGraph, FollowConnections, Package, vars
<1>3. ParetoFront' = ParetoFront /\ ToGo' = ToGo /\ Found' = Found /\ Initials' = Initials
      /\ \A x : IsHeld(x)' <=> IsHeld(x)
  BY <1>1 DEF ParetoFront, ToGo, Found, Initials, IsHeld, Costs
<1>4. ASSUME NEW f \in ParetoFront \ Found', NEW k \in Nat, Ahead(f, k)
      PROVE  Ahead(f, k)'
  <2>1. CASE SkipKnown
    BY <1>3, <1>4, <2>1, SkipKnownAhead
  <2>2. CASE EndNeighbors
    <3>1. pc = "neighbors" /\ ~ MoreNeighbors
      BY <2>2 DEF EndNeighbors
    <3>2. \A j \in DOMAIN neighborEdges(problem, curr.node) : ~ (i <= j)
      <4>1. neighborEdges(problem, curr.node) \in Seq(Edge) /\ i \in Nat \ {0}
        BY EdgeTyped DEF Inv, TInv, TypeOK, Item
      <4>2. QED
        BY <3>1, <4>1 DEF MoreNeighbors
    <3>3. OpenLeads(f, k)
      BY <1>4, <3>2 DEF Ahead
    <3>4. OpenLeads(f, k)'
      BY <1>1, <1>3, <3>3 DEF OpenLeads
    <3>5. QED
      BY <3>4 DEF Ahead
  <2>3. CASE ~ SkipKnown /\ ~ EndNeighbors
    <3>1. CASE pc = "neighbors"
      <4>1. UNCHANGED vars
        BY <2>3, <3>1 DEF Fail, StartExtraction, RecordSolution, PassGoal,
                          ReadPastGraph, FollowConnections, Package
      <4>2. QED
        BY <1>1, <1>4, <4>1 DEF vars, Ahead, OpenLeads, EdgeLeads, ToGo
    <3>2. CASE pc # "neighbors"
      <4>1. OpenLeads(f, k)
        BY <1>4, <3>2 DEF Ahead
      <4>2. OpenLeads(f, k)'
        BY <1>1, <1>3, <4>1 DEF OpenLeads
      <4>3. QED
        BY <4>2 DEF Ahead
    <3>3. QED
      BY <3>1, <3>2
  <2>4. QED
    BY <2>1, <2>2, <2>3
<1>5. HeldSettled'
  BY <1>1, <1>3, <1>4, StepSettles
<1>6. HeldAboveFront'
  BY <1>1, <1>3, StepStaysAbove
<1>7. StartAndCurrHeld'
  BY <1>1, <1>2, <1>3 DEF Inv, PInv, StartAndCurrHeld, IsHeld, Costs
<1>8. SolutionsRight' /\ OpenUnbeaten'
  BY <1>1, <1>3 DEF Inv, PInv, SolutionsRight, OpenUnbeaten, IsHeld, Costs
<1>9. QED
  BY <1>1, <1>5, <1>6, <1>7, <1>8 DEF Inv, PInv

LEMMA NextInv == Inv /\ [Next]_vars => Inv'
<1> SUFFICES ASSUME Inv, [Next]_vars PROVE Inv'
  OBVIOUS
<1>1. TInv'
  BY PopTInv, OtherTInv, NeighborTInv, StartTInv, RecordTInv, PassTInv, FollowTInv, PackageTInv
     DEF Next, Inv
<1>2. IInv'
  BY NextIInv DEF Inv
<1>3. PInv'
  BY PopGoalPInv, PopExpandPInv, FilterNeighborPInv, AddNeighborPInv, OtherPInv DEF Next
<1>4. QED
  BY <1>1, <1>2, <1>3 DEF Inv

LEMMA InitInv == Init /\ Additive(problem) => Inv
BY InitTInv, InitIInv, InitPInv DEF Inv

-----------------------------------------------------------------------------
(***************************************************************************)
(* The search graph holds a way to every item that matters.  It has no     *)
(* parent pointers, so a way is spoken of by the sets that are closed      *)
(* backwards: one that holds the item holds an item the search started     *)
(* from.                                                                   *)
(***************************************************************************)

\* A connection that the extraction may follow from one item to the other.
Connects(x, y) ==
    \E e \in Range(search_graph[x.node]) :
        e.edge.to = y.node /\ e.cv = y.cv /\ Leq(x.cv, y.cv)

BackClosed(T) == \A x, y \in Matters : Connects(x, y) /\ y \in T => x \in T

ChainsReachHeld ==
    \A y \in Matters : IsHeld(y) =>
        \A T \in SUBSET Item : y \in T /\ BackClosed(T) => \E x \in Initials : x \in T

\* Goals are not expanded.
GoalsAreEnds == \A n \in Nodes : goal(problem, n) => Range(search_graph[n]) = {}

\* Until the extraction starts nothing is reported.
NothingReported ==
    pc \in {"loop", "neighbors"} =>
        /\ result.pf = <<>> /\ result.node_paths = <<>> /\ result.edge_paths = <<>>
        /\ unfound = <<>>
        /\ ~ result.success => solution_set = <<>>

CInv == ChainsReachHeld /\ GoalsAreEnds /\ NothingReported

-----------------------------------------------------------------------------
LEMMA InitCInv == Init => CInv
<1> SUFFICES ASSUME Init PROVE CInv
  OBVIOUS
<1>1. cost_map = [n \in problem.initialNodes |-> [c \in {Zero} |-> TRUE]]
  BY DEF Init
<1>2. ASSUME NEW y \in Item, IsHeld(y) PROVE y \in Initials
  <2>1. y.node \in problem.initialNodes /\ y.cv = Zero
    BY <1>1, <1>2 DEF IsHeld, Costs
  <2>2. QED
    BY <2>1, ItemParts DEF Initials
<1>3. ChainsReachHeld
  BY <1>2 DEF ChainsReachHeld, Matters
<1>4. GoalsAreEnds
  BY DEF Init, GoalsAreEnds, Range
<1>5. NothingReported
  BY DEF Init, NothingReported, NoResult
<1>6. QED
  BY <1>3, <1>4, <1>5 DEF CInv

\* The item that is expanded matters if the walk along its edge does.
LEMMA CurrMatters ==
    ASSUME Inv, pc = "neighbors", MoreNeighbors, New \in Matters
    PROVE  curr \in Matters
<1> DEFINE cost == ToNeighbor.cost
<1>1. PICK w \in Item : w = New
  BY NeighborFacts
<1>2. /\ problem \in Problems /\ curr \in Item /\ curr.node \in Nodes /\ curr.cv \in CostVector
      /\ i \in DOMAIN neighborEdges(problem, curr.node)
      /\ w.node = neighbor /\ w.cv = Plus(curr.cv, cost) /\ cost \in CostVector
      /\ neighbor = neighborEdges(problem, curr.node)[i].to
      /\ ToNeighbor = neighborEdges(problem, curr.node)[i]
  BY <1>1, NeighborFacts DEF Item, ToNeighbor
<1>3. PICK f \in ParetoFront : LeadsTo(w, f)
  BY <1>1 DEF Matters
<1>4. PICK d \in ToGo[neighbor] : Plus(Plus(curr.cv, cost), d.cost) = f
  BY <1>2, <1>3 DEF LeadsTo
<1>5. PICK c \in ToGo[curr.node] : Leq(c.cost, Plus(cost, d.cost))
  BY <1>2, <1>4, ReferenceOfEdge DEF ToGo
<1>6. neighbor \in Nodes
  BY <1>2, ReferenceOfEdge
<1>7. c.cost \in CostVector /\ d.cost \in CostVector
  BY <1>2, <1>4, <1>5, <1>6, ReferenceTyped DEF ToGo
<1> HIDE DEF cost
<1>8. Plus(cost, d.cost) \in CostVector /\ Plus(curr.cv, c.cost) \in CostVector
  BY <1>2, <1>7, PlusTyped
<1>9. Leq(Plus(curr.cv, c.cost), Plus(curr.cv, Plus(cost, d.cost)))
  BY <1>2, <1>5, <1>7, <1>8, SumMonotone
<1>10. Plus(curr.cv, Plus(cost, d.cost)) = f
  BY <1>2, <1>4, <1>7, SumOrder
<1>11. AboveFront(Plus(curr.cv, c.cost))
  BY <1>2, NeighborFacts DEF Inv, PInv, HeldAboveFront
<1>12. Plus(curr.cv, c.cost) = f
  BY <1>2, <1>8, <1>9, <1>10, <1>11, FrontIsLeast DEF AboveFront, ParetoFront
<1>13. QED
  BY <1>2, <1>12 DEF Matters, LeadsTo

\* Erasing keeps the connections to items that matter.
LEMMA ConnectsKept ==
    ASSUME Inv, pc = "neighbors", MoreNeighbors,
           \A n \in Nodes : Range(KeptGraph[n]) \subseteq Range(search_graph'[n]),
           NEW x \in Matters, NEW y \in Matters, Connects(x, y)
    PROVE  Connects(x, y)'
<1>1. PICK e \in Range(search_graph[x.node]) :
         e.edge.to = y.node /\ e.cv = y.cv /\ Leq(x.cv, y.cv)
  BY DEF Connects
<1>2. x.node \in Nodes /\ y \in Item
  BY DEF Matters, Item
<1>3. ~ (y.node = neighbor /\ y.cv \in Erased)
  <2>1. PICK f \in ParetoFront : LeadsTo(y, f)
    BY DEF Matters
  <2>2. PICK d \in ToGo[y.node] : Plus(y.cv, d.cost) = f
    BY <2>1 DEF LeadsTo
  <2>3. QED
    BY <1>2, <2>2, NotErased
<1>4. e \in Range(KeptGraph[x.node])
  BY <1>1, <1>2, <1>3, KeptGraphTyped DEF Inv, TInv
<1>5. QED
  BY <1>1, <1>2, <1>4 DEF Connects

LEMMA NeighborCInv == Inv /\ CInv /\ (FilterNeighbor \/ AddNeighbor) => CInv'
<1> SUFFICES ASSUME Inv, CInv, FilterNeighbor \/ AddNeighbor PROVE CInv'
  OBVIOUS
<1>1. /\ pc = "neighbors" /\ MoreNeighbors
      /\ UNCHANGED <<problem, pc, solution_set, curr, unfound, result>>
  BY DEF FilterNeighbor, AddNeighbor, extracting
<1>2. /\ curr.node \in Nodes /\ ~ goal(problem, curr.node) /\ curr \in Item /\ IsHeld(curr)
      /\ Leq(curr.cv, tentative_g_score)
  BY <1>1, NeighborFacts DEF Item
<1>3. /\ FilterNeighbor => search_graph' = KeptGraph
      /\ AddNeighbor => search_graph' = Connected
  BY DEF FilterNeighbor, AddNeighbor
<1>4. /\ \A n \in Nodes : Range(KeptGraph[n]) \subseteq Range(search_graph[n])
      /\ Range(Connected[curr.node]) = Range(KeptGraph[curr.node]) \cup {NewConnection}
      /\ \A n \in Nodes \ {curr.node} : Connected[n] = KeptGraph[n]
  BY <1>1, KeptGraphTyped, ConnectedTyped DEF Inv, TInv
<1>5. \A n \in Nodes : Range(KeptGraph[n]) \subseteq Range(search_graph'[n])
  <2>1. CASE FilterNeighbor
    BY <1>3, <2>1
  <2>2. CASE AddNeighbor
    <3> SUFFICES ASSUME NEW n \in Nodes
                 PROVE  Range(KeptGraph[n]) \subseteq Range(Connected[n])
      BY <1>3, <2>2
    <3>1. CASE n = curr.node
      BY <1>4, <3>1
    <3>2. CASE n # curr.node
      BY <1>4, <3>2
    <3>3. QED
      BY <3>1, <3>2
  <2>3. QED
    BY <2>1, <2>2
<1>6. Matters' = Matters /\ Initials' = Initials
  BY <1>1 DEF Matters, LeadsTo, ToGo, ParetoFront, Initials
<1>7. ASSUME NEW T, BackClosed(T)' PROVE BackClosed(T)
  <2> SUFFICES ASSUME NEW x \in Matters, NEW y \in Matters, Connects(x, y), y \in T
               PROVE  x \in T
    BY DEF BackClosed
  <2>1. Connects(x, y)'
    BY <1>1, <1>5, ConnectsKept
  <2>2. QED
    BY <1>6, <1>7, <2>1 DEF BackClosed
<1>8. ASSUME NEW y \in Matters, IsHeld(y)', NEW T \in SUBSET Item, y \in T, BackClosed(T)'
      PROVE  \E x \in Initials : x \in T
  <2>1. BackClosed(T) /\ y \in Item
    BY <1>7, <1>8 DEF Matters
  <2>2. CASE IsHeld(y)
    BY <1>8, <2>1, <2>2 DEF CInv, ChainsReachHeld
  <2>3. CASE ~ IsHeld(y)
    <3>1. AddNeighbor /\ y = New
      BY <1>8, <2>1, <2>3, HeldAfterFilter, HeldAfterAdd
    <3>2. curr \in Matters
      BY <1>1, <1>8, <3>1, CurrMatters
    <3>3. y.node = neighbor /\ y.cv = tentative_g_score
      BY <1>1, <3>1, NeighborFacts
    <3>4. NewConnection \in Range(search_graph'[curr.node])
      BY <1>3, <1>4, <3>1
    <3>5. NewConnection.edge.to = y.node /\ NewConnection.cv = y.cv /\ Leq(curr.cv, y.cv)
      BY <1>2, <3>3 DEF NewConnection, neighbor
    <3>6. \E z \in Matters : z = curr /\ Connects(z, y)'
      <4>1. PICK z \in Matters : z = curr
        BY <3>2
      <4>2. Connects(z, y)'
        BY <3>4, <3>5, <4>1 DEF Connects
      <4>3. QED
        BY <4>1, <4>2
    <3>7. curr \in T
      BY <1>6, <1>8, <3>6 DEF BackClosed
    <3>8. QED
      BY <1>2, <2>1, <3>2, <3>7 DEF CInv, ChainsReachHeld
  <2>4. QED
    BY <2>2, <2>3
<1>9. ChainsReachHeld'
  BY <1>6, <1>8 DEF ChainsReachHeld
<1>10. GoalsAreEnds'
  <2> SUFFICES ASSUME NEW n \in Nodes, goal(problem, n) PROVE Range(search_graph'[n]) = {}
    BY <1>1 DEF GoalsAreEnds
  <2>1. Range(KeptGraph[n]) = {} /\ n # curr.node
    BY <1>2, <1>4 DEF CInv, GoalsAreEnds
  <2>2. search_graph'[n] = KeptGraph[n]
    BY <1>3, <1>4, <2>1
  <2>3. QED
    BY <2>1, <2>2
<1>11. NothingReported'
  BY <1>1 DEF CInv, NothingReported
<1>12. QED
  BY <1>9, <1>10, <1>11 DEF CInv

\* Popping changes what is held and connected as little as the other steps do.
LEMMA OtherCInv ==
    ASSUME Inv, CInv,
           \/ PopGoal \/ PopExpand
           \/ SkipKnown \/ EndNeighbors \/ Fail \/ StartExtraction \/ RecordSolution
           \/ PassGoal \/ ReadPastGraph \/ FollowConnections \/ Package \/ UNCHANGED vars
    PROVE  CInv'
<1>1. UNCHANGED <<problem, search_graph>>
  BY DEF PopGoal, PopExpand, SkipKnown, EndNeighbors, Fail, StartExtraction, RecordSolution,
         PassGoal, ReadPastGraph, FollowConnections, Package, vars, searching
<1>2. \A x : IsHeld(x)' <=> IsHeld(x)
  <2>1. CASE PopGoal \/ PopExpand
    <3>1. PICK e \in open_set : cost_map' = moveToClosed(e)
      BY <2>1 DEF PopGoal, PopExpand
    <3>2. QED
      BY <3>1, HeldAfterPop
  <2>2. CASE ~ (PopGoal \/ PopExpand)
    <3>1. cost_map' = cost_map
      BY <2>2 DEF SkipKnown, EndNeighbors, Fail, StartExtraction, RecordSolution,
                  PassGoal, ReadPastGraph, FollowConnections, Package, vars, searching
    <3>2. QED
      BY <3>1 DEF IsHeld, Costs
  <2>3. QED
    BY <2>1, <2>2
<1>3. /\ Matters' = Matters /\ Initials' = Initials
      /\ \A T : BackClosed(T)' <=> BackClosed(T)
  BY <1>1 DEF Matters, LeadsTo, ToGo, ParetoFront, Initials, BackClosed, Connects
<1>4. ChainsReachHeld'
  BY <1>2, <1>3 DEF CInv, ChainsReachHeld
<1>5. GoalsAreEnds'
  BY <1>1 DEF CInv, GoalsAreEnds
<1>6. NothingReported'
  <2>1. CASE PopGoal
    <3>1. UNCHANGED <<pc, unfound>> /\ result' = [result EXCEPT !.success = TRUE]
      BY <2>1 DEF PopGoal, extracting
    <3>2. result \in Result
      BY DEF Inv, TInv, TypeOK
    <3>3. QED
      BY <3>1, <3>2 DEF CInv, NothingReported, Result
  <2>2. CASE PopExpand \/ SkipKnown \/ EndNeighbors \/ UNCHANGED vars
    BY <2>2 DEF PopExpand, SkipKnown, EndNeighbors, vars, searching, extracting, CInv,
                NothingReported
  <2>3. CASE Fail \/ StartExtraction \/ RecordSolution \/ PassGoal
             \/ ReadPastGraph \/ FollowConnections \/ Package
    <3>1. pc' \notin {"loop", "neighbors"}
      BY <2>3 DEF Fail, StartExtraction, RecordSolution, PassGoal, ReadPastGraph,
                     FollowConnections, Package
    <3>2. QED
      BY <3>1 DEF NothingReported
  <2>4. QED
    BY <2>1, <2>2, <2>3
<1>7. QED
  BY <1>4, <1>5, <1>6 DEF CInv

LEMMA NextCInv == Inv /\ CInv /\ [Next]_vars => CInv'
BY NeighborCInv, OtherCInv DEF Next

-----------------------------------------------------------------------------
(***************************************************************************)
(* The extraction.  Each solution without a path is given an item of a     *)
(* solution of its cost, different ones to different solutions, that the   *)
(* stack still has a way to.                                               *)
(***************************************************************************)

\* The item at the end of a path.
TopItem(p) == [node |-> Last(p.node_path), cv |-> p.cost]

\* Whatever is closed backwards and holds the item holds the end of a path.
Reached(y) ==
    \A T \in SUBSET Item : y \in T /\ BackClosed(T) =>
        \E k \in DOMAIN stack : TopItem(stack[k]) \in T

Assignment(A) ==
    /\ A \in [DOMAIN unfound -> Range(solution_set)]
    /\ \A u, v \in DOMAIN unfound : A[u] = A[v] => u = v
    /\ \A u \in DOMAIN unfound : A[u].cv = unfound[u].cv /\ Reached(A[u])

\* The solutions have a path or have not.
Accounted ==
    /\ Len(result.pf) + Len(unfound) = Len(solution_set)
    /\ Len(result.node_paths) = Len(result.pf)
    /\ Len(result.edge_paths) = Len(result.pf)
    /\ Range(result.pf) \subseteq Found
    /\ \A s \in DOMAIN result.pf :
          IsSolution(problem, result.node_paths[s], result.edge_paths[s])
    /\ \A k \in DOMAIN solution_set :
          \/ solution_set[k].cv \in Range(result.pf)
          \/ \E u \in DOMAIN unfound : unfound[u].cv = solution_set[k].cv

EInv ==
    /\ pc = "extract" => /\ ParetoFront \subseteq Found
                         /\ \E A : Assignment(A)
                         /\ Accounted
    /\ EverySolutionHasAPath

-----------------------------------------------------------------------------
\* When nothing is open any more the front is found.
LEMMA FrontFoundAtEnd ==
    ASSUME Inv, pc = "loop", open_set = {}
    PROVE  ParetoFront = Found
<1> SUFFICES ASSUME NEW f \in ParetoFront, f \notin Found PROVE FALSE
  BY DEF Inv, PInv, SolutionsRight
<1>1. problem \in Problems /\ f \in CostVector
  BY FrontOfReference DEF Inv, TInv, TypeOK, ParetoFront
<1>2. PICK n \in problem.initialNodes : \E d \in ToGo[n] : d.cost = f
  BY <1>1, FrontOfReference DEF ParetoFront, ToGo
<1>3. PICK d \in ToGo[n] : d.cost = f
  BY <1>2
<1> DEFINE x == [node |-> n, cv |-> Zero]
<1>4. x \in Initials /\ x \in Item /\ x.node = n /\ x.cv = Zero
  BY <1>1, ZeroTyped, MOProblemAssumption DEF Initials, Item, IsProblem
<1>5. IsHeld(x)
  BY <1>4 DEF Inv, PInv, StartAndCurrHeld
<1> HIDE DEF x
<1>6. Plus(x.cv, d.cost) = f
  BY <1>1, <1>3, <1>4, SumWithZero
<1>7. Ahead(f, d.hops)
  BY <1>3, <1>4, <1>5, <1>6 DEF Inv, PInv, HeldSettled
<1>8. QED
  BY <1>7 DEF Ahead, OpenLeads

\* What a solution is.
LEMMA SolutionMatters ==
    ASSUME Inv, NEW k \in DOMAIN solution_set
    PROVE  /\ solution_set[k] \in Item /\ solution_set[k] \in Matters
           /\ IsHeld(solution_set[k]) /\ goal(problem, solution_set[k].node)
           /\ solution_set[k].cv \in ParetoFront
<1>1. PICK x \in Item : x = solution_set[k]
  BY DEF Inv, TInv, TypeOK
<1>2. problem \in Problems /\ x.cv \in ParetoFront /\ goal(problem, x.node)
      /\ x.node \in Nodes /\ x.cv \in CostVector /\ IsHeld(solution_set[k])
  BY <1>1 DEF Inv, TInv, TypeOK, PInv, SolutionsRight, Found, Item
<1>3. PICK d \in ToGo[x.node] : d.cost = Zero
  BY <1>2, MOProblemAssumption DEF IsParetoToGo, ToGo, goal
<1>4. Plus(x.cv, d.cost) = x.cv
  BY <1>2, <1>3, SumWithZero
<1>5. x \in Matters
  BY <1>2, <1>4 DEF Matters, LeadsTo
<1>6. QED
  BY <1>1, <1>2, <1>5

\* The extraction changes neither the problem nor the search graph.
LEMMA SameClosed ==
    ASSUME UNCHANGED <<problem, search_graph>>
    PROVE  Matters' = Matters /\ \A T : BackClosed(T)' <=> BackClosed(T)
BY DEF Matters, LeadsTo, ToGo, ParetoFront, BackClosed, Connects

\* A path of one node ends there.
LEMMA LastOfOne ==
    ASSUME NEW n
    PROVE  Last(<<n>>) = n
<1>1. Len(<<n>>) = 1 /\ <<n>>[1] = n
  OBVIOUS
<1>2. QED
  BY <1>1 DEF Last

\* The extraction starts from all the nodes the search started from, and so it
\* has a way to every solution.
LEMMA StartEInv == Inv /\ CInv /\ StartExtraction => EInv'
<1> SUFFICES ASSUME Inv, CInv, StartExtraction PROVE EInv'
  OBVIOUS
<1> DEFINE init == SetToSeq(problem.initialNodes)
<1>1. /\ UNCHANGED <<problem, search_graph, solution_set, result>>
      /\ pc = "loop" /\ open_set = {} /\ pc' = "extract" /\ unfound' = solution_set
      /\ stack' = [k \in DOMAIN init |->
                     [node_path |-> <<init[k]>>, edge_path |-> <<>>, cost |-> Zero]]
  BY DEF StartExtraction, searching
<1>2. ParetoFront' = Found'
  BY <1>1, FrontFoundAtEnd DEF ParetoFront, Found
<1>3. problem \in Problems /\ Range(init) = problem.initialNodes
  BY AllInitialNodesNumbered DEF Inv, TInv, TypeOK
<1>4. ASSUME NEW x \in Initials PROVE \E k \in DOMAIN stack' : TopItem(stack'[k]) = x
  <2>1. PICK n \in problem.initialNodes : x = [node |-> n, cv |-> Zero]
    BY DEF Initials
  <2>2. PICK k \in DOMAIN init : init[k] = n
    BY <1>3 DEF Range
  <2> HIDE DEF init
  <2>3. k \in DOMAIN stack' /\ stack'[k].node_path = <<n>> /\ stack'[k].cost = Zero
    BY <1>1, <2>2
  <2>4. TopItem(stack'[k]) = x
    BY <2>1, <2>3, LastOfOne DEF TopItem
  <2>5. QED
    BY <2>3, <2>4
<1>5. ASSUME NEW k \in DOMAIN solution_set PROVE Reached(solution_set[k])'
  <2>1. PICK y \in Matters : y = solution_set[k]
    BY SolutionMatters
  <2>2. IsHeld(y)
    BY <2>1, SolutionMatters
  <2>3. Reached(y)'
    <3> SUFFICES ASSUME NEW T \in SUBSET Item, y \in T, BackClosed(T)'
                 PROVE  \E l \in DOMAIN stack' : TopItem(stack'[l]) \in T
      BY DEF Reached
    <3>1. BackClosed(T)
      BY <1>1, SameClosed
    <3>2. PICK x \in Initials : x \in T
      BY <2>2, <3>1 DEF CInv, ChainsReachHeld
    <3>3. QED
      BY <1>4, <3>2
  <2>4. QED
    BY <1>1, <2>1, <2>3
<1>6. \E A : Assignment(A)'
  <2>1. PICK A : A = [k \in DOMAIN solution_set |-> solution_set[k]]
    OBVIOUS
  <2>2. A \in [DOMAIN unfound' -> Range(solution_set')]
    BY <1>1, <2>1 DEF Range
  <2>3. ASSUME NEW u \in DOMAIN unfound', NEW v \in DOMAIN unfound', A[u] = A[v] PROVE u = v
    BY <1>1, <2>1, <2>3 DEF Inv, PInv, SolutionsRight
  <2>4. ASSUME NEW u \in DOMAIN unfound' PROVE A[u].cv = unfound'[u].cv /\ Reached(A[u])'
    <3>1. A[u] = solution_set[u] /\ u \in DOMAIN solution_set
      BY <1>1, <2>1
    <3>2. Reached(solution_set[u])'
      BY <1>5, <3>1
    <3>3. QED
      BY <1>1, <3>1, <3>2
  <2>5. Assignment(A)'
    BY <2>2, <2>3, <2>4 DEF Assignment
  <2>6. QED
    BY <2>5
<1>7. Accounted'
  <2>1. result'.pf = <<>> /\ result'.node_paths = <<>> /\ result'.edge_paths = <<>>
    BY <1>1 DEF CInv, NothingReported
  <2>2. solution_set \in Seq(Item)
    BY DEF Inv, TInv, TypeOK
  <2>3. Len(<<>>) = 0 /\ DOMAIN <<>> = {} /\ Range(<<>>) = {} /\ Len(solution_set) \in Nat
    BY <2>2 DEF Range
  <2>4. QED
    BY <1>1, <2>1, <2>3 DEF Accounted
<1>8. QED
  BY <1>1, <1>2, <1>6, <1>7 DEF EInv, EverySolutionHasAPath

\* The item at the end of the path that is popped.
LEMMA PoppedItem ==
    ASSUME Inv, stack # <<>>
    PROVE  \E z \in Item : /\ z = TopItem(stack[Len(stack)])
                           /\ z.node = curr_node /\ z.cv = curr_path.cost
                           /\ curr_node \in Nodes /\ Len(stack) \in DOMAIN stack
                           /\ DOMAIN Front(stack) = DOMAIN stack \ {Len(stack)}
                           /\ \A k \in DOMAIN Front(stack) : Front(stack)[k] = stack[k]
<1>1. /\ curr_path = stack[Len(stack)] /\ curr_path.cost \in CostVector /\ curr_node \in Nodes
      /\ Len(stack) \in DOMAIN stack
      /\ DOMAIN Front(stack) = DOMAIN stack \ {Len(stack)}
      /\ \A k \in DOMAIN Front(stack) : Front(stack)[k] = stack[k]
  BY PoppedTyped DEF Inv
<1>2. TopItem(curr_path) = [node |-> curr_node, cv |-> curr_path.cost]
  BY DEF TopItem, curr_node
<1>3. [node |-> curr_node, cv |-> curr_path.cost] \in Item
  BY <1>1 DEF Item
<1>4. QED
  BY <1>1, <1>2, <1>3

\* A path that ends at a goal leaves a way to everything else.
LEMMA PopReached ==
    ASSUME Inv, CInv, stack # <<>>, goal(problem, curr_node), stack' = Front(stack),
           UNCHANGED <<problem, search_graph>>,
           NEW y \in Item, y # TopItem(stack[Len(stack)]), Reached(y)
    PROVE  Reached(y)'
<1>1. PICK z \in Item : /\ z = TopItem(stack[Len(stack)]) /\ z.node = curr_node
                        /\ curr_node \in Nodes
                        /\ DOMAIN Front(stack) = DOMAIN stack \ {Len(stack)}
                        /\ \A k \in DOMAIN Front(stack) : Front(stack)[k] = stack[k]
  BY PoppedItem
<1> SUFFICES ASSUME NEW T \in SUBSET Item, y \in T, BackClosed(T)'
             PROVE  \E k \in DOMAIN stack' : TopItem(stack'[k]) \in T
  BY DEF Reached
<1>2. BackClosed(T)
  BY SameClosed
<1>3. Range(search_graph[z.node]) = {}
  BY <1>1 DEF CInv, GoalsAreEnds
<1>4. BackClosed(T \ {z})
  BY <1>2, <1>3 DEF BackClosed, Connects
<1>5. y \in T \ {z} /\ T \ {z} \in SUBSET Item
  BY <1>1
<1>6. PICK k \in DOMAIN stack : TopItem(stack[k]) \in T \ {z}
  BY <1>4, <1>5 DEF Reached
<1>7. k # Len(stack)
  BY <1>1, <1>6
<1>8. QED
  BY <1>1, <1>6, <1>7

\* The extraction follows a connection to an item that matters.
LEMMA WorthToFollow ==
    ASSUME Inv, stack # <<>>, NEW y \in Matters, NEW e, e.cv = y.cv, Leq(curr_path.cost, y.cv)
    PROVE  Worth(e)
<1> SUFFICES ASSUME NEW k \in DOMAIN solution_set, Dominates(solution_set[k].cv, y.cv)
             PROVE  FALSE
  BY DEF Worth
<1> DEFINE s == solution_set[k].cv
<1>1. PICK f \in ParetoFront : LeadsTo(y, f)
  BY DEF Matters
<1>2. PICK d \in ToGo[y.node] : Plus(y.cv, d.cost) = f
  BY <1>1 DEF LeadsTo
<1>3. y \in Item /\ y.cv \in CostVector
  BY DEF Matters, Item
<1>4. Leq(y.cv, f)
  BY <1>2, <1>3, ItemBelow DEF Inv
<1>5. s \in ParetoFront
  BY SolutionMatters
<1>6. s \in CostVector /\ f \in CostVector /\ problem \in Problems
  BY <1>5, FrontOfReference DEF Inv, TInv, TypeOK, ParetoFront
<1>7. Leq(s, y.cv) /\ s # y.cv
  BY DEF Dominates, dominates
<1> HIDE DEF s
<1>8. Leq(s, f)
  BY <1>3, <1>4, <1>6, <1>7, CostOrder
<1>9. s = f
  BY <1>5, <1>6, <1>8, FrontOfReference DEF ParetoFront
<1>10. QED
  BY <1>3, <1>4, <1>6, <1>7, <1>9, CostOrder

\* A path that is made longer leaves a way to the goals.
LEMMA FollowReached ==
    ASSUME Inv, FollowConnections, NEW y \in Item, goal(problem, y.node), Reached(y)
    PROVE  Reached(y)'
<1>1. /\ stack # <<>> /\ ~ goal(problem, curr_node)
      /\ UNCHANGED <<problem, search_graph>>
  BY DEF FollowConnections, MoreStack, searching
<1>2. PICK z \in Item : /\ z = TopItem(stack[Len(stack)])
                        /\ z.node = curr_node /\ z.cv = curr_path.cost
  BY <1>1, PoppedItem
<1> SUFFICES ASSUME NEW T \in SUBSET Item, y \in T, BackClosed(T)'
             PROVE  \E k \in DOMAIN stack' : TopItem(stack'[k]) \in T
  BY DEF Reached
<1>3. BackClosed(T)
  BY <1>1, SameClosed
<1>4. y \in T \ {z} /\ T \ {z} \in SUBSET Item
  BY <1>1, <1>2
<1>5. CASE BackClosed(T \ {z})
  <2>1. PICK k \in DOMAIN stack : TopItem(stack[k]) \in T \ {z}
    BY <1>4, <1>5 DEF Reached
  <2>2. k # Len(stack)
    BY <1>2, <2>1
  <2>3. k \in DOMAIN stack' /\ stack'[k] = stack[k]
    BY <2>1, <2>2, FollowedStack DEF Inv
  <2>4. QED
    BY <2>1, <2>3
<1>6. CASE ~ BackClosed(T \ {z})
  <2>1. PICK x \in Matters, v \in Matters :
           Connects(x, v) /\ v \in T \ {z} /\ x \notin T \ {z}
    BY <1>6 DEF BackClosed
  <2>2. x = z
    BY <1>3, <2>1 DEF BackClosed
  <2>3. PICK e \in Range(search_graph[curr_node]) :
           e.edge.to = v.node /\ e.cv = v.cv /\ Leq(curr_path.cost, v.cv)
    BY <1>2, <2>1, <2>2 DEF Connects
  <2>4. Worth(e)
    BY <1>1, <2>3, WorthToFollow
  <2>5. e \in Range(Followed)
    BY <1>1, <2>3, <2>4, FollowedTyped DEF Inv
  <2>6. PICK k \in DOMAIN stack' : stack'[k] = Longer(e)
    BY <2>5, FollowedStack DEF Inv
  <2>7. Last(Longer(e).node_path) = v.node /\ Longer(e).cost = v.cv
    <3>1. Last(Longer(e).node_path) = e.edge.to
      BY <1>1, <2>5, LongerIsWalk DEF Inv
    <3>2. QED
      BY <2>3, <3>1 DEF Longer
  <2>8. TopItem(stack'[k]) = v
    <3>1. v \in Item
      BY DEF Matters
    <3>2. QED
      BY <2>6, <2>7, <3>1, ItemParts DEF TopItem
  <2>9. QED
    BY <2>1, <2>6, <2>8
<1>7. QED
  BY <1>5, <1>6

-----------------------------------------------------------------------------
\* The recorded path is a solution.
LEMMA PoppedIsSolution ==
    ASSUME TInv, stack # <<>>, goal(problem, curr_node)
    PROVE  IsSolution(problem, curr_path.node_path, curr_path.edge_path)
BY PoppedTyped DEF IsSolution, curr_node

\* Recording a path for one solution leaves an assignment to the others: the one
\* that the path's item was given to, if any, takes over the item of the
\* solution that is found.
LEMMA RecordAssigns ==
    ASSUME Inv, CInv, RecordSolution, NEW A, Assignment(A)
    PROVE  \E B : Assignment(B)'
<1>1. /\ stack # <<>> /\ goal(problem, curr_node) /\ Matching # {}
      /\ stack' = Front(stack) /\ unfound' = RemoveAt(unfound, Min(Matching))
      /\ UNCHANGED <<problem, search_graph, solution_set>>
  BY DEF RecordSolution, MoreStack, searching
<1>2. PICK z \in Item : z = TopItem(stack[Len(stack)])
  BY <1>1, PoppedItem
<1>3. PICK m \in DOMAIN unfound : m = Min(Matching)
  BY <1>1, FirstMatching DEF Inv
<1>4. unfound \in Seq(Item)
  BY DEF Inv, TInv, TypeOK
<1>5. PICK len \in Nat : len = Len(unfound)
  BY <1>4
<1>6. /\ DOMAIN unfound' = 1 .. len - 1
      /\ \A k \in 1 .. len - 1 : unfound'[k] = IF k < m THEN unfound[k] ELSE unfound[k + 1]
  BY <1>1, <1>3, <1>4, <1>5, RemovedTyped
<1> DEFINE at(k) == IF k < m THEN k ELSE k + 1
<1>7. m \in 1 .. len /\ DOMAIN unfound = 1 .. len
  BY <1>4, <1>5
<1>8. \A k \in 1 .. len - 1 : at(k) \in 1 .. len /\ at(k) # m
  BY <1>7
<1>9. \A k, l \in 1 .. len - 1 : at(k) = at(l) => k = l
  BY <1>7
<1>10. \A k \in 1 .. len - 1 : unfound'[k] = unfound[at(k)]
  BY <1>6
<1> HIDE DEF at
<1>11. /\ A \in [1 .. len -> Range(solution_set)]
       /\ \A u, v \in 1 .. len : A[u] = A[v] => u = v
       /\ \A u \in 1 .. len : A[u].cv = unfound[u].cv /\ Reached(A[u])
  BY <1>7 DEF Assignment
<1>12. unfound[m].cv = z.cv
  BY <1>1, <1>2, <1>3, FirstMatching, PoppedItem DEF Inv
<1>13. PICK B : B = [k \in 1 .. len - 1 |-> IF A[at(k)] = z THEN A[m] ELSE A[at(k)]]
  OBVIOUS
<1>14. B \in [1 .. len - 1 -> Range(solution_set)]
  <2>1. \A k \in 1 .. len - 1 : A[at(k)] \in Range(solution_set) /\ A[m] \in Range(solution_set)
    BY <1>7, <1>8, <1>11
  <2>2. QED
    BY <1>13, <2>1
<1>15. ASSUME NEW k \in 1 .. len - 1, NEW l \in 1 .. len - 1, B[k] = B[l] PROVE k = l
  <2>1. /\ at(k) \in 1 .. len /\ at(l) \in 1 .. len /\ at(k) # m /\ at(l) # m
        /\ B[k] = IF A[at(k)] = z THEN A[m] ELSE A[at(k)]
        /\ B[l] = IF A[at(l)] = z THEN A[m] ELSE A[at(l)]
    BY <1>8, <1>13
  <2>2. A[at(k)] # A[m] /\ A[at(l)] # A[m]
    BY <1>7, <1>11, <2>1
  <2>3. A[at(k)] = A[at(l)]
    BY <1>15, <2>1, <2>2
  <2>4. at(k) = at(l)
    BY <1>11, <2>1, <2>3
  <2>5. QED
    BY <1>9, <2>4
<1>16. ASSUME NEW k \in 1 .. len - 1 PROVE B[k].cv = unfound'[k].cv /\ Reached(B[k])'
  <2>1. at(k) \in 1 .. len /\ at(k) # m /\ m \in 1 .. len
        /\ B[k] = IF A[at(k)] = z THEN A[m] ELSE A[at(k)]
    BY <1>7, <1>8, <1>13
  <2>2. A[at(k)] # A[m]
    BY <1>11, <2>1
  <2>3. B[k] # z
    BY <2>1, <2>2
  <2>4. A[at(k)].cv = unfound[at(k)].cv /\ A[m].cv = z.cv
    BY <1>11, <1>12, <2>1
  <2>5. B[k].cv = unfound'[k].cv
    BY <1>10, <2>1, <2>4
  <2>6. Reached(B[k])
    BY <1>11, <2>1
  <2>7. B[k] \in Item
    <3>1. B[k] \in Range(solution_set)
      BY <1>14
    <3>2. QED
      BY <3>1, SolutionMatters DEF Range
  <2>8. Reached(B[k])'
    BY <1>1, <1>2, <2>3, <2>6, <2>7, PopReached
  <2>9. QED
    BY <2>5, <2>8
<1>17. Assignment(B)'
  BY <1>1, <1>6, <1>14, <1>15, <1>16 DEF Assignment
<1>18. QED
  BY <1>17

LEMMA RecordAccounts ==
    ASSUME Inv, RecordSolution, Accounted, \E A : Assignment(A)
    PROVE  Accounted'
<1>1. /\ stack # <<>> /\ goal(problem, curr_node) /\ Matching # {}
      /\ result' = [result EXCEPT !.pf = Append(@, curr_path.cost),
                                  !.node_paths = Append(@, curr_path.node_path),
                                  !.edge_paths = Append(@, curr_path.edge_path)]
      /\ unfound' = RemoveAt(unfound, Min(Matching))
      /\ UNCHANGED <<problem, solution_set>>
  BY DEF RecordSolution, MoreStack, searching
<1>2. result \in Result /\ unfound \in Seq(Item) /\ solution_set \in Seq(Item)
  BY DEF Inv, TInv, TypeOK
<1>3. PICK pf, np, ep : pf = result.pf /\ np = result.node_paths /\ ep = result.edge_paths
  OBVIOUS
<1>4. pf \in Seq(CostVector) /\ np \in Seq(Seq(Nodes)) /\ ep \in Seq(Seq(Edge))
  BY <1>2, <1>3 DEF Result
<1>5. /\ result'.pf = Append(pf, curr_path.cost)
      /\ result'.node_paths = Append(np, curr_path.node_path)
      /\ result'.edge_paths = Append(ep, curr_path.edge_path)
  BY <1>1, <1>2, <1>3 DEF Result
<1>6. PICK m \in DOMAIN unfound : m = Min(Matching) /\ unfound[m].cv = curr_path.cost
  BY <1>1, FirstMatching DEF Inv
<1>7. PICK len \in Nat : len = Len(unfound)
  BY <1>2
<1>8. /\ unfound' \in Seq(Item) /\ Len(unfound') = len - 1
      /\ DOMAIN unfound' = 1 .. len - 1
      /\ \A k \in 1 .. len - 1 : unfound'[k] = IF k < m THEN unfound[k] ELSE unfound[k + 1]
  BY <1>1, <1>2, <1>6, <1>7, RemovedTyped
<1>9. m \in 1 .. len /\ DOMAIN unfound = 1 .. len
  BY <1>2, <1>7
<1>10. /\ curr_path.node_path \in Seq(Nodes) /\ curr_path.edge_path \in Seq(Edge)
       /\ curr_path.cost \in CostVector
  BY <1>1, PoppedTyped DEF Inv
<1>11. /\ Len(pf) + len = Len(solution_set) /\ Len(np) = Len(pf) /\ Len(ep) = Len(pf)
       /\ Len(pf) \in Nat
  BY <1>3, <1>4, <1>7 DEF Accounted
<1>12. /\ Len(result'.pf) = Len(pf) + 1 /\ Len(result'.node_paths) = Len(pf) + 1
       /\ Len(result'.edge_paths) = Len(pf) + 1
  BY <1>4, <1>5, <1>10, <1>11
<1>13. Range(result'.pf) = Range(pf) \cup {curr_path.cost}
  BY <1>4, <1>5, RangeOfAppend
<1>14. curr_path.cost \in Found
  <2>1. PICK A : Assignment(A)
    OBVIOUS
  <2>2. A[m] \in Range(solution_set) /\ A[m].cv = curr_path.cost
    BY <1>6, <2>1 DEF Assignment
  <2>3. QED
    BY <2>2 DEF Found, Range
<1>15. Range(result'.pf) \subseteq Found'
  BY <1>1, <1>3, <1>13, <1>14 DEF Accounted, Found
<1>16. ASSUME NEW s \in DOMAIN result'.pf
       PROVE  IsSolution(problem, result'.node_paths[s], result'.edge_paths[s])
  <2>1. /\ DOMAIN result'.pf = DOMAIN pf \cup {Len(pf) + 1}
        /\ DOMAIN np = DOMAIN pf /\ DOMAIN ep = DOMAIN pf
    BY <1>4, <1>5, <1>11
  <2>2. CASE s \in DOMAIN pf
    <3>1. result'.node_paths[s] = np[s] /\ result'.edge_paths[s] = ep[s]
      BY <1>4, <1>5, <2>1, <2>2
    <3>2. QED
      BY <1>3, <2>2, <3>1 DEF Accounted
  <2>3. CASE s = Len(pf) + 1
    <3>1. /\ result'.node_paths[s] = curr_path.node_path
          /\ result'.edge_paths[s] = curr_path.edge_path
      BY <1>4, <1>5, <1>11, <2>3
    <3>2. QED
      BY <1>1, <3>1, PoppedIsSolution DEF Inv
  <2>4. QED
    BY <2>1, <2>2, <2>3
<1>17. ASSUME NEW k \in DOMAIN solution_set, solution_set[k].cv \notin Range(result'.pf)
       PROVE  \E u \in DOMAIN unfound' : unfound'[u].cv = solution_set[k].cv
  <2>1. PICK u \in DOMAIN unfound : unfound[u].cv = solution_set[k].cv
    BY <1>3, <1>13, <1>17 DEF Accounted
  <2>2. u # m /\ u \in 1 .. len
    BY <1>6, <1>9, <1>13, <1>17, <2>1
  <2>3. CASE u < m
    <3>1. u \in 1 .. len - 1
      BY <1>9, <2>2, <2>3
    <3>2. unfound'[u] = unfound[u]
      BY <1>8, <2>3, <3>1
    <3>3. QED
      BY <1>8, <2>1, <3>1, <3>2
  <2>4. CASE ~ (u < m)
    <3>1. u - 1 \in 1 .. len - 1 /\ ~ (u - 1 < m) /\ (u - 1) + 1 = u
      BY <1>9, <2>2, <2>4
    <3>2. unfound'[u - 1] = unfound[u]
      BY <1>8, <3>1
    <3>3. QED
      BY <1>8, <2>1, <3>1, <3>2
  <2>5. QED
    BY <2>3, <2>4
<1>18. Len(result'.pf) + Len(unfound') = Len(solution_set)
  <2>1. \A a, b \in Nat : (a + 1) + (b - 1) = a + b
    OBVIOUS
  <2>2. (Len(pf) + 1) + (len - 1) = Len(pf) + len
    BY <1>11, <2>1
  <2>3. QED
    BY <1>8, <1>11, <1>12, <2>2
<1>19. QED
  BY <1>1, <1>12, <1>15, <1>16, <1>17, <1>18 DEF Accounted

LEMMA RecordEInv == Inv /\ CInv /\ EInv /\ RecordSolution => EInv'
<1> SUFFICES ASSUME Inv, CInv, EInv, RecordSolution PROVE EInv'
  OBVIOUS
<1>1. pc = "extract" /\ pc' = "extract" /\ UNCHANGED <<problem, solution_set>>
  BY DEF RecordSolution, searching
<1>2. (ParetoFront \subseteq Found)'
  BY <1>1 DEF EInv, ParetoFront, Found
<1>3. (\E A : Assignment(A))' /\ Accounted'
  BY <1>1, RecordAssigns, RecordAccounts DEF EInv
<1>4. QED
  BY <1>1, <1>2, <1>3 DEF EInv, EverySolutionHasAPath

\* Other paths were given to nobody.
LEMMA PassFollowEInv == Inv /\ CInv /\ EInv /\ (PassGoal \/ FollowConnections) => EInv'
<1> SUFFICES ASSUME Inv, CInv, EInv, PassGoal \/ FollowConnections PROVE EInv'
  OBVIOUS
<1>1. /\ pc = "extract" /\ pc' = "extract" /\ stack # <<>>
      /\ UNCHANGED <<problem, search_graph, solution_set, unfound, result>>
  BY DEF PassGoal, FollowConnections, MoreStack, searching
<1>2. (ParetoFront \subseteq Found)' /\ Accounted'
  BY <1>1 DEF EInv, ParetoFront, Found, Accounted
<1>3. PICK A : Assignment(A)
  BY <1>1 DEF EInv
<1>4. ASSUME NEW u \in DOMAIN unfound PROVE Reached(A[u])'
  <2>1. A[u] \in Range(solution_set) /\ A[u].cv = unfound[u].cv /\ Reached(A[u])
    BY <1>3 DEF Assignment
  <2>2. PICK y \in Item : y = A[u] /\ goal(problem, y.node)
    BY <2>1, SolutionMatters DEF Range
  <2>3. CASE PassGoal
    <3>1. goal(problem, curr_node) /\ Matching = {} /\ stack' = Front(stack)
      BY <2>3 DEF PassGoal
    <3>2. y # TopItem(stack[Len(stack)])
      BY <1>1, <2>1, <2>2, <3>1, PoppedItem DEF Matching
    <3>3. QED
      BY <1>1, <2>1, <2>2, <3>1, <3>2, PopReached
  <2>4. CASE FollowConnections
    BY <2>1, <2>2, <2>4, FollowReached
  <2>5. QED
    BY <2>3, <2>4
<1>5. Assignment(A)'
  BY <1>1, <1>3, <1>4 DEF Assignment
<1>6. QED
  BY <1>1, <1>2, <1>5 DEF EInv, EverySolutionHasAPath

\* When the extraction ends, every solution has its path.
LEMMA AllFoundAtEnd ==
    ASSUME Inv, EInv, pc = "extract", ~ MoreStack
    PROVE  unfound = <<>> /\ Range(result.pf) = Found /\ Found = ParetoFront
<1>1. PICK A : Assignment(A)
  BY DEF EInv
<1>2. unfound = <<>>
  <2> SUFFICES ASSUME unfound # <<>> PROVE FALSE
    OBVIOUS
  <2>1. stack = <<>>
    BY DEF MoreStack
  <2>2. PICK u \in DOMAIN unfound : TRUE
    <3>1. unfound \in Seq(Item)
      BY DEF Inv, TInv, TypeOK
    <3>2. 1 \in DOMAIN unfound
      BY <3>1
    <3>3. QED
      BY <3>2
  <2>3. A[u] \in Item /\ Reached(A[u])
    BY <1>1, <2>2, SolutionMatters DEF Assignment, Range
  <2>4. BackClosed(Item)
    BY DEF BackClosed, Matters
  <2>5. \E k \in DOMAIN stack : TRUE
    BY <2>3, <2>4 DEF Reached
  <2>6. QED
    BY <2>1, <2>5
<1>3. DOMAIN unfound = {}
  BY <1>2
<1>4. Range(result.pf) \subseteq Found /\ Found \subseteq Range(result.pf)
  BY <1>3 DEF EInv, Accounted, Found
<1>5. QED
  BY <1>2, <1>4 DEF EInv, Inv, PInv, SolutionsRight

LEMMA PackageEInv == Inv /\ EInv /\ Package => EInv' /\ Range(result'.pf) = Range(result.pf)
<1> SUFFICES ASSUME Inv, EInv, Package
             PROVE  EInv' /\ Range(result'.pf) = Range(result.pf)
  OBVIOUS
<1>1. /\ pc = "extract" /\ ~ MoreStack /\ pc' = "returned"
      /\ result' = [result EXCEPT !.pf = sorted(problem, @),
                                  !.node_paths = sorted(problem, @),
                                  !.edge_paths = sorted(problem, @)]
      /\ UNCHANGED <<problem, solution_set, unfound>>
  BY DEF Package, searching, extracting
<1>2. PICK pf, np, ep : pf = result.pf /\ np = result.node_paths /\ ep = result.edge_paths
  OBVIOUS
<1>3. pf \in Seq(CostVector) /\ np \in Seq(Seq(Nodes)) /\ ep \in Seq(Seq(Edge))
  BY <1>2 DEF Inv, TInv, TypeOK, Result
<1>4. /\ result'.pf = sorted(problem, pf)
      /\ result'.node_paths = sorted(problem, np)
      /\ result'.edge_paths = sorted(problem, ep)
  BY <1>1, <1>2 DEF Inv, TInv, TypeOK, Result
<1>5. unfound = <<>>
  BY <1>1, AllFoundAtEnd
<1>6. /\ Len(pf) + 0 = Len(solution_set) /\ Len(np) = Len(pf) /\ Len(ep) = Len(pf)
      /\ \A s \in DOMAIN pf : IsSolution(problem, np[s], ep[s])
  <2>1. Len(<<>>) = 0
    OBVIOUS
  <2>2. QED
    BY <1>1, <1>2, <1>5, <2>1 DEF EInv, Accounted
<1>7. /\ Len(result'.pf) = Len(pf) /\ Len(result'.node_paths) = Len(pf)
      /\ Len(result'.edge_paths) = Len(pf) /\ Range(result'.pf) = Range(pf)
      /\ result'.pf \in Seq(CostVector)
  BY <1>3, <1>4, <1>6, SortedTyped, SortedKeepsPoints
<1>8. ASSUME NEW s \in DOMAIN result'.pf
      PROVE  IsSolution(problem, result'.node_paths[s], result'.edge_paths[s])
  <2>1. s \in 1 .. Len(pf) /\ Len(pf) \in Nat /\ DOMAIN pf = 1 .. Len(pf)
    BY <1>3, <1>7
  <2>2. CASE problem.container = "FixedArray"
    BY <1>4, <1>6, <2>1, <2>2 DEF sorted
  <2>3. CASE problem.container # "FixedArray"
    <3>1. result'.node_paths = Reverse(np) /\ result'.edge_paths = Reverse(ep)
      BY <1>4, <2>3 DEF sorted
    <3>2. /\ Reverse(np)[s] = np[Len(pf) - s + 1]
          /\ Reverse(ep)[s] = ep[Len(pf) - s + 1]
      BY <1>6, <2>1 DEF Reverse
    <3>3. Len(pf) - s + 1 \in DOMAIN pf
      BY <2>1
    <3>4. QED
      BY <1>6, <3>1, <3>2, <3>3
  <2>4. QED
    BY <2>2, <2>3
<1>9. Len(result'.pf) = Len(solution_set)
  BY <1>3, <1>6, <1>7
<1>10. EverySolutionHasAPath'
  BY <1>1, <1>5, <1>7, <1>8, <1>9 DEF EverySolutionHasAPath
<1>11. QED
  BY <1>1, <1>2, <1>7, <1>10 DEF EInv

\* Before the extraction and where it is cut short there is nothing to show, and
\* without solutions there is nothing to extract.
LEMMA OtherEInv ==
    ASSUME Inv, CInv, EInv,
           \/ PopGoal \/ PopExpand \/ SkipKnown \/ FilterNeighbor \/ AddNeighbor
           \/ EndNeighbors \/ ReadPastGraph \/ Fail \/ UNCHANGED vars
    PROVE  EInv'
<1>1. CASE \/ PopGoal \/ PopExpand \/ SkipKnown \/ FilterNeighbor \/ AddNeighbor
           \/ EndNeighbors \/ ReadPastGraph
  <2>1. pc' # "extract" /\ pc' # "returned"
    BY <1>1 DEF PopGoal, PopExpand, SkipKnown, FilterNeighbor, AddNeighbor, EndNeighbors,
                ReadPastGraph
  <2>2. QED
    BY <2>1 DEF EInv, EverySolutionHasAPath
<1>2. CASE Fail
  <2>1. /\ pc = "loop" /\ pc' = "returned" /\ ~ result.success
        /\ UNCHANGED <<problem, solution_set, unfound, result>>
    BY <1>2 DEF Fail, searching, extracting
  <2>2. /\ solution_set = <<>> /\ unfound = <<>> /\ result.pf = <<>>
        /\ result.node_paths = <<>> /\ result.edge_paths = <<>>
    BY <2>1 DEF CInv, NothingReported
  <2>3. EverySolutionHasAPath'
    BY <2>1, <2>2 DEF EverySolutionHasAPath
  <2>4. QED
    BY <2>1, <2>3 DEF EInv
<1>3. CASE UNCHANGED vars
  BY <1>3, SameClosed
     DEF vars, EInv, EverySolutionHasAPath, Assignment, Reached, Accounted, Found, ParetoFront
<1>4. QED
  BY <1>1, <1>2, <1>3

LEMMA AllHold == Spec /\ Additive(problem) => [](Inv /\ CInv /\ EInv)
<1>1. Init /\ Additive(problem) => Inv /\ CInv /\ EInv
  BY InitInv, InitCInv DEF EInv, EverySolutionHasAPath, Init
<1>2. Inv /\ CInv /\ EInv /\ [Next]_vars => (Inv /\ CInv /\ EInv)'
  <2> SUFFICES ASSUME Inv, CInv, EInv, [Next]_vars PROVE EInv'
    BY NextInv, NextCInv
  <2>1. QED
    BY StartEInv, RecordEInv, PassFollowEInv, PackageEInv, OtherEInv DEF Next
<1>3. QED
  BY <1>1, <1>2, PTL DEF Spec

\* Where gScore adds, the extraction finds a path for every solution, although
\* it skips connections that are dominated and asks of none whether its cost is
\* that of the path and the edge; each is a walk from an initial node to a goal.
THEOREM PathsAreFound == Spec /\ Additive(problem) => []EverySolutionHasAPath
<1>1. EInv => EverySolutionHasAPath
  BY DEF EInv
<1>2. QED
  BY <1>1, AllHold, PTL

\* Under every admissible heuristic, consistent or not, the search finds the
\* Pareto front point by point if gScore adds, and returns the front it found.
THEOREM Refinement == Spec /\ Additive(problem) => ImplementsParetoSearch
<1> DEFINE Reported == IF pc = "returned" THEN Range(result.pf) ELSE Found
<1>0. Promise!ParetoFrontOf(problem) = ParetoFront
  BY DEF ParetoFront, ParetoFrontOf, NonDominated, Dominates, dominates, Leq, Objectives,
         CostsToGo, Promise!ParetoFrontOf, Promise!NonDominated, Promise!Dominates,
         Promise!dominates, Promise!Leq, Promise!Objectives, Promise!CostsToGo
<1>1. Init => Promise!Init
  BY DEF Init, Promise!Init, Found
<1>2. Inv /\ CInv /\ EInv /\ [Next]_vars
        => [Promise!Next]_<<problem, Reported, pc = "returned">>
  <2> SUFFICES ASSUME Inv, CInv, EInv, [Next]_vars
               PROVE  [Promise!Next]_<<problem, Reported, pc = "returned">>
    OBVIOUS
  <2>1. CASE PopGoal
    <3>1. PICK e \in open_set : /\ Top(e) /\ goal(problem, e.node)
                                /\ solution_set' = Append(solution_set, e)
      BY <2>1 DEF PopGoal
    <3>2. pc = "loop" /\ pc' = "loop" /\ UNCHANGED problem
      BY <2>1 DEF PopGoal
    <3>3. e.cv \in ParetoFront
      BY <3>1, <3>2, PoppedGoalOnFront
    <3>4. Found' = Found \cup {e.cv}
      <4>1. solution_set \in Seq(Item)
        BY DEF Inv, TInv, TypeOK
      <4>2. /\ DOMAIN solution_set' = DOMAIN solution_set \cup {Len(solution_set) + 1}
            /\ solution_set'[Len(solution_set) + 1] = e
            /\ \A k \in DOMAIN solution_set : solution_set'[k] = solution_set[k]
        BY <3>1, <4>1
      <4>3. QED
        BY <4>2 DEF Found
    <3>5. Reported = Found /\ Reported' = Found'
      BY <3>2
    <3>6. CASE e.cv \in Found
      BY <3>2, <3>4, <3>5, <3>6
    <3>7. CASE e.cv \notin Found
      <4>1. Promise!Report
        BY <1>0, <3>2, <3>3, <3>4, <3>5, <3>7 DEF Promise!Report, Found
      <4>2. QED
        BY <4>1 DEF Promise!Next
    <3>8. QED
      BY <3>6, <3>7
  <2>2. CASE Fail
    <3>1. /\ pc = "loop" /\ open_set = {} /\ pc' = "returned"
          /\ UNCHANGED <<problem, result>>
      BY <2>2 DEF Fail
    <3>2. result.pf = <<>> /\ solution_set = <<>>
      BY <2>2, <3>1 DEF CInv, NothingReported, Fail
    <3>3. Range(<<>>) = {} /\ Found = {}
      BY <3>2 DEF Range, Found
    <3>4. Found = ParetoFront
      BY <3>1, FrontFoundAtEnd
    <3>5. Reported = ParetoFront /\ Reported' = Reported
      BY <3>1, <3>2, <3>3, <3>4
    <3>6. Promise!Finish
      BY <1>0, <3>1, <3>5 DEF Promise!Finish, Found
    <3>7. QED
      BY <3>6 DEF Promise!Next
  <2>3. CASE Package
    <3>1. pc = "extract" /\ ~ MoreStack /\ pc' = "returned" /\ UNCHANGED problem
      BY <2>3 DEF Package
    <3>2. Range(result.pf) = Found /\ Found = ParetoFront
      BY <3>1, AllFoundAtEnd
    <3>3. Range(result'.pf) = Range(result.pf)
      BY <2>3, PackageEInv
    <3>4. Reported = ParetoFront /\ Reported' = Reported
      BY <3>1, <3>2, <3>3
    <3>5. Promise!Finish
      BY <1>0, <3>1, <3>4 DEF Promise!Finish, Found
    <3>6. QED
      BY <3>5 DEF Promise!Next
  <2>4. CASE \/ PopExpand \/ SkipKnown \/ FilterNeighbor \/ AddNeighbor \/ EndNeighbors
             \/ StartExtraction \/ RecordSolution \/ PassGoal
             \/ ReadPastGraph \/ FollowConnections
    <3>1. /\ pc # "returned" /\ pc' # "returned" /\ UNCHANGED <<problem, solution_set>>
      BY <2>4 DEF PopExpand, SkipKnown, FilterNeighbor, AddNeighbor, EndNeighbors,
                  StartExtraction, RecordSolution, PassGoal, ReadPastGraph, FollowConnections,
                  searching
    <3>2. Reported' = Reported /\ (pc = "returned")' = (pc = "returned")
      BY <3>1 DEF Found
    <3>3. QED
      BY <3>1, <3>2
  <2>5. CASE UNCHANGED vars
    <3>1. UNCHANGED <<problem, pc, solution_set, result>>
      BY <2>5 DEF vars
    <3>2. Reported' = Reported /\ (pc = "returned")' = (pc = "returned")
      BY <3>1 DEF Found
    <3>3. QED
      BY <3>1, <3>2
  <2>6. QED
    BY <2>1, <2>2, <2>3, <2>4, <2>5 DEF Next
<1>3. QED
  BY <1>1, <1>2, AllHold, PTL DEF Spec, ImplementsParetoSearch, Promise!Spec, Found

-----------------------------------------------------------------------------
(***************************************************************************)
(* The search graph and the cost map tell the same story.                  *)
(***************************************************************************)

\* The item a connection leads to.
Target(e) == [node |-> e.edge.to, cv |-> e.cv]

\* Connections lead to items that are held, and different ones to different items;
\* items are connected, but for those the search started from.
UInv ==
    /\ \A m \in Nodes : \A k \in DOMAIN search_graph[m] :
          IsHeld(Target(search_graph[m][k])) /\ Target(search_graph[m][k]) \notin Initials
    /\ \A m, n \in Nodes : \A k \in DOMAIN search_graph[m] : \A l \in DOMAIN search_graph[n] :
          Target(search_graph[m][k]) = Target(search_graph[n][l]) => m = n /\ k = l
    /\ \A x \in Item : IsHeld(x) =>
          \/ x \in Initials
          \/ \E m \in Nodes : \E k \in DOMAIN search_graph[m] : Target(search_graph[m][k]) = x
    /\ Range(unfound) \subseteq Range(solution_set)

LEMMA InitUInv == Init => UInv
<1> SUFFICES ASSUME Init PROVE UInv
  OBVIOUS
<1>1. cost_map = [n \in problem.initialNodes |-> [c \in {Zero} |-> TRUE]]
  BY DEF Init
<1>2. ASSUME NEW x \in Item, IsHeld(x) PROVE x \in Initials
  <2>1. x.node \in problem.initialNodes /\ x.cv = Zero
    BY <1>1, <1>2 DEF IsHeld, Costs
  <2>2. QED
    BY <2>1, ItemParts DEF Initials
<1>3. \A m \in Nodes : DOMAIN search_graph[m] = {}
  BY DEF Init
<1>4. Range(unfound) = {}
  BY DEF Init, Range
<1>5. QED
  BY <1>2, <1>3, <1>4 DEF UInv

\* A connection's target is an item.
LEMMA TargetTyped ==
    ASSUME TInv, NEW m \in Nodes, NEW k \in DOMAIN search_graph[m]
    PROVE  /\ Target(search_graph[m][k]) \in Item
           /\ search_graph[m][k] \in Range(search_graph[m])
           /\ search_graph[m][k] \in Connection
<1>1. search_graph[m][k] \in Connection /\ search_graph[m][k] \in Range(search_graph[m])
  BY DEF TInv, GraphTyped, Range
<1>2. QED
  BY <1>1 DEF Target, Item, Connection, Edge

\* The places that what is kept comes from.
LEMMA KeptPlaces ==
    ASSUME TInv
    PROVE  \E at : \A n \in Nodes :
               /\ at[n] \in [DOMAIN KeptGraph[n] -> DOMAIN search_graph[n]]
               /\ \A k, l \in DOMAIN KeptGraph[n] : at[n][k] = at[n][l] => k = l
               /\ \A k \in DOMAIN KeptGraph[n] :
                     KeptGraph[n][k] = search_graph[n][at[n][k]]
<1> DEFINE S(n) == {e \in Range(search_graph[n]) : ~ (e.edge.to = neighbor /\ e.cv \in Erased)}
           Places(n, f) ==
               /\ f \in [DOMAIN KeptGraph[n] -> DOMAIN search_graph[n]]
               /\ \A k, l \in DOMAIN KeptGraph[n] : f[k] = f[l] => k = l
               /\ \A k \in DOMAIN KeptGraph[n] : KeptGraph[n][k] = search_graph[n][f[k]]
<1>1. ASSUME NEW n \in Nodes PROVE \E f : Places(n, f)
  <2>1. KeptGraph[n] = Sublist(search_graph[n], S(n))
    BY DEF KeptGraph
  <2>2. search_graph[n] \in Seq(Connection)
    BY DEF TInv, GraphTyped
  <2> HIDE DEF S
  <2>3. PICK f : Left(search_graph[n], S(n), KeptGraph[n], f)
    BY <2>1, <2>2, SublistPlaces
  <2>4. Places(n, f)
    BY <2>3 DEF Left
  <2>5. QED
    BY <2>4
<1> HIDE DEF Places
<1>2. \A n \in Nodes : Places(n, CHOOSE f : Places(n, f))
  BY <1>1
<1>3. PICK at : at = [n \in Nodes |-> CHOOSE f : Places(n, f)]
  OBVIOUS
<1>4. \A n \in Nodes : Places(n, at[n])
  BY <1>2, <1>3
<1>5. QED
  BY <1>4 DEF Places

\* Erasing keeps the story straight: what is left leads to what is left.
LEMMA KeptStory ==
    ASSUME Inv, UInv, pc = "neighbors", MoreNeighbors
    PROVE  /\ \A m \in Nodes : \A k \in DOMAIN KeptGraph[m] :
                 /\ Target(KeptGraph[m][k]) \in Item
                 /\ IsHeld(Target(KeptGraph[m][k])) /\ Target(KeptGraph[m][k]) \notin Initials
                 /\ ~ (Target(KeptGraph[m][k]).node = neighbor
                         /\ Target(KeptGraph[m][k]).cv \in Erased)
           /\ \A m, n \in Nodes : \A k \in DOMAIN KeptGraph[m] : \A l \in DOMAIN KeptGraph[n] :
                 Target(KeptGraph[m][k]) = Target(KeptGraph[n][l]) => m = n /\ k = l
           /\ \A x \in Item : IsHeld(x) /\ ~ (x.node = neighbor /\ x.cv \in Erased) =>
                 \/ x \in Initials
                 \/ \E m \in Nodes : \E k \in DOMAIN KeptGraph[m] : Target(KeptGraph[m][k]) = x
<1>0. TInv
  BY DEF Inv
<1>1. PICK at : \A n \in Nodes :
               /\ at[n] \in [DOMAIN KeptGraph[n] -> DOMAIN search_graph[n]]
               /\ \A k, l \in DOMAIN KeptGraph[n] : at[n][k] = at[n][l] => k = l
               /\ \A k \in DOMAIN KeptGraph[n] :
                     KeptGraph[n][k] = search_graph[n][at[n][k]]
  BY <1>0, KeptPlaces
<1>2. ASSUME NEW m \in Nodes, NEW k \in DOMAIN KeptGraph[m]
      PROVE  /\ Target(KeptGraph[m][k]) \in Item
             /\ IsHeld(Target(KeptGraph[m][k])) /\ Target(KeptGraph[m][k]) \notin Initials
             /\ ~ (Target(KeptGraph[m][k]).node = neighbor
                     /\ Target(KeptGraph[m][k]).cv \in Erased)
  <2>1. KeptGraph[m][k] = search_graph[m][at[m][k]] /\ at[m][k] \in DOMAIN search_graph[m]
    BY <1>1
  <2>2. KeptGraph[m][k] \in Range(KeptGraph[m])
    BY DEF Range
  <2>3. ~ (KeptGraph[m][k].edge.to = neighbor /\ KeptGraph[m][k].cv \in Erased)
    BY <1>0, <2>2, KeptGraphTyped DEF TInv
  <2>4. /\ Target(search_graph[m][at[m][k]]) \in Item
        /\ IsHeld(Target(search_graph[m][at[m][k]]))
        /\ Target(search_graph[m][at[m][k]]) \notin Initials
    BY <1>0, <2>1, TargetTyped DEF UInv
  <2>5. QED
    BY <2>1, <2>3, <2>4 DEF Target
<1>3. ASSUME NEW m \in Nodes, NEW n \in Nodes, NEW k \in DOMAIN KeptGraph[m],
             NEW l \in DOMAIN KeptGraph[n], Target(KeptGraph[m][k]) = Target(KeptGraph[n][l])
      PROVE  m = n /\ k = l
  <2>1. /\ KeptGraph[m][k] = search_graph[m][at[m][k]] /\ at[m][k] \in DOMAIN search_graph[m]
        /\ KeptGraph[n][l] = search_graph[n][at[n][l]] /\ at[n][l] \in DOMAIN search_graph[n]
    BY <1>1
  <2>2. m = n /\ at[m][k] = at[n][l]
    BY <1>3, <2>1 DEF UInv
  <2>3. QED
    BY <1>1, <2>2
<1>4. ASSUME NEW x \in Item, IsHeld(x), ~ (x.node = neighbor /\ x.cv \in Erased),
             x \notin Initials
      PROVE  \E m \in Nodes : \E k \in DOMAIN KeptGraph[m] : Target(KeptGraph[m][k]) = x
  <2>1. PICK m \in Nodes : \E k \in DOMAIN search_graph[m] : Target(search_graph[m][k]) = x
    BY <1>4 DEF UInv
  <2>2. PICK k \in DOMAIN search_graph[m] : Target(search_graph[m][k]) = x
    BY <2>1
  <2>3. search_graph[m][k] \in Range(search_graph[m])
    BY <1>0, TargetTyped
  <2>4. search_graph[m][k] \in Range(KeptGraph[m])
    BY <1>0, <1>4, <2>2, <2>3, KeptGraphTyped DEF TInv, Target
  <2>5. PICK l \in DOMAIN KeptGraph[m] : KeptGraph[m][l] = search_graph[m][k]
    BY <2>4 DEF Range
  <2>6. QED
    BY <2>2, <2>5
<1>5. QED
  BY <1>2, <1>3, <1>4

LEMMA FilterNeighborUInv == Inv /\ UInv /\ FilterNeighbor => UInv'
<1> SUFFICES ASSUME Inv, UInv, FilterNeighbor PROVE UInv'
  OBVIOUS
<1>1. /\ pc = "neighbors" /\ MoreNeighbors /\ search_graph' = KeptGraph
      /\ UNCHANGED <<problem, solution_set, unfound>>
  BY DEF FilterNeighbor, extracting
<1>2. \A x \in Item : IsHeld(x)' <=> IsHeld(x) /\ ~ (x.node = neighbor /\ x.cv \in Erased)
  BY HeldAfterFilter
<1>3. Initials' = Initials
  BY <1>1 DEF Initials
<1>4. ASSUME NEW m \in Nodes, NEW k \in DOMAIN search_graph'[m]
      PROVE  IsHeld(Target(search_graph[m][k]))' /\ Target(search_graph'[m][k]) \notin Initials
  <2>1. PICK x \in Item : x = Target(search_graph'[m][k])
    BY <1>1, KeptStory
  <2>2. IsHeld(x) /\ ~ (x.node = neighbor /\ x.cv \in Erased) /\ x \notin Initials
    BY <1>1, <2>1, KeptStory
  <2>3. IsHeld(x)'
    BY <1>2, <2>2
  <2>4. QED
    BY <2>1, <2>2, <2>3
<1>5. \A m, n \in Nodes : \A k \in DOMAIN search_graph'[m] : \A l \in DOMAIN search_graph'[n] :
         Target(search_graph'[m][k]) = Target(search_graph'[n][l]) => m = n /\ k = l
  BY <1>1, KeptStory
<1>6. \A x \in Item : IsHeld(x)' =>
          \/ x \in Initials
          \/ \E m \in Nodes : \E k \in DOMAIN search_graph'[m] : Target(search_graph'[m][k]) = x
  BY <1>1, <1>2, KeptStory
<1>7. (Range(unfound) \subseteq Range(solution_set))'
  BY <1>1 DEF UInv
<1>8. QED
  BY <1>3, <1>4, <1>5, <1>6, <1>7 DEF UInv

\* The new item had no connection, and was not one the search started from: an
\* item that is held is not new.
LEMMA NewIsNew ==
    ASSUME Inv, pc = "neighbors", MoreNeighbors, ~ DominatedAt(neighbor, tentative_g_score)
    PROVE  ~ IsHeld(New) /\ New \notin Initials
<1>1. New \in Item /\ New.node = neighbor /\ New.cv = tentative_g_score
      /\ tentative_g_score \in CostVector
  BY NeighborFacts DEF Item
<1>2. ~ IsHeld(New)
  <2>1. dominates(tentative_g_score, tentative_g_score) # "DoesNotDominate"
    BY <1>1, CostOrder DEF dominates
  <2>2. QED
    BY <1>1, <2>1 DEF IsHeld, DominatedAt
<1>3. QED
  BY <1>2 DEF Inv, PInv, StartAndCurrHeld

LEMMA AddNeighborUInv == Inv /\ UInv /\ AddNeighbor => UInv'
<1> SUFFICES ASSUME Inv, UInv, AddNeighbor PROVE UInv'
  OBVIOUS
<1>1. /\ pc = "neighbors" /\ MoreNeighbors /\ search_graph' = Connected
      /\ ~ DominatedAt(neighbor, tentative_g_score)
      /\ UNCHANGED <<problem, solution_set, unfound>>
  BY DEF AddNeighbor, extracting
<1>2. PICK w \in Item : w = New
  BY <1>1, NeighborFacts
<1>3. \A x \in Item :
         /\ x = w => IsHeld(x)'
         /\ x # w => (IsHeld(x)' <=> IsHeld(x) /\ ~ (x.node = neighbor /\ x.cv \in Erased))
  BY <1>2, HeldAfterAdd
<1>4. Initials' = Initials
  BY <1>1 DEF Initials
<1>5. ~ IsHeld(w) /\ w \notin Initials
  BY <1>1, <1>2, NewIsNew
<1>6. PICK c \in Nodes : c = curr.node
  BY <1>1, NeighborFacts DEF Item
<1>7. PICK old \in Seq(Connection) : old = KeptGraph[c]
  BY <1>6, KeptGraphTyped DEF Inv, TInv
<1>8. /\ search_graph'[c] = Append(old, NewConnection)
      /\ \A n \in Nodes \ {c} : search_graph'[n] = KeptGraph[n]
  BY <1>1, <1>6, <1>7, ConnectedTyped DEF Inv, TInv
<1>9. PICK last \in Nat : last = Len(old) + 1
  BY <1>7
<1>10. /\ DOMAIN search_graph'[c] = DOMAIN old \cup {last} /\ last \notin DOMAIN old
       /\ search_graph'[c][last] = NewConnection
       /\ \A k \in DOMAIN old : search_graph'[c][k] = old[k]
  BY <1>7, <1>8, <1>9
<1>11. Target(NewConnection) = w
  BY <1>2 DEF Target, NewConnection, New, neighbor
\* A connection is the new one or an old one.
<1>12. ASSUME NEW m \in Nodes, NEW k \in DOMAIN search_graph'[m]
       PROVE  \/ m = c /\ k = last /\ Target(search_graph'[m][k]) = w
              \/ k \in DOMAIN KeptGraph[m] /\ search_graph'[m][k] = KeptGraph[m][k]
  <2>1. CASE m = c
    BY <1>7, <1>10, <1>11, <2>1
  <2>2. CASE m # c
    BY <1>8, <2>2
  <2>3. QED
    BY <2>1, <2>2
<1>13. ASSUME NEW m \in Nodes, NEW k \in DOMAIN KeptGraph[m]
       PROVE  k \in DOMAIN search_graph'[m] /\ search_graph'[m][k] = KeptGraph[m][k]
  <2>1. CASE m = c
    BY <1>7, <1>10, <2>1
  <2>2. CASE m # c
    BY <1>8, <2>2
  <2>3. QED
    BY <2>1, <2>2
<1>14. ASSUME NEW m \in Nodes, NEW k \in DOMAIN KeptGraph[m] PROVE Target(KeptGraph[m][k]) # w
  BY <1>1, <1>5, KeptStory
<1>15. ASSUME NEW m \in Nodes, NEW k \in DOMAIN search_graph'[m]
       PROVE  IsHeld(Target(search_graph[m][k]))' /\ Target(search_graph'[m][k]) \notin Initials
  <2>1. CASE Target(search_graph'[m][k]) = w
    <3>1. IsHeld(w)'
      BY <1>3
    <3>2. QED
      BY <1>5, <2>1, <3>1
  <2>2. CASE k \in DOMAIN KeptGraph[m] /\ search_graph'[m][k] = KeptGraph[m][k]
    <3>1. PICK x \in Item : x = Target(KeptGraph[m][k])
      BY <1>1, <2>2, KeptStory
    <3>2. IsHeld(x) /\ ~ (x.node = neighbor /\ x.cv \in Erased) /\ x \notin Initials
      BY <1>1, <2>2, <3>1, KeptStory
    <3>3. IsHeld(x)'
      BY <1>3, <3>2
    <3>4. QED
      BY <2>2, <3>1, <3>2, <3>3
  <2>3. QED
    BY <1>12, <2>1, <2>2
<1>16. ASSUME NEW m \in Nodes, NEW n \in Nodes, NEW k \in DOMAIN search_graph'[m],
              NEW l \in DOMAIN search_graph'[n],
              Target(search_graph'[m][k]) = Target(search_graph'[n][l])
       PROVE  m = n /\ k = l
  <2>1. CASE Target(search_graph'[m][k]) = w
    BY <1>12, <1>14, <1>16, <2>1
  <2>2. CASE Target(search_graph'[m][k]) # w
    <3>1. /\ k \in DOMAIN KeptGraph[m] /\ search_graph'[m][k] = KeptGraph[m][k]
          /\ l \in DOMAIN KeptGraph[n] /\ search_graph'[n][l] = KeptGraph[n][l]
      BY <1>12, <1>16, <2>2
    <3>2. QED
      BY <1>1, <1>16, <3>1, KeptStory
  <2>3. QED
    BY <2>1, <2>2
<1>17. ASSUME NEW x \in Item, IsHeld(x)', x \notin Initials
       PROVE  \E m \in Nodes : \E k \in DOMAIN search_graph'[m] : Target(search_graph'[m][k]) = x
  <2>1. CASE x = w
    BY <1>6, <1>10, <1>11, <2>1
  <2>2. CASE x # w
    <3>1. IsHeld(x) /\ ~ (x.node = neighbor /\ x.cv \in Erased)
      BY <1>3, <1>17, <2>2
    <3>2. PICK m \in Nodes : \E k \in DOMAIN KeptGraph[m] : Target(KeptGraph[m][k]) = x
      BY <1>1, <1>17, <3>1, KeptStory
    <3>3. QED
      BY <1>13, <3>2
  <2>3. QED
    BY <2>1, <2>2
<1>18. (Range(unfound) \subseteq Range(solution_set))'
  BY <1>1 DEF UInv
<1>19. QED
  BY <1>4, <1>15, <1>16, <1>17, <1>18 DEF UInv

LEMMA OtherUInv ==
    ASSUME Inv, UInv,
           \/ PopGoal \/ PopExpand
           \/ SkipKnown \/ EndNeighbors \/ Fail \/ StartExtraction \/ RecordSolution
           \/ PassGoal \/ ReadPastGraph \/ FollowConnections \/ Package \/ UNCHANGED vars
    PROVE  UInv'
<1>1. UNCHANGED <<problem, search_graph>>
  BY DEF PopGoal, PopExpand, SkipKnown, EndNeighbors, Fail, StartExtraction, RecordSolution,
         PassGoal, ReadPastGraph, FollowConnections, Package, vars, searching
<1>2. \A x : IsHeld(x)' <=> IsHeld(x)
  <2>1. CASE PopGoal \/ PopExpand
    <3>1. PICK e \in open_set : cost_map' = moveToClosed(e)
      BY <2>1 DEF PopGoal, PopExpand
    <3>2. QED
      BY <3>1, HeldAfterPop
  <2>2. CASE ~ (PopGoal \/ PopExpand)
    <3>1. cost_map' = cost_map
      BY <2>2 DEF SkipKnown, EndNeighbors, Fail, StartExtraction, RecordSolution,
                  PassGoal, ReadPastGraph, FollowConnections, Package, vars, searching
    <3>2. QED
      BY <3>1 DEF IsHeld, Costs
  <2>3. QED
    BY <2>1, <2>2
<1>3. Initials' = Initials
  BY <1>1 DEF Initials
<1>4. ASSUME NEW m \in Nodes, NEW k \in DOMAIN search_graph[m]
      PROVE  IsHeld(Target(search_graph[m][k]))'
  <2>1. PICK x \in Item : x = Target(search_graph[m][k])
    BY TargetTyped DEF Inv
  <2>2. IsHeld(x)'
    BY <1>2, <2>1 DEF UInv
  <2>3. QED
    BY <1>1, <2>1, <2>2
<1>5. (Range(unfound) \subseteq Range(solution_set))'
  <2>1. CASE PopGoal
    <3>1. PICK e : solution_set' = Append(solution_set, e) /\ UNCHANGED unfound
      BY <2>1 DEF PopGoal, extracting
    <3>2. Range(solution_set') = Range(solution_set) \cup {e}
      BY <3>1, RangeOfAppend DEF Inv, TInv, TypeOK
    <3>3. QED
      BY <3>1, <3>2 DEF UInv
  <2>2. CASE StartExtraction
    BY <2>2 DEF StartExtraction, searching
  <2>3. CASE RecordSolution
    <3>1. /\ Matching # {} /\ unfound' = RemoveAt(unfound, Min(Matching))
          /\ UNCHANGED solution_set
      BY <2>3 DEF RecordSolution, searching
    <3>2. unfound \in Seq(Item) /\ Min(Matching) \in DOMAIN unfound
      BY <3>1, FirstMatching DEF Inv, TInv, TypeOK
    <3>3. PICK m \in DOMAIN unfound : m = Min(Matching)
      BY <3>2
    <3>4. ASSUME NEW k \in DOMAIN unfound' PROVE unfound'[k] \in Range(unfound)
      <4>1. PICK len \in Nat : len = Len(unfound)
        BY <3>2
      <4>2. k \in 1 .. len - 1 /\ unfound'[k] = IF k < m THEN unfound[k] ELSE unfound[k + 1]
        BY <3>1, <3>2, <3>3, <3>4, <4>1, RemovedTyped
      <4>3. k \in DOMAIN unfound /\ k + 1 \in DOMAIN unfound
        BY <3>2, <4>1, <4>2
      <4>4. QED
        BY <4>2, <4>3 DEF Range
    <3>5. QED
      BY <3>1, <3>4 DEF UInv, Range
  <2>4. CASE ~ (PopGoal \/ StartExtraction \/ RecordSolution)
    <3>1. UNCHANGED <<unfound, solution_set>>
      BY <2>4 DEF PopExpand, SkipKnown, EndNeighbors, Fail, PassGoal, ReadPastGraph,
                  FollowConnections, Package, vars, searching, extracting
    <3>2. QED
      BY <3>1 DEF UInv
  <2>5. QED
    BY <2>1, <2>2, <2>3, <2>4
<1>6. QED
  BY <1>1, <1>2, <1>3, <1>4, <1>5 DEF UInv

\* What the story says of the number of connections.
LEMMA StoryCounts ==
    ASSUME Inv, UInv
    PROVE  ConnectionsMatchCosts
<1>1. ASSUME NEW m \in Nodes, NEW k \in DOMAIN search_graph[m]
      PROVE  IsHeld([node |-> search_graph[m][k].edge.to, cv |-> search_graph[m][k].cv])
  BY DEF UInv, Target
<1>2. ASSUME NEW n \in DOMAIN cost_map, NEW c \in DOMAIN cost_map[n]
      PROVE  Cardinality(ConnectionsTo(n, c)) =
                 IF n \in problem.initialNodes /\ c = Zero THEN 0 ELSE 1
  <2>1. PICK x \in Item : x = [node |-> n, cv |-> c]
    BY DEF Inv, TInv, TypeOK, Item
  <2>2. x.node = n /\ x.cv = c /\ IsHeld(x)
    BY <2>1 DEF IsHeld, Costs
  <2>3. x \in Initials <=> n \in problem.initialNodes /\ c = Zero
    BY <2>1 DEF Initials
  <2>4. ASSUME NEW m \in Nodes, NEW k \in DOMAIN search_graph[m]
        PROVE  Target(search_graph[m][k]) = x
                 <=> search_graph[m][k].edge.to = n /\ search_graph[m][k].cv = c
    BY <2>1 DEF Target
  <2>5. \A y : y \in ConnectionsTo(n, c) <=>
            \E m \in Nodes : \E k \in DOMAIN search_graph[m] :
                y = <<m, k>> /\ Target(search_graph[m][k]) = x
    BY <2>4 DEF ConnectionsTo
  <2>6. CASE x \in Initials
    <3>1. ConnectionsTo(n, c) = {}
      BY <2>5, <2>6 DEF UInv
    <3>2. QED
      BY <2>3, <2>6, <3>1, FS_EmptySet
  <2>7. CASE x \notin Initials
    <3>1. PICK m \in Nodes : \E k \in DOMAIN search_graph[m] : Target(search_graph[m][k]) = x
      BY <2>2, <2>7 DEF UInv
    <3>2. PICK k \in DOMAIN search_graph[m] : Target(search_graph[m][k]) = x
      BY <3>1
    <3>3. \A y : y \in ConnectionsTo(n, c) <=> y = <<m, k>>
      BY <2>5, <3>2 DEF UInv
    <3>4. ConnectionsTo(n, c) = {<<m, k>>}
      BY <3>3
    <3>5. QED
      BY <2>3, <2>7, <3>4, FS_Singleton
  <2>8. QED
    BY <2>6, <2>7
<1>3. QED
  BY <1>1, <1>2 DEF ConnectionsMatchCosts

\* Where gScore adds, the open set, the solutions, the cost map and the search
\* graph stay four views of the same labels, however many of them better walks
\* erase (NAMOAStar_impl.hpp:147-167).
THEOREM ViewsAgree == Spec /\ Additive(problem) => []SearchStateAgrees
<1>1. Inv /\ UInv /\ [Next]_vars => UInv'
  BY FilterNeighborUInv, AddNeighborUInv, OtherUInv DEF Next
<1>2. Inv /\ UInv => NoDanglingCost /\ ConnectionsMatchCosts
  <2> SUFFICES ASSUME Inv, UInv PROVE NoDanglingCost
    BY StoryCounts
  <2>1. \A item \in Range(solution_set) : IsHeld(item)
    BY DEF Inv, PInv, SolutionsRight, Range
  <2>2. \A item \in open_set : IsHeld(item)
    BY DEF Inv, IInv, OpenIsHeld
  <2>3. pc = "neighbors" => IsHeld(curr)
    BY DEF Inv, PInv, StartAndCurrHeld
  <2>4. QED
    BY <2>1, <2>2, <2>3 DEF UInv, NoDanglingCost
<1>3. Spec /\ Additive(problem) => []UInv
  BY <1>1, InitUInv, AllHold, PTL DEF Spec
<1>4. QED
  BY <1>2, <1>3, AllHold, FlagsFollowOpenSet, CostSetsTradeOff, PTL DEF SearchStateAgrees
=============================================================================
