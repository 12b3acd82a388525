------------------------------ MODULE NAMOAStar ------------------------------
(***************************************************************************)
(* NAMOAStar::search and NAMOAStar::extractPaths, one action per way       *)
(* through the main loop, per neighbor looked at and per element popped    *)
(* from the extraction's stack.                                            *)
(*                                                                         *)
(* The code hands out pointers to the items of NonDominatedCostMap: an     *)
(* item is known here by its node and its cost vector, which no other item *)
(* of the node shares, and a pointer is that pair.  It is still valid      *)
(* while cost_map holds the item.  An element of the extraction's stack is *)
(* an enumerated node; here it carries the paths its parents spell.        *)
(***************************************************************************)
EXTENDS MOSearchResult

VARIABLES
    problem,       \* the problem search() was called with
    pc,            \* "loop", "neighbors", "extract", "returned", "crashed"
    cost_map,      \* G_set: from a node to its cost set, from a cost to in_open
    open_set,      \* pointers to the items that are to be popped
    search_graph,  \* from a node to its outgoing connections, in their order
    graph_size,    \* its size(): it grows to the largest node connected so far
    solution_set,  \* pointers to the items popped at goals
    curr,          \* the pointer popped last
    i,             \* the index of the next neighbor of its node
    stack,         \* of path extraction
    unfound,       \* solution_set_copy: the solutions without a path yet
    result         \* success, pf, and the solution set's node and edge paths

ASSUME NodesAssumption ==
    /\ Nodes # {}         \* they are the values of a type
    /\ Nodes \subseteq Nat  \* and index the search graph

vars == <<problem, pc, cost_map, open_set, search_graph, graph_size, solution_set, curr, i,
          stack, unfound, result>>

searching == <<cost_map, open_set, search_graph, graph_size, solution_set, curr, i>>
extracting == <<stack, unfound>>

Item == [node : Nodes, cv : CostVector]

f_score(item) == Plus(item.cv, hScore(problem, item.node))

\* sorted_set is a multiset: some element whose f-score is lexicographically
\* least is popped.
Top(e) == e \in open_set /\ \A o \in open_set : ~ LexLess(f_score(o), f_score(e))

\* The costs held for a node.
Costs(n) == IF n \in DOMAIN cost_map THEN DOMAIN cost_map[n] ELSE {}

Init ==
    /\ problem \in Problems
    /\ pc = "loop"
    /\ cost_map = [n \in problem.initialNodes |-> [c \in {Zero} |-> TRUE]]
    /\ open_set = [node : problem.initialNodes, cv : {Zero}]
    /\ search_graph = [n \in Nodes |-> <<>>] /\ graph_size = 0
    /\ solution_set = <<>>
    /\ curr = [node |-> CHOOSE n \in Nodes : TRUE, cv |-> Zero]  \* not yet declared
    /\ i = 1
    /\ stack = <<>>
    /\ unfound = <<>>
    /\ result = NoResult

-----------------------------------------------------------------------------
moveToClosed(item) == [cost_map EXCEPT ![item.node][item.cv] = FALSE]

\* OpenSet::eraseDominated: the items stay in the cost map, marked as open.
OpenNotDominated(cv) == {o \in open_set : ~ Dominates(cv, o.cv)}

\* A popped goal is a solution, and open walks that cost more are given up.
PopGoal ==
    /\ pc = "loop"
    /\ \E e \in open_set :
          /\ Top(e)
          /\ goal(problem, e.node)
          /\ cost_map' = moveToClosed(e)
          /\ solution_set' = Append(solution_set, e)
          /\ open_set' = OpenNotDominated(e.cv) \ {e}
          /\ curr' = e
    /\ result' = [result EXCEPT !.success = TRUE]
    /\ UNCHANGED <<problem, pc, search_graph, graph_size, i, extracting>>

\* Slip seen by EventuallyReturns: the element is read and not erased.
PeekExpand ==
    /\ pc = "loop"
    /\ \E e \in open_set :
          /\ Top(e)
          /\ ~ goal(problem, e.node)
          /\ cost_map' = moveToClosed(e)
          /\ curr' = e
    /\ pc' = "neighbors"
    /\ i' = 1
    /\ UNCHANGED <<problem, open_set, search_graph, graph_size, solution_set, extracting, result>>

\* Any other popped item is expanded.
PopExpand ==
    /\ pc = "loop"
    /\ \E e \in open_set :
          /\ Top(e)
          /\ ~ goal(problem, e.node)
          /\ cost_map' = moveToClosed(e)
          /\ open_set' = open_set \ {e}
          /\ curr' = e
    /\ pc' = "neighbors"
    /\ i' = 1
    /\ UNCHANGED <<problem, search_graph, graph_size, solution_set, extracting, result>>

-----------------------------------------------------------------------------
MoreNeighbors == i \in DOMAIN neighborEdges(problem, curr.node)
ToNeighbor == neighborEdges(problem, curr.node)[i]
neighbor == ToNeighbor.to
tentative_g_score == gScore(problem, curr.cv, ToNeighbor)
tentative_f_score == Plus(tentative_g_score, hScore(problem, neighbor))

\* CostSet::dominates: the node has a cost that is as good.
DominatedAt(n, c) == \E d \in Costs(n) : dominates(d, c) # "DoesNotDominate"

\* CostSet::eraseDominated.
Erased == {d \in Costs(neighbor) : Dominates(tentative_g_score, d)}

\* Slip seen by SearchStateAgrees: the connections to an erased item stay.
KeptConnections == search_graph

\* onErase: the connections to an erased item go, and its open element.
KeptGraph ==
    [n \in Nodes |->
        Sublist(search_graph[n],
                {e \in Range(search_graph[n]) : ~ (e.edge.to = neighbor /\ e.cv \in Erased)})]

KeptOpen == open_set \ {[node |-> neighbor, cv |-> d] :
                           d \in {d \in Erased : cost_map[neighbor][d]}}

\* Slip seen by TypeOK: source and destination are swapped.
ConnectedBackwards ==
    [KeptGraph EXCEPT ![neighbor] =
        Append(@, [cv |-> tentative_g_score, edge |-> ToNeighbor])]

\* The search graph with the walk's last edge connected.
Connected ==
    [KeptGraph EXCEPT ![curr.node] =
        Append(@, [cv |-> tentative_g_score, edge |-> ToNeighbor])]

\* Graph::connect resizes a graph that is too small for one of the nodes.
Grown ==
    IF curr.node < graph_size /\ neighbor < graph_size THEN graph_size
    ELSE 1 + (IF curr.node > neighbor THEN curr.node ELSE neighbor)

KeptCosts == [d \in Costs(neighbor) \ Erased |-> cost_map[neighbor][d]]

\* Slip seen by ImplementsParetoSearch: the solutions are not consulted.
NeverFiltered == FALSE

\* Some solution is as good as the walk can become.
Filtered == \E k \in DOMAIN solution_set :
               dominates(solution_set[k].cv, tentative_f_score) # "DoesNotDominate"

\* A walk that is no better than one the neighbor has is skipped.
SkipKnown ==
    /\ pc = "neighbors"
    /\ MoreNeighbors
    /\ DominatedAt(neighbor, tentative_g_score)
    /\ i' = i + 1
    /\ UNCHANGED <<problem, pc, cost_map, open_set, search_graph, graph_size, solution_set, curr,
                   extracting, result>>

\* A walk that a solution is as good as is skipped too, after the worse costs
\* of the neighbor were erased.
FilterNeighbor ==
    /\ pc = "neighbors"
    /\ MoreNeighbors
    /\ ~ DominatedAt(neighbor, tentative_g_score)
    /\ Filtered
    /\ cost_map' = [n \in DOMAIN cost_map |->
                       IF n = neighbor THEN KeptCosts ELSE cost_map[n]]
    /\ open_set' = KeptOpen
    /\ search_graph' = KeptGraph
    /\ i' = i + 1
    /\ UNCHANGED <<problem, pc, graph_size, solution_set, curr, extracting, result>>

\* Any other walk replaces the worse costs of the neighbor.
AddNeighbor ==
    /\ pc = "neighbors"
    /\ MoreNeighbors
    /\ ~ DominatedAt(neighbor, tentative_g_score)
    /\ ~ Filtered
    /\ cost_map' = Assign(cost_map, neighbor, Assign(KeptCosts, tentative_g_score, TRUE))
    /\ open_set' = KeptOpen \cup {[node |-> neighbor, cv |-> tentative_g_score]}
    /\ search_graph' = Connected
    /\ graph_size' = Grown
    /\ i' = i + 1
    /\ UNCHANGED <<problem, pc, solution_set, curr, extracting, result>>

EndNeighbors ==
    /\ pc = "neighbors"
    /\ ~ MoreNeighbors
    /\ pc' = "loop"
    /\ UNCHANGED <<problem, searching, extracting, result>>

-----------------------------------------------------------------------------
\* The open set ran empty without a solution.
Fail ==
    /\ pc = "loop"
    /\ open_set = {}
    /\ ~ result.success
    /\ pc' = "returned"
    /\ UNCHANGED <<problem, searching, extracting, result>>

\* Otherwise the paths are extracted, from every initial node.
StartExtraction ==
    /\ pc = "loop"
    /\ open_set = {}
    /\ result.success
    /\ pc' = "extract"
    /\ LET init == SetToSeq(problem.initialNodes)
       IN  stack' = [k \in DOMAIN init |->
                        [node_path |-> <<init[k]>>, edge_path |-> <<>>, cost |-> Zero]]
    /\ unfound' = solution_set
    /\ UNCHANGED <<problem, searching, result>>

curr_path == Last(stack)
curr_node == Last(curr_path.node_path)

MoreStack == stack # <<>> /\ unfound # <<>>

\* The solutions this path is taken for: those of its cost, at whatever goal.
Matching == {k \in DOMAIN unfound : unfound[k].cv = curr_path.cost}

\* A goal reached at the cost of a solution gives that solution its path.
RecordSolution ==
    /\ pc = "extract"
    /\ MoreStack
    /\ goal(problem, curr_node)
    /\ Matching # {}
    /\ result' = [result EXCEPT !.pf = Append(@, curr_path.cost),
                                !.node_paths = Append(@, curr_path.node_path),
                                !.edge_paths = Append(@, curr_path.edge_path)]
    /\ unfound' = RemoveAt(unfound, Min(Matching))
    /\ stack' = Front(stack)
    /\ UNCHANGED <<problem, pc, searching>>

PassGoal ==
    /\ pc = "extract"
    /\ MoreStack
    /\ goal(problem, curr_node)
    /\ Matching = {}
    /\ stack' = Front(stack)
    /\ UNCHANGED <<problem, pc, searching, unfound, result>>

\* Slip seen by EverySolutionHasAPath: a free edge is not followed.
WorthIfDearer(e) == Leq(curr_path.cost, e.cv) /\ curr_path.cost # e.cv

\* Whether the extraction follows a connection: its cost is no less than the
\* path's, and no solution dominates it.  It is not asked whether the cost is
\* that of the path and the edge.
Worth(e) ==
    /\ Leq(curr_path.cost, e.cv)
    /\ \A k \in DOMAIN solution_set : ~ Dominates(solution_set[k].cv, e.cv)

\* children() does not ask whether the graph has the node: an initial node
\* larger than any that was connected is read past the end.
ReadPastGraph ==
    /\ pc = "extract"
    /\ MoreStack
    /\ ~ goal(problem, curr_node)
    /\ curr_node >= graph_size
    /\ pc' = "crashed"
    /\ UNCHANGED <<problem, searching, extracting, result>>

\* Any other node is left by the connections that are worth it - as is one past
\* the end where the memory read there holds no connections.
FollowConnections ==
    /\ pc = "extract"
    /\ MoreStack
    /\ ~ goal(problem, curr_node)
    /\ LET all == search_graph[curr_node]
           followed == Sublist(all, {e \in Range(all) : Worth(e)})
       IN  stack' = Front(stack) \o
                    [k \in DOMAIN followed |->
                        [node_path |-> Append(curr_path.node_path, followed[k].edge.to),
                         edge_path |-> Append(curr_path.edge_path, followed[k].edge),
                         cost      |-> followed[k].cv]]
    /\ UNCHANGED <<problem, pc, searching, unfound, result>>

\* The extraction ends and the result is packaged.
Package ==
    /\ pc = "extract"
    /\ ~ MoreStack
    /\ pc' = "returned"
    /\ result' = [result EXCEPT !.pf = sorted(problem, @),
                                !.node_paths = sorted(problem, @),
                                !.edge_paths = sorted(problem, @)]
    /\ UNCHANGED <<problem, searching, extracting>>

Next ==
    \/ PopGoal
    \/ PopExpand
    \/ SkipKnown
    \/ FilterNeighbor
    \/ AddNeighbor
    \/ EndNeighbors
    \/ Fail
    \/ StartExtraction
    \/ RecordSolution
    \/ PassGoal
    \/ ReadPastGraph
    \/ FollowConnections
    \/ Package

Spec == Init /\ [][Next]_vars

\* search() is a sequential function: while a step is possible it is taken.
FairSpec == Spec /\ WF_vars(Next)

-----------------------------------------------------------------------------
PathToGo == [node_path : Seq(Nodes), edge_path : Seq(Edge), cost : CostVector]

\* Every variable has its type, and a connection of the search graph is an edge
\* of the graph.
TypeOK ==
    /\ problem \in Problems
    /\ pc \in {"loop", "neighbors", "extract", "returned", "crashed"}
    /\ DOMAIN cost_map \subseteq Nodes
    /\ \A n \in DOMAIN cost_map :
          /\ DOMAIN cost_map[n] \subseteq CostVector
          /\ cost_map[n] \in [DOMAIN cost_map[n] -> BOOLEAN]
    /\ open_set \subseteq Item
    /\ search_graph \in [Nodes -> Seq([cv : CostVector, edge : Edge])]
    /\ \A n \in Nodes : \A k \in DOMAIN search_graph[n] :
          search_graph[n][k].edge \in Range(neighborEdges(problem, n))
    /\ graph_size \in Nat
    /\ solution_set \in Seq(Item)
    /\ curr \in Item
    /\ i \in Nat \ {0}
    /\ stack \in Seq(PathToGo)
    /\ unfound \in Seq(Item)
    /\ result \in Result

IsHeld(item) == item.cv \in Costs(item.node)

\* No pointer dangles: what the open set and the solution set point to, and the
\* item being expanded, are still in the cost map, however many items better
\* walks have erased meanwhile.  It takes an admissible heuristic: a goal that
\* is popped too early is erased under the solution set's feet.
NoDanglingCost ==
    /\ \A item \in open_set \cup Range(solution_set) \cup Range(unfound) : IsHeld(item)
    /\ pc = "neighbors" => IsHeld(curr)

\* The items at n reached by the connections of the search graph.
ConnectionsTo(n, c) ==
    UNION {{<<m, k>> : k \in {j \in DOMAIN search_graph[m] :
                                 /\ search_graph[m][j].edge.to = n
                                 /\ search_graph[m][j].cv = c}} : m \in Nodes}

\* The search graph and the cost map tell the same story: every connection
\* points to an item, and every item but those the search started from has
\* exactly one connection.
ConnectionsMatchCosts ==
    /\ \A m \in Nodes : \A k \in DOMAIN search_graph[m] :
          IsHeld([node |-> search_graph[m][k].edge.to, cv |-> search_graph[m][k].cv])
    /\ \A n \in DOMAIN cost_map : \A c \in DOMAIN cost_map[n] :
          Cardinality(ConnectionsTo(n, c)) =
              IF n \in problem.initialNodes /\ c = Zero THEN 0 ELSE 1

\* The costs of a node trade off: none dominates another, which lets the search
\* stop at the first that dominates or equals a new one.
CostSetsNonDominated ==
    \A n \in DOMAIN cost_map : NonDominated(DOMAIN cost_map[n]) = DOMAIN cost_map[n]

\* Every open element's item is marked as open; an item so marked that has left
\* the open set was given up for a solution that dominates it.
OpenFlagsAgree ==
    \A n \in DOMAIN cost_map : \A c \in DOMAIN cost_map[n] :
        LET item == [node |-> n, cv |-> c]
        IN  /\ item \in open_set => cost_map[n][c]
            /\ cost_map[n][c] =>
                  \/ item \in open_set
                  \/ \E k \in DOMAIN solution_set : Dominates(solution_set[k].cv, c)

\* The open set, the solutions, the cost map and the search graph are four views
\* of the same labels; erasing one that is dominated has to leave all of them,
\* and a popped one is moved between two of them (NAMOAStar_impl.hpp:147-167).
SearchStateAgrees ==
    NoDanglingCost /\ ConnectionsMatchCosts /\ CostSetsNonDominated /\ OpenFlagsAgree

\* The extraction finds a path for every solution of the search, although it
\* skips connections that are dominated, and each is a walk of the graph from
\* an initial node to a goal.
EverySolutionHasAPath ==
    pc = "returned" =>
      /\ unfound = <<>>
      /\ Len(result.pf) = Len(solution_set)
      /\ Len(result.node_paths) = Len(result.pf)
      /\ Len(result.edge_paths) = Len(result.pf)
      /\ \A s \in DOMAIN result.pf :
            IsSolution(problem, result.node_paths[s], result.edge_paths[s])

\* The k-th point of the front is what the edges of the k-th solution cost.
PathsExplainCosts ==
    pc = "returned" =>
      \A s \in DOMAIN result.pf : PathCost(result.edge_paths[s]) = result.pf[s]

\* What the search has found, and in the end what the caller learns.
Promise == INSTANCE ParetoSearch
    WITH reported <- IF pc = "returned" THEN Range(result.pf)
                     ELSE {solution_set[k].cv : k \in DOMAIN solution_set},
         done     <- pc = "returned"

\* The search keeps the promise of ParetoSearch under every admissible heuristic,
\* consistent or not, if gScore adds: it finds the Pareto front point by point,
\* and the front it returns is the one it found.
ImplementsParetoSearch == Promise!Spec

\* Every search returns: neither the search nor the extraction walks a free
\* cycle for ever.  All that can end it early is an initial node that the search
\* graph never grew to, larger than any node it connected
\* (NAMOAStar_impl.hpp:228, 255).
EventuallyReturns ==
    <>(\/ pc = "returned"
       \/ pc = "crashed" /\ \E n \in problem.initialNodes : n >= graph_size)
=============================================================================
