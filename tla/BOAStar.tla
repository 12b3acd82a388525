------------------------------- MODULE BOAStar -------------------------------
(***************************************************************************)
(* BOAStar::search and BOAStar::extractPath, one action per way through    *)
(* the main loop, per neighbor looked at and per parent followed.          *)
(*                                                                         *)
(* BOA* enumerates the walks it finds: an EnumeratedNode is the number of  *)
(* a walk, path_enum_node_map gives it the node the walk ends in and the   *)
(* walk it extends.  Here the numbers start with 1.  Which of several open *)
(* elements of the same lexicographically least f-score is popped first is *)
(* the priority queue's choice.                                            *)
(***************************************************************************)
EXTENDS MOSearchResult

ASSUME TwoObjectives == NObjectives = 2  \* "BOA can only use two objectives"

VARIABLES
    problem,       \* the problem search() was called with
    pc,            \* "loop", "neighbors", "extract", "returned"
    open_set,      \* a set: every element has its own enumerated node
    m_init_nodes,  \* path_enum_node_map: the initial nodes, numbered first,
    m_map,         \* and the values of the other numbers
    g_2_min,       \* a map from the nodes expanded so far
    g_2_min_goal,  \* [set, value]: g_2_min_goal_set and g_2_min_goal
    curr,          \* the element popped last
    i,             \* the index of its next neighbor
    sol,           \* the path being extracted: enumerated node, node and edge path
    result         \* success, pf, and the solution set's node and edge paths

vars == <<problem, pc, open_set, m_init_nodes, m_map, g_2_min, g_2_min_goal,
          curr, i, sol, result>>

isInit(id) == id \in DOMAIN m_init_nodes

getNode(id) == IF isInit(id) THEN m_init_nodes[id] ELSE m_map[id].node

m_next_node == Cardinality(DOMAIN m_init_nodes) + Cardinality(DOMAIN m_map) + 1

f_score(e) == Plus(e.g_score, hScore(problem, getNode(e.node)))

\* Slip seen by ImplementsParetoSearch: the comparator looks at the second
\* objective first.
TopBySecond(e) ==
    e \in open_set /\ \A o \in open_set :
        \/ f_score(e)[2] < f_score(o)[2]
        \/ f_score(e)[2] = f_score(o)[2] /\ f_score(e)[1] <= f_score(o)[1]

\* The queue is ordered by the comparator "less": no element's f-score is
\* lexicographically less than the top's.
Top(e) == e \in open_set /\ \A o \in open_set : ~ LexLess(f_score(o), f_score(e))

Init ==
    /\ problem \in Problems
    /\ pc = "loop"
    /\ m_init_nodes = SetToSeq(problem.initialNodes)
    /\ m_map = [id \in {} |-> id]
    /\ open_set = {[node |-> id, g_score |-> Zero] : id \in DOMAIN m_init_nodes}
    /\ g_2_min = [n \in {} |-> n]
    /\ g_2_min_goal = [set |-> FALSE, value |-> 0]
    /\ curr = [node |-> 1, g_score |-> Zero]          \* not yet declared
    /\ i = 1
    /\ sol = [at |-> 1, node_path |-> <<>>, edge_path |-> <<>>]  \* nor this
    /\ result = NoResult

-----------------------------------------------------------------------------
\* A walk to n of cost c is pruned: n was expanded with as good a second
\* objective, which came with no worse a first one.
PrunedAtNode(n, c) == n \in DOMAIN g_2_min /\ ~ (c[2] < g_2_min[n])

\* A walk of f-score f is pruned: some goal was reached with as good a second
\* objective.
PrunedAtGoal(f) == g_2_min_goal.set /\ ~ (f[2] < g_2_min_goal.value)

Pruned(e) == PrunedAtNode(getNode(e.node), e.g_score) \/ PrunedAtGoal(f_score(e))

\* Slip seen by EventuallyReturns: "continue" comes before the pop.
SkipBeforePop ==
    /\ pc = "loop"
    /\ \E e \in open_set : Top(e) /\ Pruned(e)
    /\ UNCHANGED vars

\* A popped element that has been overtaken is ignored.
SkipPruned ==
    /\ pc = "loop"
    /\ \E e \in open_set :
          /\ Top(e)
          /\ Pruned(e)
          /\ open_set' = open_set \ {e}
    /\ UNCHANGED <<problem, pc, m_init_nodes, m_map, g_2_min, g_2_min_goal,
                   curr, i, sol, result>>

\* A popped goal is a solution: extractPath starts following its parents back.
ReachGoal ==
    /\ pc = "loop"
    /\ \E e \in open_set :
          /\ Top(e)
          /\ ~ Pruned(e)
          /\ goal(problem, getNode(e.node))
          /\ open_set' = open_set \ {e}
          /\ g_2_min' = Assign(g_2_min, getNode(e.node), e.g_score[2])
          /\ curr' = e
          /\ sol' = [at |-> e.node, node_path |-> <<getNode(e.node)>>, edge_path |-> <<>>]
    /\ pc' = "extract"
    /\ result' = [result EXCEPT !.success = TRUE]
    /\ UNCHANGED <<problem, m_init_nodes, m_map, g_2_min_goal, i>>

\* Any other popped element is expanded.
Expand ==
    /\ pc = "loop"
    /\ \E e \in open_set :
          /\ Top(e)
          /\ ~ Pruned(e)
          /\ ~ goal(problem, getNode(e.node))
          /\ open_set' = open_set \ {e}
          /\ g_2_min' = Assign(g_2_min, getNode(e.node), e.g_score[2])
          /\ curr' = e
    /\ pc' = "neighbors"
    /\ i' = 1
    /\ UNCHANGED <<problem, m_init_nodes, m_map, g_2_min_goal, sol, result>>

curr_node == getNode(curr.node)
MoreNeighbors == i \in DOMAIN neighborEdges(problem, curr_node)
ToNeighbor == neighborEdges(problem, curr_node)[i]
tentative_g_score == gScore(problem, curr.g_score, ToNeighbor)

\* The goal is asked about the f-score of the node being expanded, not of the
\* neighbor: it has no effect, since that f-score passed when it was popped.
PruneNeighbor == PrunedAtNode(ToNeighbor.to, tentative_g_score) \/ PrunedAtGoal(f_score(curr))

\* A neighbor that is not pruned becomes the end of a new walk.
NewWalk ==
    /\ pc = "neighbors"
    /\ MoreNeighbors
    /\ ~ PruneNeighbor
    /\ m_map' = Assign(m_map, m_next_node,
                       [node |-> ToNeighbor.to, parent |-> curr.node,
                        parent_edge |-> ToNeighbor])
    /\ open_set' = open_set \cup {[node |-> m_next_node, g_score |-> tentative_g_score]}
    /\ i' = i + 1
    /\ UNCHANGED <<problem, pc, m_init_nodes, g_2_min, g_2_min_goal, curr, sol, result>>

\* A pruned neighbor is skipped.
SkipNeighbor ==
    /\ pc = "neighbors"
    /\ MoreNeighbors
    /\ PruneNeighbor
    /\ i' = i + 1
    /\ UNCHANGED <<problem, pc, open_set, m_init_nodes, m_map, g_2_min, g_2_min_goal,
                   curr, sol, result>>

EndNeighbors ==
    /\ pc = "neighbors"
    /\ ~ MoreNeighbors
    /\ pc' = "loop"
    /\ UNCHANGED <<problem, open_set, m_init_nodes, m_map, g_2_min, g_2_min_goal,
                   curr, i, sol, result>>

\* extractPath appends and reverses at the end; here each parent goes in front.
FollowParent ==
    /\ pc = "extract"
    /\ ~ isInit(sol.at)
    /\ LET value == m_map[sol.at]
       IN  sol' = [at        |-> value.parent,
                   node_path |-> <<getNode(value.parent)>> \o sol.node_path,
                   edge_path |-> <<value.parent_edge>> \o sol.edge_path]
    /\ UNCHANGED <<problem, pc, open_set, m_init_nodes, m_map, g_2_min, g_2_min_goal,
                   curr, i, result>>

\* The solution is complete: it is stored with its cost, and a second
\* objective that is the best of any goal so far is remembered.
StoreSolution ==
    /\ pc = "extract"
    /\ isInit(sol.at)
    /\ pc' = "loop"
    /\ result' = [result EXCEPT !.pf = Append(@, curr.g_score),
                                !.node_paths = Append(@, sol.node_path),
                                !.edge_paths = Append(@, sol.edge_path)]
    /\ g_2_min_goal' = IF ~ g_2_min_goal.set \/ curr.g_score[2] < g_2_min_goal.value
                         THEN [set |-> TRUE, value |-> curr.g_score[2]]
                         ELSE g_2_min_goal
    /\ UNCHANGED <<problem, open_set, m_init_nodes, m_map, g_2_min, curr, i, sol>>

\* Slip seen by PathsExplainCosts: the solutions are not permuted with the front.
PackageFrontOnly ==
    /\ pc = "loop"
    /\ open_set = {}
    /\ pc' = "returned"
    /\ result' = [result EXCEPT !.pf = sorted(problem, @)]
    /\ UNCHANGED <<problem, open_set, m_init_nodes, m_map, g_2_min, g_2_min_goal,
                   curr, i, sol>>

\* The open set ran empty: the result is packaged and returned.
Package ==
    /\ pc = "loop"
    /\ open_set = {}
    /\ pc' = "returned"
    /\ result' = [result EXCEPT !.pf = sorted(problem, @),
                                !.node_paths = sorted(problem, @),
                                !.edge_paths = sorted(problem, @)]
    /\ UNCHANGED <<problem, open_set, m_init_nodes, m_map, g_2_min, g_2_min_goal,
                   curr, i, sol>>

Next ==
    \/ SkipPruned
    \/ ReachGoal
    \/ Expand
    \/ NewWalk
    \/ SkipNeighbor
    \/ EndNeighbors
    \/ FollowParent
    \/ StoreSolution
    \/ Package

Spec == Init /\ [][Next]_vars

\* search() is a sequential function: while a step is possible it is taken.
FairSpec == Spec /\ WF_vars(Next)

-----------------------------------------------------------------------------
\* Walks share their beginnings: each is numbered after the walk it extends, by
\* an edge that leaves where that one ends.  The k-th solution returned is a
\* walk of the graph from an initial node to a goal, and the k-th point of the
\* front is what its edges cost, although the two sequences are permuted
\* separately.
PathsExplainCosts ==
    /\ \A id \in DOMAIN m_map :
          /\ ~ isInit(id) /\ m_map[id].parent < id
          /\ m_map[id].parent_edge \in Range(neighborEdges(problem, getNode(m_map[id].parent)))
          /\ m_map[id].parent_edge.to = m_map[id].node
    /\ pc = "returned" =>
        /\ Len(result.node_paths) = Len(result.pf)
        /\ Len(result.edge_paths) = Len(result.pf)
        /\ result.success <=> result.pf # <<>>
        /\ \A s \in DOMAIN result.pf :
             /\ IsSolution(problem, result.node_paths[s], result.edge_paths[s])
             /\ PathCost(result.edge_paths[s]) = result.pf[s]

\* What the caller learns of the front, point by point.
Promise == INSTANCE ParetoSearch WITH reported <- Range(result.pf),
                                      done <- pc = "returned"

\* The search keeps the promise of ParetoSearch, under a consistent heuristic
\* and a gScore that adds: it reports the Pareto front, each point the moment
\* it is found, and returns when nothing is missing.
ImplementsParetoSearch == Promise!Spec

\* Every search returns: free cycles are not walked for ever.
EventuallyReturns == <>(pc = "returned")
=============================================================================
