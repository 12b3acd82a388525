-------------------------------- MODULE AStar --------------------------------
(***************************************************************************)
(* AStar::search and AStar::extractPath, one action per way through the    *)
(* main loop, per neighbor relaxed and per parent followed.                *)
(*                                                                         *)
(* The open set is a std::priority_queue that keeps outdated elements: a   *)
(* node is pushed again whenever its g-score improves, and the element     *)
(* left behind is recognised when it is popped.  Which of several elements *)
(* of the same least f-score is popped first is the queue's choice.  Two   *)
(* elements of a node never have the same g-score, so the queue is a set.  *)
(***************************************************************************)
EXTENDS SearchProblem, SequencesExt

VARIABLES
    problem,     \* the problem search() was called with
    pc,          \* where search() is: "loop", "neighbors", "extract", "returned"
    open_set,    \* OpenSetElements: node and g-score at insertion
    g_score,     \* result.min_cost_map: a map from the nodes labelled so far
    parent_map,  \* result.search_tree: a map from nodes to Connections
    curr_node,   \* the node being expanded
    i,           \* the index of its next neighbor
    result       \* success, cost, and the solution's node and edge path

vars == <<problem, pc, open_set, g_score, parent_map, curr_node, i, result>>

OpenSetElement == [node : Nodes, g_score : Nat]

\* Slip seen by ImplementsOptimalSearch: ordering by the heuristic alone.
GreedyScore(e) == hScore(problem, e.node)

f_score(e) == e.g_score + hScore(problem, e.node)

\* Slip seen by InsertedScoreNotBelowLabel: std::map::emplace does not overwrite.
Emplace(m, k, v) == [x \in DOMAIN m \cup {k} |-> IF x \in DOMAIN m THEN m[x] ELSE v]

\* std::map::insert_or_assign, and m[k] = v.
Assign(m, k, v) == [x \in DOMAIN m \cup {k} |-> IF x = k THEN v ELSE m[x]]

\* The queue is ordered by f_score alone.
Top(e) == e \in open_set /\ \A o \in open_set : f_score(e) <= f_score(o)

NoResult == [success |-> FALSE, cost |-> 0, node_path |-> <<>>, edge_path |-> <<>>]

Init ==
    /\ problem \in Problems
    /\ pc = "loop"
    /\ open_set = {[node |-> n, g_score |-> 0] : n \in problem.initialNodes}
    /\ g_score = [n \in problem.initialNodes |-> 0]
    /\ parent_map = [n \in {} |-> n]
    /\ curr_node = CHOOSE n \in problem.initialNodes : TRUE  \* not yet declared
    /\ i = 1
    /\ result = NoResult

-----------------------------------------------------------------------------
\* The insertion-time g-score does not match the g-score reached since.
Stale(e) == g_score[e.node] < e.g_score

\* A popped element that is outdated is ignored.
SkipStale ==
    /\ pc = "loop"
    /\ \E e \in open_set :
          /\ Top(e)
          /\ Stale(e)
          /\ open_set' = open_set \ {e}
    /\ UNCHANGED <<problem, pc, g_score, parent_map, curr_node, i, result>>

\* A popped goal ends the search: extractPath sets success and cost and
\* starts following the search tree back from the goal.
ReachGoal ==
    /\ pc = "loop"
    /\ \E e \in open_set :
          /\ Top(e)
          /\ ~ Stale(e)
          /\ goal(problem, e.node)
          /\ open_set' = open_set \ {e}
          /\ curr_node' = e.node
          /\ result' = [success |-> TRUE, cost |-> g_score[e.node],
                        node_path |-> <<e.node>>, edge_path |-> <<>>]
    /\ pc' = "extract"
    /\ UNCHANGED <<problem, g_score, parent_map, i>>

\* Any other popped node is expanded.
Expand ==
    /\ pc = "loop"
    /\ \E e \in open_set :
          /\ Top(e)
          /\ ~ Stale(e)
          /\ ~ goal(problem, e.node)
          /\ open_set' = open_set \ {e}
          /\ curr_node' = e.node
    /\ pc' = "neighbors"
    /\ i' = 1
    /\ UNCHANGED <<problem, g_score, parent_map, result>>

\* The edge to the i-th neighbor.  curr_node_g_score is a reference into the
\* map: every iteration reads the value the map holds by then.
ToNeighbor == neighborEdges(problem, curr_node)[i]
tentative_g_score == gScore(g_score[curr_node], ToNeighbor)

MoreNeighbors == i \in DOMAIN neighborEdges(problem, curr_node)

\* Slip seen by TreeBoundsLabels and EventuallyReturns: a tie is no improvement.
ImprovesOrTies ==
    ToNeighbor.to \in DOMAIN g_score => tentative_g_score <= g_score[ToNeighbor.to]

\* A neighbor without a g-score has an infinite one.
Improves == ToNeighbor.to \in DOMAIN g_score => tentative_g_score < g_score[ToNeighbor.to]

\* Slips in the relaxation: the connection names the neighbor as its own parent
\* (seen by TypeOK), a closed node is not reopened (NoLabelForgotten), the
\* first parent is kept when the label improves (PathExplainsCost).
RelaxWith(connection, reopen, keep) ==
    /\ pc = "neighbors"
    /\ MoreNeighbors
    /\ Improves
    /\ parent_map' = IF keep THEN Emplace(parent_map, ToNeighbor.to, connection)
                             ELSE Assign(parent_map, ToNeighbor.to, connection)
    /\ g_score' = Assign(g_score, ToNeighbor.to, tentative_g_score)
    /\ open_set' = IF reopen \/ ToNeighbor.to \notin DOMAIN g_score
                     THEN open_set \cup {[node |-> ToNeighbor.to,
                                          g_score |-> tentative_g_score]}
                     ELSE open_set
    /\ i' = i + 1
    /\ UNCHANGED <<problem, pc, curr_node, result>>
ConnectToNeighbor == [node |-> ToNeighbor.to, edge |-> ToNeighbor]
ConnectToCurrent == [node |-> curr_node, edge |-> ToNeighbor]
RelaxNamingNeighbor == RelaxWith(ConnectToNeighbor, TRUE, FALSE)
RelaxWithoutReopening == RelaxWith(ConnectToCurrent, FALSE, FALSE)
RelaxKeepingParent == RelaxWith(ConnectToCurrent, TRUE, TRUE)

\* A neighbor reached more cheaply than before gets a new parent and a new
\* g-score, and is (re)opened.
Relax ==
    /\ pc = "neighbors"
    /\ MoreNeighbors
    /\ Improves
    /\ parent_map' = Assign(parent_map, ToNeighbor.to,
                            [node |-> curr_node, edge |-> ToNeighbor])
    /\ g_score' = Assign(g_score, ToNeighbor.to, tentative_g_score)
    /\ open_set' = open_set \cup
                     {[node |-> ToNeighbor.to, g_score |-> tentative_g_score]}
    /\ i' = i + 1
    /\ UNCHANGED <<problem, pc, curr_node, result>>

\* A neighbor that is not reached more cheaply is left as it is.
KeepNeighbor ==
    /\ pc = "neighbors"
    /\ MoreNeighbors
    /\ ~ Improves
    /\ i' = i + 1
    /\ UNCHANGED <<problem, pc, open_set, g_score, parent_map, curr_node, result>>

\* Past the last neighbor: back to the loop condition.
EndNeighbors ==
    /\ pc = "neighbors"
    /\ ~ MoreNeighbors
    /\ pc' = "loop"
    /\ UNCHANGED <<problem, open_set, g_score, parent_map, curr_node, i, result>>

\* The open set ran empty: the result is returned as it was constructed.
Fail ==
    /\ pc = "loop"
    /\ open_set = {}
    /\ pc' = "returned"
    /\ UNCHANGED <<problem, open_set, g_score, parent_map, curr_node, i, result>>

\* extractPath appends the parent of the last node and reverses both paths
\* at the end; here each parent goes in front.
FollowParent ==
    /\ pc = "extract"
    /\ curr_node \in DOMAIN parent_map
    /\ curr_node' = parent_map[curr_node].node
    /\ result' = [result EXCEPT
                    !.node_path = <<parent_map[curr_node].node>> \o @,
                    !.edge_path = <<parent_map[curr_node].edge>> \o @]
    /\ UNCHANGED <<problem, pc, open_set, g_score, parent_map, i>>

\* A node without a parent is an initial node: the solution is complete.
EndExtract ==
    /\ pc = "extract"
    /\ curr_node \notin DOMAIN parent_map
    /\ pc' = "returned"
    /\ UNCHANGED <<problem, open_set, g_score, parent_map, curr_node, i, result>>

Next ==
    \/ SkipStale
    \/ ReachGoal
    \/ Expand
    \/ Relax
    \/ KeepNeighbor
    \/ EndNeighbors
    \/ Fail
    \/ FollowParent
    \/ EndExtract

Spec == Init /\ [][Next]_vars

\* search() is a sequential function: while a step is possible it is taken.
FairSpec == Spec /\ WF_vars(Next)

-----------------------------------------------------------------------------
\* Every variable has its type; the search tree holds edges of the graph that
\* lead to the node they are stored for, from a labelled node to a labelled one.
TypeOK ==
    /\ problem \in Problems
    /\ pc \in {"loop", "neighbors", "extract", "returned"}
    /\ open_set \in SUBSET OpenSetElement
    /\ \A e \in open_set : e.node \in DOMAIN g_score
    /\ DOMAIN g_score \in SUBSET Nodes
    /\ g_score \in [DOMAIN g_score -> Nat]
    /\ DOMAIN parent_map \in SUBSET DOMAIN g_score
    /\ parent_map \in [DOMAIN parent_map -> [node : Nodes, edge : Edge]]
    /\ \A n \in DOMAIN parent_map :
          /\ parent_map[n].node \in DOMAIN g_score
          /\ parent_map[n].edge \in Range(neighborEdges(problem, parent_map[n].node))
          /\ parent_map[n].edge.to = n
    /\ curr_node \in DOMAIN g_score
    /\ i \in Nat \ {0}
    /\ result \in [success : BOOLEAN, cost : Nat,
                   node_path : Seq(Nodes), edge_path : Seq(Edge)]

\* ASSERT "Inserted g-score is less than the min_cost_map g-score" (AStar_impl.hpp)
\* never fails: whatever order nodes are reopened in, no element of the open set
\* is cheaper than the label of its node.
InsertedScoreNotBelowLabel ==
    \A e \in open_set : g_score[e.node] <= e.g_score

\* The search tree never promises more than it has: a node's label is at least
\* its parent's label plus the edge between them (the parent may have improved
\* since), and the nodes without a parent are the initial nodes, at cost 0.
\* extractPath relies on it to end in an initial node.
TreeBoundsLabels ==
    /\ \A n \in DOMAIN parent_map :
          g_score[parent_map[n].node] + parent_map[n].edge.cost <= g_score[n]
    /\ \A n \in DOMAIN g_score : n \in problem.initialNodes <=> n \notin DOMAIN parent_map
    /\ \A n \in problem.initialNodes : n \in DOMAIN g_score /\ g_score[n] = 0

\* The edge e out of n has nothing left to offer.
Relaxed(n, e) == e.to \in DOMAIN g_score /\ g_score[e.to] <= g_score[n] + e.cost

\* Nothing found is forgotten: while the search runs, every label waits in the
\* open set, is being expanded, or has been offered to every neighbor since it
\* was last lowered.  Reopening a node after a late improvement must restore
\* this, and skipping an outdated element must not break it.
NoLabelForgotten ==
    pc \in {"loop", "neighbors"} =>
      \A n \in DOMAIN g_score :
         \/ [node |-> n, g_score |-> g_score[n]] \in open_set
         \/ /\ ~ goal(problem, n)
            /\ \A k \in DOMAIN neighborEdges(problem, n) :
                  \/ pc = "neighbors" /\ n = curr_node /\ k >= i
                  \/ Relaxed(n, neighborEdges(problem, n)[k])

PathCost(edges) == FoldLeft(LAMBDA sum, e : sum + e.cost, 0, edges)

\* The solution returned is a walk of the graph from an initial node to a goal,
\* and the cost returned is what its edges cost.  extractPath takes the cost
\* from min_cost_map and the path from search_tree, after labels and parents
\* have been overwritten by many reopenings.
PathExplainsCost ==
    (pc = "returned" /\ result.success) =>
      LET np == result.node_path
          ep == result.edge_path
      IN  /\ Len(np) = Len(ep) + 1
          /\ np[1] \in problem.initialNodes
          /\ goal(problem, Last(np))
          /\ \A k \in 1 .. Len(ep) :
                /\ ep[k] \in Range(neighborEdges(problem, np[k]))
                /\ ep[k].to = np[k + 1]
          /\ PathCost(ep) = result.cost

\* What the caller sees of the search.
answer ==
    [found |-> pc = "returned" /\ result.success,
     final |-> pc = "returned",
     cost  |-> IF pc = "returned" THEN result.cost ELSE 0]

Promise == INSTANCE OptimalSearch

\* The search keeps the promise of OptimalSearch: it returns the least cost of
\* any walk from an initial node to a goal, under any admissible heuristic
\* (consistent or not), fails only if there is none, and answers once.
ImplementsOptimalSearch == Promise!Spec

\* Every search returns: no node is reopened for ever around a cycle of free
\* edges, and following the search tree back never goes round in circles.
EventuallyReturns == <>(pc = "returned")
=============================================================================
