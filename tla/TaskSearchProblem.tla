-------------------------- MODULE TaskSearchProblem --------------------------
(***************************************************************************)
(* The search problem of the learner: from a node of the product until     *)
(* enough tasks were completed, at the costs of a behavior handler; what   *)
(* the multi-objective searches answer (ParetoSearch is what they promise, *)
(* and MOSearchResult what they package), and the Pareto regret of a cost. *)
(***************************************************************************)
EXTENDS BehaviorHandler

\* A TaskHistoryNode counts with a uint8_t.
TaskHistoryNode(base_node, n_completed_tasks) ==
    [base_node |-> base_node, n_completed_tasks |-> n_completed_tasks % 256]

\* Slip seen by EveryInstanceDoesItsTasks: a task that stays accepting is counted again.
TasksAccepting(p, src, dst) == Cardinality({a \in DOMAIN p.automata : acc(p, dst, a)})

\* The tasks a step completes: the automata it makes accepting.
TasksCompleted(p, src, dst) ==
    Cardinality({a \in DOMAIN p.automata : ~ acc(p, src, a) /\ acc(p, dst, a)})

\* The product's children and outgoing edges, worked out once.
Expansions ==
    [p \in Products |-> [n \in WideNode(p) |->
        [children |-> children(p, n, post(p, n)), edges |-> outgoingEdges(p, n, post(p, n))]]]

neighbors(p, node) ==
    Mapped(Expansions[p][node.base_node].children,
           LAMBDA child : TaskHistoryNode(child,
                            node.n_completed_tasks + TasksCompleted(p, node.base_node, child)))

neighborEdges(p, node) ==
    Mapped(Expansions[p][node.base_node].edges, LAMBDA e : e.model_edge)

goal(node, completed_tasks_horizon) == node.n_completed_tasks >= completed_tasks_horizon

initial_node(init_node) == TaskHistoryNode(init_node, 0)

-----------------------------------------------------------------------------
(***************************************************************************)
(* Paths.  No search follows a cycle: it costs something, or nothing, and  *)
(* ties are pruned.                                                        *)
(***************************************************************************)
Steps(to, edges) == {[node |-> to[j], edge |-> edges[j]] : j \in DOMAIN to}

StepsFrom(p, node) == Steps(neighbors(p, node), neighborEdges(p, node))

IsPath(p, path) ==
    /\ Len(path.node_path) = Len(path.edge_path) + 1
    /\ \A k \in DOMAIN path.edge_path :
          [node |-> path.node_path[k + 1], edge |-> path.edge_path[k]]
             \in StepsFrom(p, path.node_path[k])

Longer(p, path) ==
    {[node_path |-> Append(path.node_path, x.node), edge_path |-> Append(path.edge_path, x.edge)] :
        x \in {y \in StepsFrom(p, Last(path.node_path)) : y.node \notin Range(path.node_path)}}

\* The paths from init_node that end where the search does, found in as many
\* rounds as there are nodes.
GoalPaths(p, init_node, horizon) ==
    LET Extended(paths, k) ==
            UNION {IF goal(Last(x.node_path), horizon) THEN {x} ELSE Longer(p, x) : x \in paths}
        start == [node_path |-> <<initial_node(init_node)>>, edge_path |-> <<>>]
    IN  FoldLeft(Extended, {start}, [k \in 1 .. Cardinality(WideNode(p)) * horizon |-> k])

\* gScore along a path.
PathCost(p, handler, path) ==
    FoldLeftDomain(LAMBDA sum, k :
                     Costs!Plus(sum, getCostVector(handler, p, path.node_path[k].base_node,
                                                   path.edge_path[k])),
                   Costs!Zero, path.edge_path)

\* getCEQObservationDistribution's mean: the means along a path, convolved.
MeanCost(p, handler, path) ==
    FoldLeftDomain(LAMBDA sum, k :
                     Costs!Plus(sum, posteriorMean(getElement(handler.elements, p,
                                         path.node_path[k].base_node, path.edge_path[k]))),
                   Costs!Zero, path.edge_path)

\* The same under the true behavior, whose cost is the mean of the samples.
TrueCost(p, true_mean, path) ==
    FoldLeftDomain(LAMBDA sum, k :
                     Costs!Plus(sum, getElement(true_mean, p, path.node_path[k].base_node,
                                                path.edge_path[k])),
                   Costs!Zero, path.edge_path)

\* What a search may answer: the nondominated costs as it finds them, and for
\* each a path of that cost.
IsSearchResult(p, init_node, result) ==
    /\ result.solution_set # <<>>
    /\ Len(result.pf) = Len(result.solution_set)
    /\ \A i \in DOMAIN result.solution_set :
          /\ IsPath(p, result.solution_set[i])
          /\ result.solution_set[i].node_path[1] = initial_node(init_node)

\* The front in lexicographic order: the k-th of its points has k - 1 before it.
ParetoFrontOf(costs) ==
    LET front == Costs!NonDominated(costs)
        before(point) == {d \in front : Costs!LexLess(d, point)}
    IN  [k \in 1 .. Cardinality(front) |->
            CHOOSE point \in front : Cardinality(before(point)) = k - 1]

\* Every choice of a path for each point of the front.
Ways(cost, pf) ==
    FoldLeft(LAMBDA chosen, c : {Append(s, x) : s \in chosen, x \in {y \in DOMAIN cost : cost[y] = c}},
             {<<>>}, pf)

AnswersWith(cost, pf) == {[pf |-> pf, solution_set |-> s] : s \in Ways(cost, pf)}

AnswersAmong(cost) == AnswersWith(cost, ParetoFrontOf(Range(cost)))

Answers(p, handler, init_node, horizon) ==
    AnswersAmong([x \in GoalPaths(p, init_node, horizon) |-> PathCost(p, handler, x)])

SearchResults(p, handler, init_node, horizon) ==
    {r \in Answers(p, handler, init_node, horizon) : IsSearchResult(p, init_node, r)}

-----------------------------------------------------------------------------
\* Regret searches with a horizon of one task.
TrueFront(p, true_mean, node) ==
    ParetoFrontOf({TrueCost(p, true_mean, x) : x \in GoalPaths(p, node, 1)})

\* epsilon_i_min
SmallestDifference(point, cv) ==
    IF point[1] - cv[1] < point[2] - cv[2] THEN point[1] - cv[1] ELSE point[2] - cv[2]

Moved(point, epsilon) == [d \in Costs!Objectives |-> point[d] - epsilon]

\* ParetoFront::regret: each point of the front that is no worse moves the
\* point down until it is on a level with it, and the furthest move counts.
regret(pf, point) ==
    FoldLeft(LAMBDA epsilon, cv :
               IF ~ Costs!Leq(cv, point) THEN epsilon
               ELSE LET epsilon_i == SmallestDifference(point, cv)
                    IN  IF Costs!Dominates(Moved(point, epsilon_i), Moved(point, epsilon))
                          THEN epsilon_i ELSE epsilon,
             0, pf)
=============================================================================
