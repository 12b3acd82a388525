--------------------------- MODULE MOSearchProblem ---------------------------
(***************************************************************************)
(* The search problem a multi-objective search is called with, like        *)
(* SearchProblem with cost vectors: p.container is the container they are  *)
(* held in.                                                                *)
(*                                                                         *)
(* ParetoToGo is not in the code.  It is the reference the searches are    *)
(* judged by: for each problem and node, the nondominated costs of the     *)
(* walks to a goal, each with the number of edges of such a walk.          *)
(***************************************************************************)
EXTENDS ObjectiveContainers, FiniteSets, Sequences

CONSTANTS
    Nodes,         \* the nodes of the graph
    Problems,      \* the problems search() may be called with
    ParetoToGo(_)  \* the reference solution of each problem

Edge == [to : Nodes, cost : CostVector]

neighborEdges(p, n) == p.adj[n]

goal(p, n) == n \in p.goalNodes

gScore(p, parentScore, edge) ==
    IF p.container = "FixedArray" THEN Plus(parentScore, edge.cost)
                                  ELSE PlusUntilZero(parentScore, edge.cost)

hScore(p, n) == p.h[n]

IsProblem(p) ==
    /\ p.adj \in [Nodes -> Seq(Edge)]
    /\ p.initialNodes \in SUBSET Nodes
    /\ IsFiniteSet(p.initialNodes)     \* a vector in the code
    /\ p.goalNodes \in SUBSET Nodes
    /\ p.h \in [Nodes -> CostVector]
    /\ p.container \in {"FixedArray", "TypeGenericArray"}

-----------------------------------------------------------------------------
IsParetoToGo(p, D) ==
    /\ D \in [Nodes -> SUBSET [cost : CostVector, hops : Nat]]
    /\ \A n \in p.goalNodes : \A c \in D[n] : c.cost = Zero
    /\ \A n \in p.goalNodes : D[n] # {}
    \* every cost is there once, and none of them dominates another
    /\ \A n \in Nodes : \A c, d \in D[n] : Leq(c.cost, d.cost) => c = d
    \* no edge leads to something better than the reference has
    /\ \A n \in Nodes : \A k \in DOMAIN p.adj[n] : \A c \in D[p.adj[n][k].to] :
          \E d \in D[n] : Leq(d.cost, Plus(p.adj[n][k].cost, c.cost))
    \* and an edge attains each cost, one hop nearer to a goal
    /\ \A n \in Nodes \ p.goalNodes : \A d \in D[n] :
          \E k \in DOMAIN p.adj[n] : \E c \in D[p.adj[n][k].to] :
              /\ d.cost = Plus(p.adj[n][k].cost, c.cost)
              /\ c.hops < d.hops

\* The costs of the walks from n to a goal that none dominates.
CostsToGo(p, n) == {c.cost : c \in ParetoToGo(p)[n]}

\* The Pareto front of the problem.
ParetoFrontOf(p) == NonDominated(UNION {CostsToGo(p, n) : n \in p.initialNodes})

\* "Must be an admissible heuristic": MultiObjectiveSearchProblem.h.
Admissible(p) == \A n \in Nodes : \A c \in CostsToGo(p, n) : Leq(hScore(p, n), c)

\* No edge and no goal is worth less than the heuristic falls along it.
Consistent(p) ==
    /\ \A n \in p.goalNodes : hScore(p, n) = Zero
    /\ \A n \in Nodes : \A k \in DOMAIN p.adj[n] :
          Leq(hScore(p, n), Plus(p.adj[n][k].cost, hScore(p, p.adj[n][k].to)))

\* gScore adds: the container's operator+ does, or no sum of a component but
\* the last is ever zero.
Additive(p) ==
    \/ p.container = "FixedArray"
    \/ \A n \in Nodes : \A j \in DOMAIN p.adj[n] :
          \A k \in Objectives \ {NObjectives} : p.adj[n][j].cost[k] > 0

ASSUME MOProblemAssumption ==
    \A p \in Problems :
        /\ IsProblem(p)
        /\ IsParetoToGo(p, ParetoToGo(p))
        /\ Admissible(p)
=============================================================================
