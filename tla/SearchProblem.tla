---------------------------- MODULE SearchProblem ----------------------------
(***************************************************************************)
(* The search problem a single-objective search is called with: the        *)
(* explicit graph behind neighbors() and neighborEdges(), the initial node *)
(* set, the goal condition and the heuristic.  A cost is a natural number: *)
(* the searches only add costs and compare them.                           *)
(*                                                                         *)
(* CostToGo is not in the code.  It is the reference the searches are      *)
(* judged by: for each problem, the least cost of a walk to a goal from    *)
(* every node that has one, with the number of edges of such a walk.       *)
(* IsCostToGo says what makes it that, so any instance can be checked.     *)
(***************************************************************************)
EXTENDS Naturals, Sequences

CONSTANTS
    Nodes,       \* the nodes of the graph
    Problems,    \* the problems search() may be called with
    CostToGo(_)  \* the reference solution of each problem

Edge == [to : Nodes, cost : Nat]

\* children(n) and outgoingEdges(n) are parallel vectors: one sequence of
\* edges, each with the child it leads to.
neighborEdges(p, n) == p.adj[n]

goal(p, n) == n \in p.goalNodes

gScore(parentScore, edge) == parentScore + edge.cost

hScore(p, n) == p.h[n]

IsProblem(p) ==
    /\ p.adj \in [Nodes -> Seq(Edge)]
    /\ p.initialNodes \in SUBSET Nodes
    /\ p.initialNodes # {}             \* "Must supply at least one initial node"
    /\ p.goalNodes \in SUBSET Nodes
    /\ p.h \in [Nodes -> Nat]

-----------------------------------------------------------------------------
(***************************************************************************)
(* d.cost[n] is the least cost from n to a goal, d.hops[n] the edges of a  *)
(* cheapest walk; a node outside the domain reaches no goal.               *)
(***************************************************************************)
IsCostToGo(p, d) ==
    LET Reaching == DOMAIN d.cost
    IN  /\ Reaching \in SUBSET Nodes
        /\ d.cost \in [Reaching -> Nat]
        /\ d.hops \in [Reaching -> Nat]
        /\ p.goalNodes \subseteq Reaching
        /\ \A n \in p.goalNodes : d.cost[n] = 0
        \* no edge leads to something cheaper than the reference says
        /\ \A n \in Nodes : \A k \in DOMAIN p.adj[n] :
              p.adj[n][k].to \in Reaching =>
                 /\ n \in Reaching
                 /\ d.cost[n] <= p.adj[n][k].cost + d.cost[p.adj[n][k].to]
        \* and an edge attains it, one hop nearer to a goal
        /\ \A n \in Reaching \ p.goalNodes : \E k \in DOMAIN p.adj[n] :
              /\ p.adj[n][k].to \in Reaching
              /\ d.cost[n] = p.adj[n][k].cost + d.cost[p.adj[n][k].to]
              /\ d.hops[p.adj[n][k].to] < d.hops[n]

\* "Must be an admissible heuristic (single objective: underestimates the
\* min-cost-go)": SearchProblem.h.
Admissible(p, d) == \A n \in DOMAIN d.cost : p.h[n] <= d.cost[n]

ASSUME ProblemAssumption ==
    \A p \in Problems :
        /\ IsProblem(p)
        /\ IsCostToGo(p, CostToGo(p))
        /\ Admissible(p, CostToGo(p))
=============================================================================
