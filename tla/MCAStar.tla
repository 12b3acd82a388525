------------------------------- MODULE MCAStar -------------------------------
(***************************************************************************)
(* AStar on every problem of a family of graphs with four nodes: two ways  *)
(* from 1 to 2 (one through 3, so that 2 may be reached dear first and     *)
(* reopened), parallel edges from 2 to 4, a loop at 3, and cycles that may *)
(* be free.  Every admissible heuristic with values 0, 1 and 3 is tried,   *)
(* the inconsistent ones included; some problems have no solution.         *)
(***************************************************************************)
EXTENDS AStar, Naturals, FiniteSets

MCNodes == 1 .. 4

\* An edge that is there at one of the costs, or not there.
Option(to, costs) == {<<>>} \cup {<<[to |-> to, cost |-> c]>> : c \in costs}
Sure(to, costs) == {<<[to |-> to, cost |-> c]>> : c \in costs}

Graphs ==
    {[n \in MCNodes |-> CASE n = 1 -> a \o b
                          [] n = 2 -> c \o d \o e
                          [] n = 3 -> f \o g
                          [] n = 4 -> <<>>] :
        a \in Sure(2, {1, 4}), b \in Sure(3, {1}),
        c \in Option(4, {3}), d \in Option(1, {0}), e \in Option(4, {1}),
        f \in Option(2, {0, 1}), g \in Option(4, {5}) \cup Sure(3, {0})}

-----------------------------------------------------------------------------
(***************************************************************************)
(* The reference: with four nodes a cheapest walk needs three moves, where *)
(* a move follows an edge or stays.  Far is more than any such walk costs. *)
(***************************************************************************)
Far == 99

Least(S) == CHOOSE x \in S : \A y \in S : x <= y

Move(adj, n, m) ==
    Least({Far} \cup {0 : x \in {n} \cap {m}} \cup
          {adj[n][k].cost : k \in {j \in DOMAIN adj[n] : adj[n][j].to = m}})

Moved(n, m) == IF n = m THEN 0 ELSE 1

MCReference(adj, goals) ==
    LET walks(n) ==
          {[cost |-> Move(adj, n, x) + Move(adj, x, y) + Move(adj, y, z),
            hops |-> Moved(n, x) + Moved(x, y) + Moved(y, z)] :
              x \in MCNodes, y \in MCNodes, z \in goals}
        cost(n) == Least({w.cost : w \in walks(n)})
        hops(n) == Least({w.hops : w \in {v \in walks(n) : v.cost = cost(n)}})
        reaching == {n \in MCNodes : cost(n) < Far}
    IN  [cost |-> [n \in reaching |-> cost(n)], hops |-> [n \in reaching |-> hops(n)]]

\* The family carries each problem's reference along with the problem.
MCCostToGo(p) == p.reference

BareProblems ==
    UNION {LET reference == MCReference(adj, goals)
           IN  [adj : {adj}, initialNodes : {{1}, {1, 3}}, goalNodes : {goals},
                h : [MCNodes -> {0, 1, 3}], reference : {reference}] :
             adj \in Graphs, goals \in {{4}, {2, 4}}}

MCProblems == {p \in BareProblems : Admissible(p, p.reference)}
=============================================================================
