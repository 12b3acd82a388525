---------------------------- MODULE MCMOProblems ----------------------------
(***************************************************************************)
(* Bounded problems for the multi-objective searches: a family of graphs   *)
(* with four nodes: two ways from 1 to 2, one through 3, a cycle between 2 *)
(* and 3 that may be free, parallel edges from 2 to 4, and up to three     *)
(* points on the front.                                                    *)
(***************************************************************************)
EXTENDS ObjectiveContainers, Sequences, TLC

MCNodes == 1 .. 4

Option(to, costs) == {<<>>} \cup {<<[to |-> to, cost |-> c]>> : c \in costs}
Sure(to, costs) == {<<[to |-> to, cost |-> c]>> : c \in costs}

Graphs ==
    {[n \in MCNodes |-> CASE n = 1 -> a \o b
                          [] n = 2 -> c \o d \o e
                          [] n = 3 -> f \o g
                          [] n = 4 -> <<>>] :
        a \in Sure(2, {<<1, 2>>, <<2, 1>>, <<0, 3>>}), b \in Sure(3, {<<1, 0>>}),
        c \in Option(4, {<<1, 2>>}), d \in Option(3, {<<0, 0>>, <<1, 0>>}),
        e \in Option(4, {<<2, 1>>, <<1, 2>>}),
        f \in Option(2, {<<0, 0>>, <<1, 0>>, <<1, 2>>, <<0, 2>>}),
        g \in Option(4, {<<3, 1>>, <<0, 6>>})}

-----------------------------------------------------------------------------
(***************************************************************************)
(* The reference, in three rounds from the goals backwards: a nondominated *)
(* walk in a graph with four nodes has at most three edges.                *)
(***************************************************************************)
Best(S) ==
    {x \in S : \A y \in S : /\ ~ Dominates(y.cost, x.cost)
                            /\ y.cost = x.cost => x.hops <= y.hops}

Round0(goals, n) == {[cost |-> Zero, hops |-> 0] : x \in goals \cap {n}}

Extended(adj, D, n) ==
    Best(D[n] \cup
         UNION {{[cost |-> Plus(adj[n][k].cost, c.cost), hops |-> c.hops + 1] :
                    c \in D[adj[n][k].to]} : k \in DOMAIN adj[n]})

OnFour(F(_)) == 1 :> F(1) @@ 2 :> F(2) @@ 3 :> F(3) @@ 4 :> F(4)

MCReference(adj, goals) ==
    LET D0 == OnFour(LAMBDA n : Round0(goals, n))
        D1 == OnFour(LAMBDA n : Extended(adj, D0, n))
        D2 == OnFour(LAMBDA n : Extended(adj, D1, n))
    IN  OnFour(LAMBDA n : Extended(adj, D2, n))

\* The family carries each problem's reference along with the problem.
MCParetoToGo(p) == p.reference

-----------------------------------------------------------------------------
(***************************************************************************)
(* Heuristics: none, the component-wise least cost to go, and that with    *)
(* what exceeds 1 cut off.  All are consistent; a node that reaches no     *)
(* goal gets the value its successors allow.                               *)
(***************************************************************************)
Least(S) == CHOOSE x \in S : \A y \in S : x <= y

Ideal(reference, cap) ==
    [n \in MCNodes |-> [k \in 1 .. 2 |->
        Least({cap} \cup {c.cost[k] : c \in reference[n]})]]

\* Admissible and not consistent: node 3 knows what it costs to reach a goal,
\* the others know nothing.
Blind(reference) ==
    [n \in MCNodes |-> IF n = 3 THEN Ideal(reference, 9)[n] ELSE <<0, 0>>]
=============================================================================
