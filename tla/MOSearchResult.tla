--------------------------- MODULE MOSearchResult ---------------------------
(***************************************************************************)
(* MultiObjectiveSearchResult, which both multi-objective searches fill    *)
(* and package: pf is the Pareto front, the solution set is kept as its    *)
(* node paths and its edge paths.                                          *)
(***************************************************************************)
EXTENDS MOSearchProblem, SequencesExt

Result == [success : BOOLEAN, pf : Seq(CostVector),
           node_paths : Seq(Seq(Nodes)), edge_paths : Seq(Seq(Edge))]

NoResult == [success |-> FALSE, pf |-> <<>>, node_paths |-> <<>>, edge_paths |-> <<>>]

\* pf.sort() and applyPermutation.  getSortedPermutation compares every element
\* with itself, so one answer is given for any two: "not less" for FixedArray,
\* "less" for TypeGenericArray.  Up to 16 elements std::sort inserts one by one:
\* they stay where they are, or each goes to the front.
sorted(p, s) == IF p.container = "FixedArray" THEN s ELSE Reverse(s)

-----------------------------------------------------------------------------
\* m[k] = v, whether or not the map m holds k.
Assign(m, k, v) == [x \in DOMAIN m \cup {k} |-> IF x = k THEN v ELSE m[x]]

\* The elements of a list that are in S, in their order.
Sublist(list, S) ==
    FoldLeft(LAMBDA kept, x : IF x \in S THEN Append(kept, x) ELSE kept, <<>>, list)

PathCost(edges) == FoldLeft(LAMBDA sum, e : Plus(sum, e.cost), Zero, edges)

\* The two paths are those of one walk of the graph, from an initial node to a
\* goal.
IsSolution(p, np, ep) ==
    /\ Len(np) = Len(ep) + 1
    /\ np[1] \in p.initialNodes
    /\ goal(p, Last(np))
    /\ \A k \in DOMAIN ep :
          /\ ep[k] \in Range(neighborEdges(p, np[k]))
          /\ ep[k].to = np[k + 1]
=============================================================================
