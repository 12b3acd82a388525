------------------------------ MODULE MCBOAStar ------------------------------
(***************************************************************************)
(* BOAStar on the problems of MCMOProblems whose heuristic is consistent   *)
(* and whose gScore adds.                                                  *)
(***************************************************************************)
EXTENDS BOAStar, MCMOProblems

BareProblems ==
    UNION {LET reference == MCReference(adj, goals)
           IN  [adj : {adj}, initialNodes : {{1}, {1, 3}}, goalNodes : {goals},
                h : {Ideal(reference, cap) : cap \in {0, 1, 9}},
                container : {"FixedArray", "TypeGenericArray"},
                reference : {reference}] :
             adj \in Graphs, goals \in {{4}, {2, 4}}}

MCProblems == {p \in BareProblems : Consistent(p) /\ Additive(p)}
=============================================================================
