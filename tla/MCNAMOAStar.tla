----------------------------- MODULE MCNAMOAStar -----------------------------
(***************************************************************************)
(* NAMOAStar on the problems of MCMOProblems whose gScore adds, with       *)
(* heuristics that are consistent and one that is not.                     *)
(***************************************************************************)
EXTENDS NAMOAStar, MCMOProblems

BareProblems ==
    UNION {LET reference == MCReference(adj, goals)
           IN  [adj : {adj}, initialNodes : {{1}, {1, 3}}, goalNodes : {goals},
                h : {Blind(reference)} \cup {Ideal(reference, cap) : cap \in {0, 9}},
                container : {"FixedArray", "TypeGenericArray"},
                reference : {reference}] :
             adj \in Graphs, goals \in {{4}, {2, 4}}}

MCProblems == {p \in BareProblems : Admissible(p) /\ Additive(p)}
=============================================================================
