---------------------------- MODULE ParetoSearch ----------------------------
(***************************************************************************)
(* What a multi-objective search promises its caller: the Pareto front of  *)
(* the problem.  Every point reported belongs to it, none is reported      *)
(* twice or taken back, and the search ends when it has reported them all. *)
(***************************************************************************)
EXTENDS MOSearchProblem

VARIABLES problem, reported, done

Init ==
    /\ problem \in Problems
    /\ reported = {}
    /\ done = FALSE

\* The search reports a point of the front.
Report ==
    /\ ~ done
    /\ \E c \in ParetoFrontOf(problem) \ reported : reported' = reported \cup {c}
    /\ UNCHANGED <<problem, done>>

\* Nothing is left to report.
Finish ==
    /\ ~ done
    /\ reported = ParetoFrontOf(problem)
    /\ done' = TRUE
    /\ UNCHANGED <<problem, reported>>

Next == Report \/ Finish

Spec == Init /\ [][Next]_<<problem, reported, done>>
=============================================================================
