---------------------------- MODULE OptimalSearch ----------------------------
(***************************************************************************)
(* What a single-objective search promises its caller: one answer, never   *)
(* taken back, which is the least cost from an initial node to a goal, or  *)
(* a failure when no initial node reaches one.                             *)
(***************************************************************************)
EXTENDS SearchProblem

VARIABLES problem, answer

Pending == [found |-> FALSE, final |-> FALSE, cost |-> 0]
Answer(found, cost) == [found |-> found, final |-> TRUE, cost |-> cost]

\* The initial nodes some walk leads from to a goal.
Solvable(p) == p.initialNodes \cap DOMAIN CostToGo(p).cost

Init ==
    /\ problem \in Problems
    /\ answer = Pending

\* The search finds a cheapest way to a goal.
Find ==
    /\ answer = Pending
    /\ \E s \in Solvable(problem) :
          /\ \A t \in Solvable(problem) :
                CostToGo(problem).cost[s] <= CostToGo(problem).cost[t]
          /\ answer' = Answer(TRUE, CostToGo(problem).cost[s])
    /\ UNCHANGED problem

\* The search reports that there is no way.
GiveUp ==
    /\ answer = Pending
    /\ Solvable(problem) = {}
    /\ answer' = Answer(FALSE, 0)
    /\ UNCHANGED problem

Next == Find \/ GiveUp

Spec == Init /\ [][Next]_<<problem, answer>>
=============================================================================
