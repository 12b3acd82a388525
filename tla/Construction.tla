---------------------------- MODULE Construction ----------------------------
(***************************************************************************)
(* What the construction of a transition system promises, of a task that   *)
(* says which moves there are and where they start: a move is only added   *)
(* from a source or from a state that was found by a move, and the         *)
(* construction ends when no move from these is missing.                   *)
(***************************************************************************)
VARIABLES
    task,     \* [sources : a set of states, moves : a set of [from, action, to]]
    found,    \* the states of the transition system
    moves,    \* its transitions
    finished

vars == <<task, found, moves, finished>>

From == task.sources \union found

Init ==
    /\ found \subseteq task.sources
    /\ moves = {}
    /\ finished = FALSE

Add ==
    /\ ~finished
    /\ \E m \in task.moves \ moves :
           /\ m.from \in From
           /\ found' = found \union {m.from, m.to}
           /\ moves' = moves \union {m}
    /\ UNCHANGED <<task, finished>>

Finish ==
    /\ ~finished
    /\ \A m \in task.moves : m.from \in From => m \in moves
    /\ finished' = TRUE
    /\ UNCHANGED <<task, found, moves>>

Next == Add \/ Finish

Spec == Init /\ [][Next]_vars
=============================================================================
