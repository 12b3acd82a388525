------------------------- MODULE ObjectiveContainers -------------------------
(***************************************************************************)
(* The cost vectors of the multi-objective searches: the operations of     *)
(* Containers::FixedArray and Containers::TypeGenericArray that the        *)
(* searches use.  A component is a natural number.                         *)
(***************************************************************************)
EXTENDS Naturals

CONSTANT NObjectives  \* the containers' size()

ASSUME ObjectivesAssumption == NObjectives \in Nat \ {0}

Objectives == 1 .. NObjectives

CostVector == [Objectives -> Nat]

\* A container's default value: "must be the respective 'zero' value".
Zero == [k \in Objectives |-> 0]

\* operator<= is true of every component.
Leq(c, d) == \A k \in Objectives : c[k] <= d[k]

\* ArrayComparison::Dominates, DoesNotDominate and Equal.
dominates(c, d) ==
    IF ~ Leq(c, d) THEN "DoesNotDominate" ELSE IF c = d THEN "Equal" ELSE "Dominates"

Dominates(c, d) == dominates(c, d) = "Dominates"

\* The strict order both lexicographicLess define on vectors that differ.
LexLess(c, d) ==
    \E k \in Objectives :
        /\ c[k] < d[k]
        /\ \A j \in 1 .. k - 1 : c[j] = d[j]

\* operator+= of both containers, and operator+ of FixedArray.
Plus(c, d) == [k \in Objectives |-> c[k] + d[k]]

\* operator+ of TypeGenericArray.  The lambda given to forEachWithI returns
\* the sum it stored, and forEachWithI stops at the first lambda that returns
\* false: the components after a zero sum keep their default value.
PlusUntilZero(c, d) ==
    [k \in Objectives |-> IF \E j \in 1 .. k - 1 : c[j] + d[j] = 0 THEN 0 ELSE c[k] + d[k]]

\* The vectors of S that no vector of S dominates.
NonDominated(S) == {c \in S : \A d \in S : ~ Dominates(d, c)}
=============================================================================
