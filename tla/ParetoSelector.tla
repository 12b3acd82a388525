--------------------------- MODULE ParetoSelector ---------------------------
(***************************************************************************)
(* How one point of a Pareto front is picked (ParetoSelector), and the     *)
(* random integers that picks are made with (RNG).  A selector is the set  *)
(* of the indices it may answer.                                           *)
(***************************************************************************)
EXTENDS Integers, FiniteSetsExt, SequencesExt

\* RNG::randi: a remainder brought into lower .. upper - 1.  With no number to
\* choose from it is taken by 0, which has no outcome.
randi(lower, upper) == lower .. upper - 1

uniformRandom(pf) == {1 + i : i \in randi(0, Len(pf))}

\* d_worst and d_best add up from values that were never written: the
\* similarities, and so the least of them, may be any.
TOPSIS(pf) == DOMAIN pf

-----------------------------------------------------------------------------
SumOver(v) == FoldLeft(LAMBDA x, y : x + y, 0, v)

\* The square of the norm scalarWeights divides a cost by.
norm(v) == SumOver([d \in DOMAIN v |-> v[d] * v[d]])

weighted_sum(weights, v) == SumOver([d \in DOMAIN v |-> weights[d] * v[d]])

\* weighted_sum > max_weighted_sum of normalized vectors, without the roots;
\* a cost of zero has no direction and is never above.
Above(weights, v, w) ==
    /\ weighted_sum(weights, v) > 0
    /\ weighted_sum(weights, v) * weighted_sum(weights, v) * norm(w)
         > weighted_sum(weights, w) * weighted_sum(weights, w) * norm(v)

\* max_ind starts at the first point with a weighted sum of 0, which a later
\* point is above as soon as its own is positive.
scalarWeights(pf, weights) ==
    LET Max_ind(best, i) ==
            IF best.sum_is_0
              THEN IF weighted_sum(weights, pf[i]) > 0
                     THEN [sum_is_0 |-> FALSE, max_ind |-> i] ELSE best
              ELSE IF Above(weights, pf[i], pf[best.max_ind])
                     THEN [best EXCEPT !.max_ind = i] ELSE best
    IN  {FoldLeft(Max_ind, [sum_is_0 |-> TRUE, max_ind |-> 1],
                  [i \in DOMAIN pf |-> i]).max_ind}
=============================================================================
