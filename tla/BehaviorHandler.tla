--------------------------- MODULE BehaviorHandler ---------------------------
(***************************************************************************)
(* What a learner knows of the model's costs, and what they are: elements  *)
(* kept per state and action (Storage), an estimate with a confidence      *)
(* bound in each (JointCostArray, UCB, MultivariateGaussianUpdater), and   *)
(* the distribution samples are drawn from (TrueBehavior).                 *)
(*                                                                         *)
(* There are two objectives.  Costs are whole numbers: means are rounded   *)
(* down.  An element that was looked up and holds the default is not told  *)
(* apart from one that is not stored.                                      *)
(***************************************************************************)
EXTENDS Product

CONSTANTS
    DefaultMean,            \* the mean of the estimate before any sample
    ExplorationBonus(_, _)  \* of the visits of all elements, and of one

Costs == INSTANCE ObjectiveContainers WITH NObjectives <- 2

ASSUME BehaviorAssumption ==
    /\ DefaultMean \in Costs!CostVector
    /\ \A k, n \in 0 .. 3 :
          /\ ExplorationBonus(k, n) \in Nat
          /\ ExplorationBonus(0, n) = 0  \* the logarithm of 0 + 1
          /\ ExplorationBonus(k, n + 1) <= ExplorationBonus(k, n)
          /\ ExplorationBonus(k, n) <= ExplorationBonus(k + 1, n)

-----------------------------------------------------------------------------
\* An element of the handler: the UCB's m_n, and the sample set's sum (its
\* average is kept by the code; the two determine each other).
JointCostArray == [m_n : Nat, sum : Costs!CostVector]

Fresh == [m_n |-> 0, sum |-> Costs!Zero]

\* m_niw.posterior(m_sample_set).mu, with kappa = 1.
posteriorMean(array) ==
    [d \in Costs!Objectives |-> (DefaultMean[d] + array.sum[d]) \div (1 + array.m_n)]

\* Slip seen by BooksBalance: the sample replaces what the set was worth.
PulledOver(array, sample) == [m_n |-> array.m_n + 1, sum |-> sample]

pull(array, sample) == [m_n |-> array.m_n + 1, sum |-> Costs!Plus(array.sum, sample)]

\* getRectifiedCost: the lower confidence bound, and no less than 0.
getRectifiedCost(mean, m_n, state_visits) ==
    LET bound == mean - ExplorationBonus(state_visits, m_n)
    IN  IF bound > 0 THEN bound ELSE 0

getRectifiedUCBVector(array, state_visits) ==
    [d \in Costs!Objectives |-> getRectifiedCost(posteriorMean(array)[d], array.m_n, state_visits)]

-----------------------------------------------------------------------------
\* The states and actions elements are kept for.
NodeActionPair(p) == {<<c.src, c.edge>> : c \in Range(p.model.connections)}

\* A handler: its elements, and the number of all visits.
Handler(p) ==
    [elements : [NodeActionPair(p) -> JointCostArray], m_state_visits : Nat]

NewHandler(p) == [elements |-> [pair \in NodeActionPair(p) |-> Fresh], m_state_visits |-> 0]

ts_node(p, node) == unwrap(p, node)[1]

getElement(elements, p, node, action) == elements[<<ts_node(p, node), action>>]

getCostVector(handler, p, src_node, action) ==
    getRectifiedUCBVector(getElement(handler.elements, p, src_node, action),
                          handler.m_state_visits)

\* Slip seen by StepsAreVisits: only the first visit of an element counts.
VisitOnce(handler, p, node, action, sample) ==
    [elements |-> [handler.elements EXCEPT ![<<ts_node(p, node), action>>] = pull(@, sample)],
     m_state_visits |-> handler.m_state_visits
                        + (IF handler.elements[<<ts_node(p, node), action>>].m_n = 0 THEN 1 ELSE 0)]

visit(handler, p, node, action, sample) ==
    [elements |-> [handler.elements EXCEPT ![<<ts_node(p, node), action>>] = pull(@, sample)],
     m_state_visits |-> handler.m_state_visits + 1]

-----------------------------------------------------------------------------
(***************************************************************************)
(* GridWorldTrueBehavior: a configuration is the mean by default and the   *)
(* regions in the order of the file, each with the model's nodes that are  *)
(* its cells (cells the model does not have are passed over) and its mean; *)
(* a region without one has no PRL Cost Mean.                              *)
(***************************************************************************)

\* dist.convolveWith(region_dist) on every action that leaves the cell; the
\* element is looked up, changed and stored once per outgoing edge.
Convolved(p, true_mean, cell, mean) ==
    FoldLeft(LAMBDA m, c : [m EXCEPT ![<<cell, c.edge>>] = Costs!Plus(@, mean)],
             true_mean, outgoing(p.model, cell))

deserializeConfig(p, config) ==
    FoldLeft(LAMBDA m, region :
                IF region.mean = <<>> THEN m
                ELSE FoldLeft(LAMBDA n, cell : Convolved(p, n, cell, region.mean), m, region.cells),
             [pair \in NodeActionPair(p) |-> config.default], config.regions)
=============================================================================
