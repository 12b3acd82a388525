------------------------------- MODULE Learner -------------------------------
(***************************************************************************)
(* Learner::run: an instance plans with the lower confidence bounds of the *)
(* costs seen so far, selects one of the Pareto-optimal plans, executes it *)
(* on the true behavior, and leaves its data with the DataCollector, which *)
(* asks Regret how far from optimal it was.                                *)
(*                                                                         *)
(* Sequences start with 1 here: selected_ind and selected_plan_index are   *)
(* one more than in the code.                                              *)
(***************************************************************************)
EXTENDS TaskSearchProblem, ParetoSelector, GaussianEFE

CONSTANTS
    CompletedTasksHorizon,  \* the handler's m_completed_tasks_horizon
    Noise                   \* how far a sample may be from its mean

ASSUME LearnerAssumption ==
    /\ CompletedTasksHorizon \in 1 .. 255
    /\ Noise \subseteq [Costs!Objectives -> Int] /\ Noise # {}

VARIABLES
    phase,                   \* where the program is
    m_product,               \* the product, which never changes
    m_preference,            \* p_ev.mu, which never changes
    m_true_behavior,         \* the means of GridWorldTrueBehavior, which never change
    m_behavior_handler,
    m_current_product_node,
    m_num_instances,
    result,                  \* the search result
    selected_ind,
    step,                    \* the actions of the plan executed so far
    candidate,               \* the candidate selectAif evaluates
    best                     \* its min_ind and min_efe so far

learner_vars == <<m_product, m_preference, m_true_behavior, m_behavior_handler, m_current_product_node,
                  m_num_instances, result, selected_ind, step, candidate, best>>

VARIABLES
    m_buffer_instance,       \* the DataCollector's
    m_instances,
    m_cumulative_cost,
    m_steps,
    m_pareto_front_cache     \* Regret's, as a set of nodes and fronts

data_vars == <<m_buffer_instance, m_instances, m_cumulative_cost, m_steps, m_pareto_front_cache>>

-----------------------------------------------------------------------------
\* DataCollector::Instance
NewInstance ==
    [paths |-> <<>>, ucb_pf |-> <<>>, trajectory_distributions |-> <<>>,
     selected_plan_index |-> 1, cost_sample |-> Costs!Zero, m_regret |-> <<0, FALSE>>]

NoResult == [pf |-> <<>>, solution_set |-> <<>>]

\* The means of getCEQObservationDistribution, of every candidate.
convertParetoFrontUCBToMean(search_result) ==
    Mapped(search_result.solution_set, LAMBDA x : MeanCost(m_product, m_behavior_handler, x))

plan == result.solution_set[selected_ind]

\* The first initial node of every automaton, with the model's.
init_product_node(p, init_model_node) ==
    wrap(p, <<init_model_node>> \o [a \in DOMAIN p.automata |-> p.automata[a].init[1]])

\* A new learner on the product p, at the initial nodes of its automata, and
\* the data collector and regret handler made with it.
initialize(p, init_model_node) ==
    /\ m_current_product_node' = init_product_node(p, init_model_node)
    /\ m_behavior_handler' = NewHandler(p)
    /\ m_num_instances' = 0
    /\ result' = NoResult /\ selected_ind' = 1 /\ step' = 0
    /\ candidate' = 0 /\ best' = [min_ind |-> 1, min_efe |-> 0]
    /\ m_buffer_instance' = NewInstance /\ m_instances' = <<>>
    /\ m_cumulative_cost' = Costs!Zero /\ m_steps' = 0
    /\ m_pareto_front_cache' = {}

-----------------------------------------------------------------------------
\* run(): another instance is planned, and the planner succeeds.
Search(max_instances) ==
    /\ phase = "planning" /\ m_num_instances < max_instances
    /\ result' \in SearchResults(m_product, m_behavior_handler, m_current_product_node,
                                 CompletedTasksHorizon)
    /\ phase' = "selecting"
    /\ UNCHANGED <<m_product, m_preference, m_true_behavior, m_behavior_handler, m_current_product_node,
                   m_num_instances, selected_ind, step, candidate, best>>
    /\ UNCHANGED <<data_vars, efe_vars>>

\* run() returns: false if no plan completes enough tasks, true after the last
\* instance.
StopRunning(max_instances) ==
    /\ phase = "planning"
    /\ \/ m_num_instances >= max_instances
       \/ GoalPaths(m_product, m_current_product_node, CompletedTasksHorizon) = {}
    /\ phase' = "reporting"
    /\ UNCHANGED <<learner_vars, data_vars, efe_vars>>

\* The trajectory distributions are recorded before the plan changes them.
HoldDistributions(ind) ==
    /\ selected_ind' = ind
    /\ step' = 0
    /\ m_buffer_instance' = [m_buffer_instance EXCEPT
            !.trajectory_distributions = convertParetoFrontUCBToMean(result)]
    /\ phase' = "executing"

\* The selectors that look at the means only.
Select(selector) ==
    LET mean_pf == convertParetoFrontUCBToMean(result)
    IN  /\ phase = "selecting"
        /\ \/ selector = "uniform" /\ \E ind \in uniformRandom(mean_pf) : HoldDistributions(ind)
           \/ selector = "topsis" /\ \E ind \in TOPSIS(mean_pf) : HoldDistributions(ind)
           \/ selector = "weights" /\ \E d \in Costs!Objectives : m_preference[d] > 0
              /\ \E ind \in scalarWeights(mean_pf, m_preference) : HoldDistributions(ind)
        /\ UNCHANGED <<m_product, m_preference, m_true_behavior, m_behavior_handler, m_current_product_node,
                       m_num_instances, result, candidate, best>>
        /\ UNCHANGED <<m_instances, m_cumulative_cost, m_steps, m_pareto_front_cache, efe_vars>>

-----------------------------------------------------------------------------
\* selectAif starts the evaluation of the first candidate, or the next.
Evaluate(selector, n_efe_samples) ==
    /\ \/ phase = "selecting" /\ selector = "aif" /\ candidate' = 1
       \/ phase = "compared" /\ candidate < Len(result.solution_set) /\ candidate' = candidate + 1
    /\ Calculate(n_efe_samples)
    /\ phase' = "evaluating"
    /\ UNCHANGED <<m_product, m_preference, m_true_behavior, m_behavior_handler, m_current_product_node,
                   m_num_instances, result, selected_ind, step, best, data_vars>>

\* The caller's side of an evaluation, and a worker's.
Await ==
    /\ phase = "evaluating"
    /\ Launch \/ Join
    /\ UNCHANGED <<phase, learner_vars, data_vars>>

Work(t) ==
    /\ phase = "evaluating"
    /\ DrawSample(t) \/ ReturnSum(t)
    /\ UNCHANGED <<phase, learner_vars, data_vars>>

\* Without samples the free energy is not a number, and no later one is less.
Compare(n_efe_samples) ==
    LET mean == convertParetoFrontUCBToMean(result)[candidate]
        this == [min_ind |-> candidate, min_efe |-> efe(m_preference, mean, n_efe_samples)]
    IN  /\ phase = "evaluating" /\ AllJoined
        /\ best' = IF \/ candidate = 1
                      \/ n_efe_samples > 0 /\ this.min_efe < best.min_efe
                     THEN this ELSE best
        /\ phase' = "compared"
        /\ UNCHANGED <<m_product, m_preference, m_true_behavior, m_behavior_handler, m_current_product_node,
                       m_num_instances, result, selected_ind, step, candidate, data_vars, efe_vars>>

\* selectAif returns min_ind.
SelectAif ==
    /\ phase = "compared" /\ candidate = Len(result.solution_set)
    /\ HoldDistributions(best.min_ind)
    /\ UNCHANGED <<m_product, m_preference, m_true_behavior, m_behavior_handler, m_current_product_node,
                   m_num_instances, result, candidate, best>>
    /\ UNCHANGED <<m_instances, m_cumulative_cost, m_steps, m_pareto_front_cache, efe_vars>>

-----------------------------------------------------------------------------
\* Slip seen by TypeOK: a cost below zero stays below zero.
UnrectifiedSamples(node, action) ==
    LET mean == getElement(m_true_behavior, m_product, node, action)
    IN  {[d \in Costs!Objectives |-> mean[d] + z[d]] : z \in Noise}

\* TrueBehavior::sample: a sample of the action's distribution, rectified.
Samples(node, action) ==
    LET mean == getElement(m_true_behavior, m_product, node, action)
    IN  {[d \in Costs!Objectives |-> IF mean[d] + z[d] > 0 THEN mean[d] + z[d] ELSE 0] : z \in Noise}

\* execute(): the next action of the plan.
Execute ==
    /\ phase = "executing" /\ step < Len(plan.edge_path)
    /\ LET src_node == plan.node_path[step + 1].base_node
           action == plan.edge_path[step + 1]
       IN  \E sample \in Samples(src_node, action) :
             /\ m_buffer_instance' = [m_buffer_instance EXCEPT
                     !.cost_sample = Costs!Plus(@, sample)]
             /\ m_behavior_handler' = visit(m_behavior_handler, m_product, src_node, action, sample)
    /\ step' = step + 1
    /\ UNCHANGED <<phase, m_product, m_preference, m_true_behavior, m_current_product_node, m_num_instances,
                   result, selected_ind, candidate, best>>
    /\ UNCHANGED <<m_instances, m_cumulative_cost, m_steps, m_pareto_front_cache, efe_vars>>

\* Slip seen by RegretIsExact: the front is cached once, for any node.
CachedFront(node) ==
    IF m_pareto_front_cache # {}
      THEN (CHOOSE entry \in m_pareto_front_cache : TRUE).pf
      ELSE TrueFront(m_product, m_true_behavior, node)

\* Regret::getRegret: the front of a starting node is searched once.
FrontFrom(node) ==
    IF \E entry \in m_pareto_front_cache : entry.node = node
      THEN (CHOOSE entry \in m_pareto_front_cache : entry.node = node).pf
      ELSE TrueFront(m_product, m_true_behavior, node)

\* Slip seen by InstancesChain: the front of the sequence, not its back.
PlanFront == plan.node_path[1].base_node

\* plan.product_node_sequence.back()
PlanBack == plan.node_path[Len(plan.node_path)].base_node

\* What is handed over of the instance, with a regret handler or without.
starting_node == result.solution_set[1].node_path[1].base_node

Finished(calc_regret) ==
    [paths |-> result.solution_set, ucb_pf |-> result.pf,
     trajectory_distributions |-> m_buffer_instance.trajectory_distributions,
     selected_plan_index |-> selected_ind, cost_sample |-> m_buffer_instance.cost_sample,
     m_regret |-> IF calc_regret
                    THEN <<regret(FrontFrom(starting_node), m_buffer_instance.cost_sample), TRUE>>
                    ELSE m_buffer_instance.m_regret]

\* run() after execute(), and DataCollector::finishInstance.
FinishInstance(calc_regret) ==
    LET data == Finished(calc_regret)
    IN  /\ phase = "executing" /\ step = Len(plan.edge_path)
        /\ m_current_product_node' = PlanBack
        /\ m_cumulative_cost' = Costs!Plus(m_cumulative_cost, data.cost_sample)
        /\ m_steps' = m_steps + Len(data.paths[data.selected_plan_index].edge_path)
        /\ m_pareto_front_cache' =
             m_pareto_front_cache \cup
             (IF calc_regret THEN {[node |-> starting_node, pf |-> FrontFrom(starting_node)]} ELSE {})
        /\ m_instances' = Append(m_instances, data)
        /\ m_buffer_instance' = NewInstance
        /\ m_num_instances' = m_num_instances + 1
        /\ step' = 0
        /\ phase' = "planning"
        /\ UNCHANGED <<m_product, m_preference, m_true_behavior, m_behavior_handler, result, selected_ind,
                       candidate, best, efe_vars>>
=============================================================================
