---------------------- MODULE TransitionSystemGenerator ----------------------
(***************************************************************************)
(* TransitionSystemGenerator::generate: from the initial state on, every   *)
(* node is held against every state of the state space, and connected to   *)
(* it once per condition that holds between the two.                       *)
(***************************************************************************)
EXTENDS TransitionSystem

VARIABLES
    state_ind,  \* the node being expanded
    candidate   \* the index in all_states it is held against next

generatorVars == <<state_ind, candidate>>

GeneratorInit ==
    /\ m_node_container = <<model.init_state>>
    /\ m_propositions = addPropositions(<<>>, model.propositions)
    /\ state_ind = 1
    /\ candidate = 1

getActionLabel(cond, src, dst) ==
    IF model.deterministic_action_labels THEN <<cond.action_label, dst>> ELSE <<cond.action_label>>

Verdict(dst_state, cond) ==
    evaluateTransition(model.ss, cond, m_node_container[state_ind], dst_state)

\* The body of the loop over all states: every condition that holds is a connection.
ConnectCandidate(dst_state) ==
    LET verdicts == [c \in DOMAIN model.conditions |-> Verdict(dst_state, model.conditions[c])]
        holding == SelectSeq([c \in DOMAIN verdicts |-> c], LAMBDA c : verdicts[c] = "holds")
        nodes == tryInsert(m_node_container, dst_state)
        dst == NodeOf(nodes, dst_state)
        Connect(graph, c) ==
            Connected(graph, state_ind, dst, getActionLabel(model.conditions[c], state_ind, dst))
    IN  IF dst_state = m_node_container[state_ind]
        THEN UNCHANGED <<m_node_container, m_graph, status>>
        ELSE IF \E c \in DOMAIN verdicts : verdicts[c] = "exits"
        THEN status' = "exited" /\ UNCHANGED <<m_node_container, m_graph>>
        ELSE /\ m_node_container' = IF holding = <<>> THEN m_node_container ELSE nodes
             /\ m_graph' = FoldLeft(Connect, m_graph, holding)
             /\ UNCHANGED status

TryCandidate(all_states) ==
    /\ status = "building"
    /\ state_ind \in NodeIds
    /\ candidate <= Len(all_states)
    /\ ConnectCandidate(all_states[candidate])
    /\ candidate' = candidate + 1
    /\ UNCHANGED <<model, m_propositions, m_observation_container, state_ind>>

NextNode(all_states) ==
    /\ status = "building"
    /\ state_ind \in NodeIds
    /\ candidate > Len(all_states)
    /\ state_ind' = state_ind + 1
    /\ candidate' = 1
    /\ UNCHANGED tsVars

Generated ==
    /\ status = "building"
    /\ state_ind \notin NodeIds
    /\ status' = "built"
    /\ UNCHANGED <<model, m_node_container, m_graph, m_propositions, m_observation_container>>
    /\ UNCHANGED generatorVars

GeneratorNext(all_states) == TryCandidate(all_states) \/ NextNode(all_states) \/ Generated
=============================================================================
