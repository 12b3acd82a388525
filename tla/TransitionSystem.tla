-------------------------- MODULE TransitionSystem --------------------------
(***************************************************************************)
(* TransitionSystem: a graph whose nodes are numbered states, with the     *)
(* propositions declared for it and the observations of an alphabet that   *)
(* are true at each node.  Of the graph the outgoing connections are kept; *)
(* that the incoming ones agree is the business of Graph.  An observation  *)
(* is the sequence of its tokens: an operator, a bracket, a name, or "1".  *)
(***************************************************************************)
EXTENDS Condition, FiniteSets

VARIABLES
    model,                    \* the properties the transition system is generated from
    m_node_container,         \* the states, in the order of their numbers (from 1)
    m_graph,                  \* per node, the sequence of its outgoing connections
    m_propositions,           \* from a name to a condition
    m_observation_container,  \* per node, the set of the observations that are true
    status                    \* "building", "built", "observed", or "exited" by a failed ASSERT

tsVars == <<model, m_node_container, m_graph, m_propositions, m_observation_container, status>>

NodeIds == DOMAIN m_node_container

TransitionSystemInit ==
    /\ m_graph = <<>>
    /\ m_observation_container = <<>>
    /\ status = "building"

-----------------------------------------------------------------------------
\* Slip seen by TypeOK: a state that has a number gets another one.
InsertAlways(nodes, state) == Append(nodes, state)

\* BijectiveGenericNodeContainer::tryInsert
tryInsert(nodes, state) == IF state \in ToSet(nodes) THEN nodes ELSE Append(nodes, state)

NodeOf(nodes, state) == CHOOSE n \in DOMAIN nodes : nodes[n] = state

\* Graph::connect: the graph grows up to the larger node, which may leave nodes of the container out.
Connected(graph, src, dst, action) ==
    LET size == Max({src, dst, Len(graph)})
        grown == [n \in 1 .. size |-> IF n <= Len(graph) THEN graph[n] ELSE <<>>]
    IN  [grown EXCEPT ![src] = Append(@, [dst |-> dst, action |-> action])]

\* NodeGenericGraph::connect, with the node container after both insertions.
ConnectStates(nodes, src_state, dst_state, action) ==
    /\ m_node_container' = nodes
    /\ m_graph' = Connected(m_graph, NodeOf(nodes, src_state), NodeOf(nodes, dst_state), action)

\* The two insertions are arguments of one call, so either may come first.
InsertedBoth(src_state, dst_state) ==
    {tryInsert(tryInsert(m_node_container, src_state), dst_state),
     tryInsert(tryInsert(m_node_container, dst_state), src_state)}

-----------------------------------------------------------------------------
\* addProposition, for one after another: a name that is declared twice keeps its last condition.
addPropositions(propositions, props) ==
    FoldLeft(LAMBDA declared, p : [name \in DOMAIN declared \union {p.name} |->
                                      IF name = p.name THEN p ELSE declared[name]],
             propositions, props)

-----------------------------------------------------------------------------
(* parseAndObserve keeps four stacks, popped and pushed together: here one stack of frames.  truth gives every declared
proposition its value at the state; an observation names no other (ASSERT in getProposition). *)

Frame(value) == [value |-> value, negate |-> FALSE, prev_operator |-> "none", proposition |-> "none"]

Combine(frame, sub_eval) ==
    CASE frame.prev_operator = "|" -> frame.value \/ sub_eval
      [] frame.prev_operator = "&" -> frame.value /\ sub_eval
      [] OTHER                     -> sub_eval

\* Slip seen by ObservationsMeanWhatTheySay: a negation stays for what is read next.
FoldInStillNegated(parser, character, truth) ==
    LET top == Last(parser.stack)
        read == IF parser.collapse THEN parser.sub_eval ELSE truth[top.proposition]
    IN  [stack |-> Front(parser.stack) \o
                       <<[top EXCEPT !.value = Combine(top, read # top.negate), !.prev_operator = character]>>,
         collapse |-> FALSE, sub_eval |-> read # top.negate]

\* At an operator, and at the end: what was read since the last one is folded into the frame.
FoldIn(parser, character, truth) ==
    LET top == Last(parser.stack)
        read == IF parser.collapse THEN parser.sub_eval ELSE truth[top.proposition]
    IN  [stack |-> Front(parser.stack) \o
                       <<[top EXCEPT !.value = Combine(top, read # top.negate),
                                     !.negate = FALSE, !.prev_operator = character]>>,
         collapse |-> FALSE, sub_eval |-> read # top.negate]

\* At a closing bracket: a frame that itself ended in a bracket folds in FALSE.
Close(parser, truth) ==
    LET top == Last(parser.stack)
        read == ~parser.collapse /\ truth[top.proposition]
    IN  [stack |-> Front(parser.stack), collapse |-> TRUE,
         sub_eval |-> Combine(top, read # top.negate)]

Name(parser, token) ==
    [parser EXCEPT !.stack[Len(parser.stack)].proposition = token]

ReadToken(parser, token, at_end, truth) ==
    CASE token = "!" -> [parser EXCEPT !.stack[Len(parser.stack)].negate = ~@]
      [] token = "(" -> [parser EXCEPT !.stack = Append(@, Frame(TRUE))]
      [] token = ")" -> IF at_end THEN FoldIn(Close(parser, truth), token, truth) ELSE Close(parser, truth)
      [] token \in {"|", "&"} -> FoldIn(parser, token, truth)
      [] OTHER -> IF at_end THEN FoldIn(Name(parser, token), token, truth) ELSE Name(parser, token)

parseAndObserve(ss, propositions, state, observation) ==
    LET truth == [name \in DOMAIN propositions |-> evaluate(ss, state, propositions[name])]
        Step(parser, k) == ReadToken(parser, observation[k], k = Len(observation), truth)
        start == [stack |-> <<Frame(FALSE)>>, collapse |-> FALSE, sub_eval |-> FALSE]
        end == FoldLeft(Step, start, [k \in DOMAIN observation |-> k])
    IN  observation = <<"1">> \/ Head(end.stack).value

\* addAlphabet: the observation container gets the size of the graph, and more where a node needs it.
addAlphabet(alphabet) ==
    LET Observed(n) ==
            {o \in alphabet : parseAndObserve(model.ss, m_propositions, m_node_container[n], o)}
        size == Max({Len(m_graph)} \union {n \in NodeIds : Observed(n) # {}})
    IN  m_observation_container' =
            IF alphabet = {} THEN m_observation_container
            ELSE [n \in 1 .. size |-> IF n \in NodeIds THEN Observed(n) ELSE {}]

\* Called by the client, with the labels of its automata, when the model is built.
Observe(alphabet) ==
    /\ status = "built"
    /\ addAlphabet(alphabet)
    /\ status' = "observed"
    /\ UNCHANGED <<model, m_node_container, m_graph, m_propositions>>
=============================================================================
