------------------------------ MODULE Condition ------------------------------
(***************************************************************************)
(* StateSpace, State and the conditions that are evaluated over them.      *)
(* A state space is a record of its labels (one per dimension), the        *)
(* variables of every label, its domains, and its groups; a group is the   *)
(* sequence in which its unordered_set happens to be iterated.  A state    *)
(* gives every label one of its variables.                                 *)
(*                                                                         *)
(* StateAccessCapture is a bit per dimension, here the set of the labels   *)
(* that were accessed.  The two are the same up to dimension 30: a mask is *)
(* the int 1 << dim.                                                       *)
(***************************************************************************)
EXTENDS Naturals, SequencesExt

IsState(ss, state) ==
    /\ DOMAIN state = ToSet(ss.labels)
    /\ \A l \in DOMAIN state : state[l] \in ToSet(ss.variables[l])

Options(ss, d) == Len(ss.variables[ss.labels[d]])

Weight(ss, d) ==
    FoldLeft(LAMBDA w, e : w * Options(ss, e), 1, [e \in 1 .. d - 1 |-> e])

\* The first dimension counts fastest.
generateAllStates(ss) ==
    LET Dimension(l) == CHOOSE d \in DOMAIN ss.labels : ss.labels[d] = l
        Digit(n, d) == (((n - 1) \div Weight(ss, d)) % Options(ss, d)) + 1
    IN  [n \in 1 .. Weight(ss, Len(ss.labels) + 1) |->
            [l \in ToSet(ss.labels) |-> ss.variables[l][Digit(n, Dimension(l))]]]

\* The positions in the group where the variable is found; argFindGroup stops at the first.
FoundAt(ss, state, variable, group) ==
    {k \in DOMAIN ss.groups[group] : state[ss.groups[group][k]] = variable}

argFindGroup(ss, state, variable, group) ==
    ss.groups[group][Min(FoundAt(ss, state, variable, group))]

exclEquals(pre, post, accessed) ==
    \A l \in DOMAIN pre : l \in accessed \/ pre[l] = post[l]

-----------------------------------------------------------------------------
(* A sub-condition is [lhs_type, lhs, op, rhs_type, rhs, name, negate].  Its evaluation yields a result, the labels it
accessed, and the arguments stored so far: a name's first value stays (emplace). *)

addArgValues(args, name, variable, label) ==
    IF name \in DOMAIN args THEN args
    ELSE [n \in DOMAIN args \union {name} |->
             IF n = name THEN [variable |-> variable, label |-> label] ELSE args[n]]

\* ASSERT in getArgValues.
Unrecognized(args, cond) ==
    /\ cond.op = "Equals"
    /\ cond.rhs_type \in {"ArgVariable", "ArgLabel"}
    /\ cond.name \notin DOMAIN args

\* The labels and the variable that an operand of Equals stands for.
OperandLabels(type, operand, args, name) ==
    CASE type = "Label"    -> {operand}
      [] type = "ArgLabel" -> {args[name].label}
      [] OTHER             -> {}

OperandVariable(state, type, operand, args, name) ==
    CASE type = "Label"       -> state[operand]
      [] type = "ArgLabel"    -> state[args[name].label]
      [] type = "ArgVariable" -> args[name].variable
      [] OTHER                -> operand

\* A label held against a variable is compared the same whether it is negated or not.
Equals(state, cond, args) ==
    LET equal == OperandVariable(state, cond.lhs_type, cond.lhs, args, cond.name)
                     = OperandVariable(state, cond.rhs_type, cond.rhs, args, cond.name)
    IN  [result   |-> equal # (cond.negate /\ cond.rhs_type # "Variable"),
         accessed |-> OperandLabels(cond.lhs_type, cond.lhs, args, cond.name)
                          \union OperandLabels(cond.rhs_type, cond.rhs, args, cond.name),
         args     |-> args]

\* The labels of a group are accessed up to the first one that is not in the domain.
InDomain(ss, state, cond, args) ==
    LET labels == IF cond.lhs_type = "Label" THEN <<cond.lhs>> ELSE ss.groups[cond.lhs]
        outside == {k \in DOMAIN labels : state[labels[k]] \notin ss.domains[cond.rhs]}
    IN  [result   |-> (outside = {}) # cond.negate,
         accessed |-> {labels[k] : k \in {i \in DOMAIN labels : \A o \in outside : i <= o}},
         args     |-> args]

\* What is found is stored, but not accessed; a label is always found.
ArgFind(ss, state, cond, args) ==
    LET variable == IF cond.rhs_type = "Label" THEN state[cond.rhs] ELSE cond.rhs
        found == FoundAt(ss, state, variable, cond.lhs) # {}
        label == argFindGroup(ss, state, variable, cond.lhs)
    IN  IF cond.lhs_type = "Label"
        THEN [result |-> TRUE, accessed |-> {},
              args |-> addArgValues(args, cond.name, state[cond.lhs], cond.lhs)]
        ELSE [result |-> found # cond.negate, accessed |-> {},
              args |-> IF found THEN addArgValues(args, cond.name, state[label], label) ELSE args]

subEvaluate(ss, state, cond, args) ==
    CASE cond.op = "Equals"   -> Equals(state, cond, args)
      [] cond.op = "InDomain" -> InDomain(ss, state, cond, args)
      [] cond.op = "ArgFind"  -> ArgFind(ss, state, cond, args)

\* The loop over sub-conditions: left at the first that is false in a conjunction, true in a disjunction.
evaluateJunction(ss, state, conds, junction, accessed, args) ==
    LET Stops(result) == result # (junction = "Conjunction")
        Step(sofar, cond) ==
            IF sofar.stopped \/ sofar.failed THEN sofar
            ELSE IF Unrecognized(sofar.args, cond) THEN [sofar EXCEPT !.failed = TRUE]
            ELSE LET sub == subEvaluate(ss, state, cond, sofar.args)
                 IN  [stopped |-> Stops(sub.result), failed |-> FALSE,
                      accessed |-> sofar.accessed \union sub.accessed, args |-> sub.args]
        end == FoldLeft(Step, [stopped |-> FALSE, failed |-> FALSE,
                               accessed |-> accessed, args |-> args], conds)
    IN  [result |-> end.stopped # (junction = "Conjunction"), failed |-> end.failed,
         accessed |-> end.accessed, args |-> end.args]

\* Condition::evaluate, for a proposition [sub_conditions, junction_type].
evaluate(ss, state, prop) ==
    evaluateJunction(ss, state, prop.sub_conditions, prop.junction_type, {}, <<>>).result

(* TransitionCondition::evaluate, for [pre, post, pre_junction, post_junction, excl_eq, omit, force]: "holds",
"fails", or "exits" by the ASSERT. *)
evaluateTransition(ss, cond, pre_state, post_state) ==
    LET pre == evaluateJunction(ss, pre_state, cond.pre, cond.pre_junction, {}, <<>>)
        post == evaluateJunction(ss, post_state, cond.post, cond.post_junction, pre.accessed, pre.args)
        accessed == (post.accessed \union cond.omit) \ cond.force
    IN  CASE pre.failed \/ (pre.result /\ post.failed) -> "exits"
          [] /\ ~pre.failed /\ pre.result
             /\ ~post.failed /\ post.result
             /\ cond.excl_eq => exclEquals(pre_state, post_state, accessed) -> "holds"
          [] OTHER -> "fails"
=============================================================================
