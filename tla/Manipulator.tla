----------------------------- MODULE Manipulator -----------------------------
(***************************************************************************)
(* Manipulator: the state space, the conditions and the propositions of a  *)
(* gripper that moves objects between locations.  The properties are a     *)
(* record of locations and objects (sequences), init_ee_location,          *)
(* init_obj_locations and include_stow.                                    *)
(***************************************************************************)
EXTENDS Sequences, SequencesExt

Sub(lhs_type, lhs, op, rhs_type, rhs) ==
    [lhs_type |-> lhs_type, lhs |-> lhs, op |-> op, rhs_type |-> rhs_type, rhs |-> rhs,
     name |-> "", negate |-> FALSE]

Named(cond, name) == [cond EXCEPT !.name = name]

Negated(cond) == [cond EXCEPT !.negate = TRUE]

Holding(tf) == Sub("Label", "holding", "Equals", "Variable", tf)

ObjectAtGripper == Sub("Group", "obj_locations", "ArgFind", "Label", "ee_loc")

GripperLocation == Sub("Label", "ee_loc", "ArgFind", "None", "")

GripperIsElsewhere(name) == Negated(Named(Sub("Label", "ee_loc", "Equals", "ArgVariable", ""), name))

Transition(action_label, pre, post, force) ==
    [action_label |-> action_label, pre |-> pre, post |-> post, pre_junction |-> "Conjunction",
     post_junction |-> "Conjunction", excl_eq |-> TRUE, omit |-> {}, force |-> force]

Grasp ==
    Transition("grasp",
        <<Holding("F"), Named(ObjectAtGripper, "arg")>>,
        <<Holding("T"), Named(Sub("Variable", "ee", "Equals", "ArgLabel", ""), "arg")>>, {})

\* Slip seen by MovesCanBePlanned: an object may be carried over another, where it cannot be put down.
TransportAnywhere ==
    Transition("transport",
        <<Holding("T"), Negated(Named(ObjectAtGripper, "arg_1")), Named(GripperLocation, "arg_2")>>,
        <<Holding("T"), GripperIsElsewhere("arg_2")>>, {})

Transport ==
    Transition("transport",
        <<Holding("T"), Negated(Named(ObjectAtGripper, "arg_1")), Named(GripperLocation, "arg_2")>>,
        <<Holding("T"), GripperIsElsewhere("arg_2"), Negated(Named(ObjectAtGripper, "na"))>>, {})

\* Slip seen by ImplementsConstruction: the gripper's location is left out of the exclusion comparison.
ReleaseAnywhere ==
    Transition("release",
        <<Holding("T"), Negated(Named(ObjectAtGripper, "arg_1")),
          Named(Sub("Group", "obj_locations", "ArgFind", "Variable", "ee"), "arg_2")>>,
        <<Holding("F"), Named(Sub("Label", "ee_loc", "Equals", "ArgLabel", ""), "arg_2")>>, {})

Release ==
    Transition("release",
        <<Holding("T"), Negated(Named(ObjectAtGripper, "arg_1")),
          Named(Sub("Group", "obj_locations", "ArgFind", "Variable", "ee"), "arg_2")>>,
        <<Holding("F"), Named(Sub("Label", "ee_loc", "Equals", "ArgLabel", ""), "arg_2")>>, {"ee_loc"})

Transit ==
    Transition("transit",
        <<Holding("F"), Named(GripperLocation, "arg")>>,
        <<Holding("F"), GripperIsElsewhere("arg")>>, {})

StateSpaceOf(props) ==
    LET objects == ToSet(props.objects)
        labels == <<"ee_loc">> \o props.objects \o <<"holding">>
    IN  [labels    |-> labels,
         variables |-> [l \in ToSet(labels) |->
                           CASE l = "ee_loc" -> IF props.include_stow THEN Append(props.locations, "stow")
                                                ELSE props.locations
                             [] l = "holding" -> <<"T", "F">>
                             [] l \in objects -> Append(props.locations, "ee")],
         domains   |-> [d \in {"drop_locs"} |-> ToSet(props.locations)],
         groups    |-> [g \in {"obj_locations"} |-> props.objects]]

getInitState(props) ==
    LET objects == ToSet(props.objects)
    IN  [l \in objects \union {"ee_loc", "holding"} |->
            CASE l = "ee_loc"   -> props.init_ee_location
              [] l = "holding"  -> IF \E o \in objects : props.init_obj_locations[o] = "ee" THEN "T" ELSE "F"
              [] l \in objects  -> props.init_obj_locations[l]]

\* "Object at location" and "held object at location".
Propositions(props) ==
    LET At(o, l) == Sub("Label", o, "Equals", "Variable", l)
        Declared(name, conds) ==
            [name |-> name, sub_conditions |-> conds, junction_type |-> "Conjunction"]
    IN  FlattenSeq([i \in DOMAIN props.locations |->
            FlattenSeq([j \in DOMAIN props.objects |->
                LET l == props.locations[i] o == props.objects[j]
                IN  <<Declared(o \o "_" \o l, <<At(o, l)>>),
                      Declared("holding_" \o o \o "_" \o l, <<At(o, "ee"), At("ee_loc", l)>>)>>])])

\* What generate() hands to the generator.
Properties(props) ==
    [ss |-> StateSpaceOf(props), init_state |-> getInitState(props),
     conditions |-> <<Grasp, Transport, Release, Transit>>, propositions |-> Propositions(props),
     deterministic_action_labels |-> TRUE]
=============================================================================
