------------------------------ MODULE MCModels ------------------------------
(***************************************************************************)
(* Small manipulators and grid worlds, generated and observed.             *)
(***************************************************************************)
EXTENDS TransitionSystemGenerator, GridWorldAgent

CONSTANTS
    Models  \* the models to generate: "arms" and "grids"

M == INSTANCE Manipulator

R == INSTANCE IntendedMoves

vars == <<tsVars, generatorVars, gridVars>>

-----------------------------------------------------------------------------
(* Observations: groups of literals joined by an operator, in brackets where they must be, joined by an operator.
This is how the labels of an automaton are written. *)

Literal(negate, name) == [negate |-> negate, name |-> name]

Group(negate, op, literals) == [negate |-> negate, op |-> op, literals |-> literals]

Formula(op, groups) == [op |-> op, groups |-> groups]

Joined(op, texts) ==
    FlattenSeq([k \in DOMAIN texts |-> IF k = 1 THEN texts[k] ELSE <<op>> \o texts[k]])

Sign(negate) == IF negate THEN <<"!">> ELSE <<>>

LiteralText(l) == Sign(l.negate) \o <<l.name>>

GroupText(g) ==
    LET text == Joined(g.op, [k \in DOMAIN g.literals |-> LiteralText(g.literals[k])])
    IN  IF Len(g.literals) = 1 /\ ~g.negate THEN text
        ELSE Sign(g.negate) \o <<"(">> \o text \o <<")">>

Text(f) == Joined(f.op, [k \in DOMAIN f.groups |-> GroupText(f.groups[k])])

Junction(op, values) ==
    IF op = "&" THEN \A k \in DOMAIN values : values[k] ELSE \E k \in DOMAIN values : values[k]

Means(f, Truth(_)) ==
    Junction(f.op, [k \in DOMAIN f.groups |->
        LET g == f.groups[k]
        IN  g.negate # Junction(g.op, [i \in DOMAIN g.literals |->
                                          g.literals[i].negate # Truth(g.literals[i].name)])])

\* All that can be written with two groups of up to two literals.
Formulas(literals) ==
    LET groups == {Group(n, "&", <<l>>) : n \in BOOLEAN, l \in literals}
                  \union {Group(n, op, <<l, k>>) : n \in BOOLEAN, op \in {"&", "|"}, l \in literals, k \in literals}
    IN  {Formula("&", <<g>>) : g \in groups}
        \union {Formula(op, <<g, h>>) : op \in {"&", "|"}, g \in groups, h \in groups}

SomeFormulas(a, b) ==
    LET A == Literal(FALSE, a) notA == Literal(TRUE, a) B == Literal(FALSE, b) notB == Literal(TRUE, b)
    IN  {Formula("&", <<Group(FALSE, "&", <<A>>), Group(TRUE, "|", <<notB, A>>)>>),
         Formula("|", <<Group(FALSE, "&", <<notA, B>>), Group(FALSE, "&", <<notB>>)>>)}

-----------------------------------------------------------------------------
(* The models: what generate() is given, with a name, and, for reference, the moves that are meant. *)

ArmProperties(locations, objects, ee, at, stow) ==
    [locations |-> locations, objects |-> objects, init_ee_location |-> ee,
     init_obj_locations |-> at, include_stow |-> stow]

Arm(name, props) ==
    LET given == M!Properties(props)
    IN  [kind |-> "arm", name |-> name, ss |-> given.ss, init_state |-> given.init_state,
         conditions |-> given.conditions, propositions |-> given.propositions,
         deterministic_action_labels |-> given.deterministic_action_labels,
         task |-> [sources |-> {given.init_state}, moves |-> R!PickAndPlaceMoves(props)]]

\* The same state space with conditions that use what the manipulator's do not: domains, disjunctions, omissions.
Tidy ==
    [M!Transition("tidy",
        <<M!Negated(M!Sub("Group", "obj_locations", "InDomain", "Domain", "drop_locs")), M!Holding("T")>>,
        <<M!Sub("Group", "obj_locations", "InDomain", "Domain", "drop_locs"), M!Holding("F"),
          M!Sub("Label", "ee_loc", "InDomain", "Domain", "drop_locs")>>, {})
     EXCEPT !.pre_junction = "Disjunction"]

Jump == [M!Transition("jump", <<M!Holding("F")>>, <<M!Holding("F")>>, {}) EXCEPT !.omit = {"ee_loc"}]

TidyArm(name, props) ==
    [Arm(name, props) EXCEPT !.conditions = <<Tidy, Jump>>, !.deterministic_action_labels = FALSE,
                             !.task.moves = R!TidyMoves(props)]

\* An arm for which no move is declared: its initial state is never connected, the graph has no entry for it, and the
\* observation container only gets one because a label is true of it.
BoundArm ==
    [Arm("bound", ArmProperties(<<"L0", "L1">>, <<"o1">>, "L0", [o \in {"o1"} |-> "L0"], FALSE))
     EXCEPT !.conditions = <<>>, !.task.moves = {}]

At2(l1, l2) == [o \in {"o1", "o2"} |-> IF o = "o1" THEN l1 ELSE l2]

Arms ==
    {Arm("table", ArmProperties(<<"L0", "L1", "L2">>, <<"o1", "o2">>, "stow", At2("L0", "L1"), TRUE)),
     Arm("handover", ArmProperties(<<"L0", "L1">>, <<"o1", "o2">>, "L1", At2("ee", "L0"), FALSE)),
     Arm("single", ArmProperties(<<"L0", "L1">>, <<"o1">>, "L0", [o \in {"o1"} |-> "L0"], FALSE)),
     TidyArm("tidy", ArmProperties(<<"L0", "L1">>, <<"o1", "o2">>, "stow", At2("ee", "L0"), TRUE)),
     BoundArm}

Box(name, x1, x2, y1, y2) ==
    [proposition |-> name, lower_left_x |-> x1, upper_right_x |-> x2, lower_left_y |-> y1, upper_right_y |-> y2]

Grid(name, n_x, n_y, regions, obstacles) ==
    LET props == [n_x |-> n_x, n_y |-> n_y, obstacles |-> obstacles]
    IN  [kind |-> "grid", name |-> name, n_x |-> n_x, n_y |-> n_y, regions |-> regions, obstacles |-> obstacles,
         ss |-> [groups |-> <<>>, domains |-> <<>>],
         task |-> [sources |-> {R!GridState(c) : c \in R!FreeCells(props)}, moves |-> R!GridMoves(props)]]

Grids ==
    {Grid("open", 3, 2, <<>>, <<>>),
     Grid("corridor", 2, 1, <<Box("sediment", 0, 0, 0, 0)>>, <<>>),
     Grid("walled", 3, 3, <<Box("sediment", 0, 0, 0, 0), Box("base", 2, 2, 1, 1)>>, <<Box("rock", 1, 1, 1, 2)>>)}

FormulasOf ==
    [name \in {"table", "handover", "single", "tidy", "bound", "open", "corridor", "walled"} |->
        CASE name = "table"     -> SomeFormulas("o1_L0", "holding_o2_L1")
          [] name \in {"handover", "tidy"} -> SomeFormulas("o1_L1", "o2_L0")
          [] name = "single"    -> Formulas({Literal(FALSE, "o1_L0"), Literal(TRUE, "holding_o1_L1")})
          [] name = "bound"     -> SomeFormulas("o1_L0", "holding_o1_L1")
          [] name = "open"      -> SomeFormulas("x_0_y_0", "x_2_y_1")
          [] name = "walled"    -> SomeFormulas("sediment", "base")
          [] OTHER              -> SomeFormulas("sediment", "sediment")]

AlphabetOf == [name \in DOMAIN FormulasOf |-> {Text(f) : f \in FormulasOf[name]}]

ModelsOf == [kind \in {"arms", "grids"} |-> IF kind = "arms" THEN Arms ELSE Grids]

ChosenModels == UNION {ModelsOf[kind] : kind \in Models}

AllStates == [m \in {c \in ChosenModels : c.kind = "arm"} |-> generateAllStates(m.ss)]

\* What the names of propositions say of a state.
NameHolds(state, name) ==
    CASE name \in {"o1_L0", "o1_L1", "o2_L0"} ->
            \E o \in {"o1", "o2"}, l \in {"L0", "L1"} : name = o \o "_" \o l /\ state[o] = l
      [] name \in {"holding_o1_L1", "holding_o2_L1"} ->
            \E o \in {"o1", "o2"} : name = "holding_" \o o \o "_L1" /\ state[o] = "ee" /\ state["ee_loc"] = "L1"
      [] name = "x_0_y_0" -> state = R!GridState(<<0, 0>>)
      [] name = "x_2_y_1" -> state = R!GridState(<<2, 1>>)
      [] OTHER -> \E r \in ToSet(model.regions) :
                      r.proposition = name /\ Within(r, state["x_coord"], state["y_coord"])

-----------------------------------------------------------------------------
IdleGenerator == state_ind = 0 /\ candidate = 0

IdleGrid == cell = 0 /\ dir = 0 /\ stay_put = FALSE

Init ==
    /\ model \in ChosenModels
    /\ TransitionSystemInit
    /\ IF model.kind = "arm" THEN GeneratorInit /\ IdleGrid ELSE GridInit /\ IdleGenerator

Next ==
    \/ /\ model.kind = "arm"
       /\ GeneratorNext(AllStates[model])
       /\ UNCHANGED gridVars
    \/ /\ model.kind = "grid"
       /\ GridNext
       /\ UNCHANGED generatorVars
    \/ /\ Observe(AlphabetOf[model.name])
       /\ UNCHANGED <<generatorVars, gridVars>>

Spec == Init /\ [][Next]_vars

-----------------------------------------------------------------------------
\* Nodes are numbered without gaps or repetition, connections lead to nodes, and the graph knows every node but those
\* that wait for their first connection.
TypeOK ==
    /\ Cardinality(ToSet(m_node_container)) = Len(m_node_container)
    /\ model.kind = "arm" => \A n \in NodeIds : IsState(model.ss, m_node_container[n])
    /\ DOMAIN m_graph \subseteq NodeIds
    /\ \A n \in DOMAIN m_graph : \A k \in DOMAIN m_graph[n] : m_graph[n][k].dst \in NodeIds
    /\ status \in {"building", "built", "observed", "exited"}

Moves ==
    UNION {{R!Move(m_node_container[n], m_graph[n][k].action[1], m_node_container[m_graph[n][k].dst]) :
                k \in DOMAIN m_graph[n]} : n \in DOMAIN m_graph}

Intended == INSTANCE Construction WITH
    task <- model.task, found <- ToSet(m_node_container), moves <- Moves,
    finished <- status \in {"built", "observed"}

\* The transition system has exactly the moves that are meant, from everything that is reached: the conditions,
\* evaluated between all pairs of states and with what they access left out of the comparison, say what the updates
\* of IntendedMoves say; and no move is forgotten by the breadth-first loop or by the walk over the grid.
ImplementsConstruction == Intended!Spec

\* A node and an action determine where it leads: no two connections of a node have the same label, which is what
\* deterministic action labels are for.
ActionsDetermineSuccessors ==
    model.name # "tidy" =>
        \A n \in DOMAIN m_graph : \A j, k \in DOMAIN m_graph[n] :
            m_graph[n][j].action = m_graph[n][k].action => j = k

\* Whatever a manipulator or a grid agent can do can be undone in one move, so a plan never ends in a state that
\* nothing leads out of.
EveryMoveCanBeUndone ==
    status = "built" /\ model.name # "tidy" =>
        \A n \in DOMAIN m_graph : \A k \in DOMAIN m_graph[n] :
            \E j \in DOMAIN m_graph[m_graph[n][k].dst] : m_graph[m_graph[n][k].dst][j].dst = n

\* Plans are sequences of actions: a node and an action determine where they lead, and no plan ends in a state that
\* nothing leads out of (TransitionSystem.cpp:28).
MovesCanBePlanned == ActionsDetermineSuccessors /\ EveryMoveCanBeUndone

\* Every node can be asked for observations (the ASSERT of TransitionSystem.h:56 holds), also one the graph has no entry
\* for, and is told to observe exactly the labels that are true of its state: reading a label's operators, brackets and
\* names from left to right gives the label's meaning (TransitionSystem.cpp:54, 122).
ObservationsMeanWhatTheySay ==
    status = "observed" =>
        \A n \in NodeIds :
            /\ n \in DOMAIN m_observation_container
            /\ \A f \in FormulasOf[model.name] :
                   (Text(f) \in m_observation_container[n])
                       = Means(f, LAMBDA name : NameHolds(m_node_container[n], name))
=============================================================================
