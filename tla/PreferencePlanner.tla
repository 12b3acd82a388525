-------------------------- MODULE PreferencePlanner --------------------------
(***************************************************************************)
(* The programs BOPartialSatisfactionPreferencePlanner and                 *)
(* BOActionCostPreferencePlanner: they read a grid world and one DFA per   *)
(* task, plan in the product of them with BOA*, trading the cost of the    *)
(* actions against a preference, and write the plans and their front.      *)
(*                                                                         *)
(* The preference of the first program is the weighted sum of what it      *)
(* costs to substitute letters of the tasks, that of the second the delay  *)
(* of tasks behind tasks that should come later.  Both are functions of    *)
(* the preference cost set of a walk, one component per task.              *)
(*                                                                         *)
(* A task of a command line is a member of Tasks: the program, its words,  *)
(* and the disk it runs on.  A world is what GridWorldAgent::generate      *)
(* makes of a configuration (see GridWorldAgent): the model, whose edges   *)
(* are an action and its cost, the letters made of declared propositions,  *)
(* and which letters are observed in which cell.                           *)
(***************************************************************************)
EXTENDS Automaton, Product, ArgParser

CONSTANTS
    Tasks,         \* the programs that are run
    Letters,       \* what automata may read
    DefaultWorld,  \* the grid that is planned in without a configuration
    Numbered,      \* the file name templates with a "#"
    WalkBound      \* the longest runs plans are held against

Costs == INSTANCE ObjectiveContainers WITH NObjectives <- 2

\* The transition system of a world, as generate() leaves it.
IsWorld(w) ==
    /\ w.model.size \in Nat \ {0}
    /\ w.model.connections \in Seq(Range(w.model.connections))
    /\ \A c \in Range(w.model.connections) : {c.src, c.dst} \subseteq Node(w.model)

\* A DFA starts in a state that one of its connections brings about: one that is
\* not skipped for an earlier row of its node with its letter.
IsDFA(f) ==
    /\ f.connections \in Seq([src : Nat, dst : Nat, label : Letters])
    /\ f.init # <<>> /\ f.init[1] \in Nat
    /\ \E k \in DOMAIN f.connections :
          LET c == f.connections[k]
          IN  /\ f.init[1] <= c.src \/ f.init[1] <= c.dst
              /\ \A j \in 1 .. k - 1 : f.connections[j].src = c.src => f.connections[j].label # c.label

ASSUME TasksAssumption ==
    \A t \in Tasks :
        /\ t.program \in {"PartialSatisfaction", "ActionCost"}
        /\ t.argv \in Seq(Word)
        /\ \A f \in DOMAIN t.disk.dfas :
              t.disk.dfas[f].connections \in Seq([src : Nat, dst : Nat, label : Letters])
        /\ \A f \in DOMAIN t.disk.sub_maps :
              {t.disk.sub_maps[f].from, t.disk.sub_maps[f].to} \subseteq Seq(Letters)

ASSUME BoundAssumption == WalkBound \in Nat

\* What can be planned in.
ASSUME PlannableAssumption ==
    /\ IsWorld(DefaultWorld)
    /\ \A t \in Tasks :
        /\ \A f \in DOMAIN t.disk.configs : IsWorld(t.disk.configs[f])
        /\ \A f \in DOMAIN t.disk.dfas : IsDFA(t.disk.dfas[f])

VARIABLES
    phase,             \* "started", "generating", "loading", "planning", "writing" or "ended"
    task,              \* the member of Tasks
    answers,           \* the command line's, in the order of Options
    ts,                \* the world
    dfas,              \* the automata read so far
    combined_alphabet,
    m_sym_graph,       \* the product
    open_set,          \* the walks that are open
    g_2_min,           \* a map from the nodes expanded so far
    g_2_min_goal,      \* <<>>, or a sequence of one
    solutions,         \* the walks that reached a goal, in this order
    plan_set,
    written,           \* how many of the plans were looked at for writing
    files,             \* a map from the paths written to their content
    exit               \* how the program ended

main_vars == <<phase, task, answers, ts, dfas, combined_alphabet, exit>>
search_vars == <<m_sym_graph, open_set, g_2_min, g_2_min_goal, solutions>>
written_vars == <<plan_set, written, files>>
vars == <<loader_vars, main_vars, search_vars, written_vars>>

IsPartial == task.program = "PartialSatisfaction"

-----------------------------------------------------------------------------
\* The options in the order main parses them.
Options(program) ==
    LET sub_map_template ==
            IF program = "PartialSatisfaction" THEN <<Option("sub-map-file-template", "", "string", <<"sub_map_#.yaml">>)>>
            ELSE <<>>
    IN  <<Option("", "v", "void", <<>>),
          Option("dfa-directory", "d", "string", <<"./dfas">>),
          Option("dfa-file-template", "", "string", <<"dfa_#.yaml">>)>>
        \o sub_map_template \o
        <<Option("config-filepath", "c", "string", <<>>),
          Option("plan-directory", "w", "string", <<>>),
          Option("plan-file-template", "", "string", <<"plan_#.yaml">>),
          Option("n-dfas", "n", "uint32_t", <<1>>),
          Option("pareto-front-filepath", "", "string", <<>>)>>

has(key) == Answer(Options(task.program), answers, key).m_valid
get(key) == Answer(Options(task.program), answers, key).m_arg[1]

\* All parse() calls, one after another, until one of them ends the program.
Parsed ==
    [t \in Tasks |->
        FoldLeft(LAMBDA so_far, option :
                   IF so_far.outcome # "parsed" THEN so_far
                   ELSE LET next == _parse(so_far.parser, option)
                        IN  [parser |-> next.parser, outcome |-> next.outcome,
                             answers |-> Append(so_far.answers, next.argument)],
                 [parser |-> NewParser(t.argv), outcome |-> "parsed", answers |-> <<>>],
                 Options(t.program))]

\* Where a program goes on to plan, there is a task: the product of a world with
\* nothing lets permutations() read past its array.
ASSUME SomeTaskAssumption ==
    \A t \in Tasks :
        Parsed[t].outcome = "parsed" /\ enableHelp(Parsed[t].parser) = "return" =>
            Answer(Options(t.program), Parsed[t].answers, "n-dfas").m_arg # <<0>>

Exit(how) == exit' = how /\ phase' = "ended"

\* The name of a file: a template without "#" names the same file each time.
templateToLabel(label_template, num) ==
    IF label_template \in Numbered THEN <<label_template, num>> ELSE <<label_template>>

PathTo(directory, template, num) == <<get(directory)>> \o templateToLabel(get(template), num)

-----------------------------------------------------------------------------
NoMap == [x \in {} |-> x]

Init ==
    /\ phase = "started" /\ task \in Tasks /\ answers = <<>> /\ exit = "running"
    /\ ts = DefaultWorld
    /\ LoaderInit /\ dfas = <<>> /\ combined_alphabet = {}
    /\ m_sym_graph = NoMap /\ open_set = {} /\ g_2_min = NoMap /\ g_2_min_goal = <<>>
    /\ solutions = <<>> /\ plan_set = <<>> /\ written = 0 /\ files = NoMap

\* The command line, up to enableHelp().
ParseCommandLine ==
    /\ phase = "started"
    /\ LET parsed == Parsed[task]
       IN  /\ answers' = parsed.answers
           /\ IF parsed.outcome # "parsed" THEN Exit(parsed.outcome)
              ELSE IF enableHelp(parsed.parser) # "return" THEN Exit(enableHelp(parsed.parser))
              ELSE phase' = "generating" /\ UNCHANGED exit
    /\ UNCHANGED <<task, ts, dfas, combined_alphabet, loader_vars, search_vars, written_vars>>

\* The grid world.  A file that is not there throws what nobody catches.
Generate ==
    /\ phase = "generating"
    /\ IF ~ has("config-filepath") THEN phase' = "loading" /\ UNCHANGED <<ts, exit>>
       ELSE IF get("config-filepath") \in DOMAIN task.disk.configs
         THEN /\ ts' = task.disk.configs[get("config-filepath")]
              /\ phase' = "loading" /\ UNCHANGED exit
       ELSE Exit("abort") /\ UNCHANGED ts
    /\ UNCHANGED <<task, answers, dfas, combined_alphabet, loader_vars, search_vars, written_vars>>

dfa_filepath == PathTo("dfa-directory", "dfa-file-template", Len(dfas))
sub_map_filepath == PathTo("dfa-directory", "sub-map-file-template", Len(dfas))

\* The files of the next automaton are loaded: its reading begins.
OpenDFA ==
    /\ phase = "loading" /\ loading = "idle" /\ Len(dfas) < get("n-dfas")
    /\ IF \/ dfa_filepath \notin DOMAIN task.disk.dfas
          \/ IsPartial /\ sub_map_filepath \notin DOMAIN task.disk.sub_maps
         THEN Exit("abort") /\ UNCHANGED loader_vars
         ELSE /\ Open(task.disk.dfas[dfa_filepath],
                      IF IsPartial THEN task.disk.sub_maps[sub_map_filepath] ELSE NoSubMap)
              /\ UNCHANGED <<phase, exit>>
    /\ UNCHANGED <<task, answers, ts, dfas, combined_alphabet, search_vars, written_vars>>

LoadDFA == phase = "loading" /\ Load /\ UNCHANGED <<main_vars, search_vars, written_vars>>

\* The assertion on the sub map's lists.
RefuseDFA ==
    /\ phase = "loading" /\ loading = "refused"
    /\ Exit("exit 1")
    /\ UNCHANGED <<task, answers, ts, dfas, combined_alphabet, loader_vars, search_vars, written_vars>>

\* Slip seen by TypeOK: the alphabets are not merged.
LastOf(alph_1, alph_2) == alph_2

\* Alphabet's operator+.
Merged(alph_1, alph_2) == alph_1 \cup alph_2

KeepDFA ==
    /\ phase = "loading" /\ loading = "loaded"
    /\ dfas' = Append(dfas, automaton)
    /\ combined_alphabet' = Merged(combined_alphabet, automaton.m_alphabet)
    /\ loading' = "idle"
    /\ UNCHANGED <<automaton, data, sub_data, row, src_node, edges, substituted>>
    /\ UNCHANGED <<phase, task, answers, ts, exit, search_vars, written_vars>>

-----------------------------------------------------------------------------
\* An automaton as a graph of the product: its connections, node by node.
GraphOf(m) ==
    [size |-> size(m), init |-> m.m_init_states, accepting |-> m.m_accepting_states,
     connections |-> FlattenSeq([n \in DOMAIN m.m_graph |->
         Mapped(m.m_graph[n], LAMBDA x : [src |-> n - 1, dst |-> x.dst, edge |-> x.edge])])]

\* The product of the world and the automata: an edge is observed where its
\* observation is.
SymbolicProductGraph ==
    LET automata == Mapped(dfas, GraphOf)
        asked == {x.edge : x \in UNION {Range(automata[i].connections) : i \in DOMAIN automata}}
    IN  [model |-> ts.model, automata |-> automata,
         observe |-> {o \in Node(ts.model) \X asked : <<o[1], o[2].observation>> \in ts.observed}]

\* The cost of the actions, and the preference cost set: nothing yet.
NoCost == [cost |-> 0, pcs |-> <<>>]

Walk(node_path, action_path, g_score) ==
    [node_path |-> node_path, action_path |-> action_path, g_score |-> g_score]

\* The first state of the model's container, and of each automaton the first
\* initial state.
init_node(p) == wrap(p, <<0>> \o Mapped(p.automata, LAMBDA a : a.init[1]))

\* The world observes the letters, and the planner is constructed and asked for
\* a plan.  A letter with an undeclared proposition fails an assertion.
BeginPlan ==
    /\ phase = "loading" /\ loading = "idle" /\ Len(dfas) >= get("n-dfas")
    /\ IF combined_alphabet \subseteq ts.declared
         THEN /\ m_sym_graph' = SymbolicProductGraph
              /\ open_set' = {Walk(<<init_node(SymbolicProductGraph)>>, <<>>, NoCost)}
              /\ phase' = "planning" /\ UNCHANGED exit
         ELSE Exit("exit 1") /\ UNCHANGED <<m_sym_graph, open_set>>
    /\ UNCHANGED <<task, answers, ts, dfas, combined_alphabet, loader_vars>>
    /\ UNCHANGED <<g_2_min, g_2_min_goal, solutions, written_vars>>

weights == <<1, 1, 1, 1, 2>>  \* setWeights

WeightedSum(pcs) == Plus([i \in DOMAIN pcs |-> weights[i] * pcs[i]])

\* Each component against the one that would be there if the tasks had been
\* completed in their order.
SumDelay(pcs) ==
    LET sorted_pcs == SortSeq(pcs, <)
    IN  Plus([i \in DOMAIN pcs |-> IF pcs[i] > sorted_pcs[i] THEN pcs[i] - sorted_pcs[i] ELSE 0])

preferenceFunction(pcs) == IF IsPartial THEN WeightedSum(pcs) ELSE SumDelay(pcs)

\* The two objectives that walks are compared in.
Objectives(g_score) == <<g_score.cost, preferenceFunction(g_score.pcs)>>

\* The objectives of an edge: a task costs something until it is accepting.
EdgeCost(node, edge) ==
    [cost |-> edge.model_edge.cost,
     pcs  |-> [i \in DOMAIN dfas |->
                 IF acc(m_sym_graph, node, i) THEN 0
                 ELSE IF IsPartial THEN edge.automaton_edge[i].substitution_cost
                 ELSE edge.model_edge.cost]]

\* gScore: an empty set is replaced by what is added to it.
gScore(g_score, edge_cost) ==
    [cost |-> g_score.cost + edge_cost.cost,
     pcs  |-> IF g_score.pcs = <<>> THEN edge_cost.pcs
              ELSE [i \in DOMAIN g_score.pcs |-> g_score.pcs[i] + edge_cost.pcs[i]]]

\* "Conjunctive acceptance".
goal(node) == \A i \in DOMAIN dfas : acc(m_sym_graph, node, i)

at(walk) == Last(walk.node_path)

\* A neighbor with the edge to it: the walk goes on along its action.
Extend(walk, child, edge) ==
    Walk(Append(walk.node_path, child), Append(walk.action_path, edge.model_edge.action),
         gScore(walk.g_score, EdgeCost(at(walk), edge)))

\* neighbors() and neighborEdges() of the end of a walk.
Extensions(walk) ==
    LET array == post(m_sym_graph, at(walk))
        neighbors == children(m_sym_graph, at(walk), array)
        neighborEdges == outgoingEdges(m_sym_graph, at(walk), array)
    IN  {Extend(walk, neighbors[k], neighborEdges[k]) : k \in DOMAIN neighbors}

-----------------------------------------------------------------------------
(***************************************************************************)
(* BOAStar::search with no heuristic (see BOAStar), an action per walk     *)
(* that is popped.  Walks that agree in nodes, actions and cost are one:   *)
(* the second to be popped would be pruned.                                *)
(***************************************************************************)
Top(walk) ==
    \A o \in open_set : ~ Costs!LexLess(Objectives(o.g_score), Objectives(walk.g_score))

\* Slip seen by FrontIsComplete: a node is expanded once only.
PrunedWhenClosed(minimum, walk) == at(walk) \in DOMAIN minimum

PrunedAtNode(minimum, walk) ==
    at(walk) \in DOMAIN minimum /\ ~ (Objectives(walk.g_score)[2] < minimum[at(walk)])

Pruned(walk) ==
    \/ PrunedAtNode(g_2_min, walk)
    \/ g_2_min_goal # <<>> /\ ~ (Objectives(walk.g_score)[2] < g_2_min_goal[1])

Closed(walk) ==
    [n \in DOMAIN g_2_min \cup {at(walk)} |->
        IF n = at(walk) THEN Objectives(walk.g_score)[2] ELSE g_2_min[n]]

SkipPruned(walk) ==
    /\ Pruned(walk)
    /\ open_set' = open_set \ {walk}
    /\ UNCHANGED <<m_sym_graph, g_2_min, g_2_min_goal, solutions, phase, exit>>

ReachGoal(walk) ==
    /\ ~ Pruned(walk) /\ goal(at(walk))
    /\ open_set' = open_set \ {walk}
    /\ g_2_min' = Closed(walk)
    /\ g_2_min_goal' = <<Objectives(walk.g_score)[2]>>  \* less than any before
    /\ solutions' = Append(solutions, walk)
    /\ UNCHANGED <<m_sym_graph, phase, exit>>

\* A neighbor that is not pruned becomes a walk.  The edges of the first
\* program assert that there are as many weights as tasks.
Expand(walk) ==
    /\ ~ Pruned(walk) /\ ~ goal(at(walk))
    /\ LET extensions == Extensions(walk)
       IN  IF IsPartial /\ extensions # {} /\ Len(weights) # Len(dfas)
             THEN Exit("exit 1") /\ UNCHANGED <<open_set, g_2_min>>
             ELSE /\ g_2_min' = Closed(walk)
                  /\ open_set' = (open_set \ {walk})
                                   \cup {x \in extensions : ~ PrunedAtNode(Closed(walk), x)}
                  /\ UNCHANGED <<phase, exit>>
    /\ UNCHANGED <<m_sym_graph, g_2_min_goal, solutions>>

Search ==
    /\ phase = "planning"
    /\ \E walk \in open_set : Top(walk) /\ (SkipPruned(walk) \/ ReachGoal(walk) \/ Expand(walk))
    /\ UNCHANGED <<task, answers, ts, dfas, combined_alphabet, loader_vars, written_vars>>

\* A plan: the states and actions of a solution, and the cost it is reported at.
Plan(walk, g_score) ==
    [state_sequence |-> Mapped(walk.node_path, LAMBDA n : unwrap(m_sym_graph, n)[1]),
     action_sequence |-> walk.action_path, cost |-> Objectives(g_score)]

\* Slip seen by PlansDoWhatTheirTitlesSay: the solutions are not permuted with
\* the front.
PlansOfFront(walks) == [k \in DOMAIN walks |-> Plan(walks[k], Reverse(walks)[k].g_score)]

\* package() turns the front around, and the solutions with it; plan() pairs
\* them again.
PlanSet(walks) == [k \in DOMAIN walks |-> Plan(Reverse(walks)[k], Reverse(walks)[k].g_score)]

EndPlan ==
    /\ phase = "planning" /\ open_set = {}
    /\ plan_set' = PlanSet(solutions)
    /\ phase' = "writing"
    /\ UNCHANGED <<task, answers, ts, dfas, combined_alphabet, exit, loader_vars, search_vars, written, files>>

-----------------------------------------------------------------------------
\* done(): a file that cannot be opened is not written, and nobody is told.
Written(path, opens, content) ==
    IF opens THEN [f \in DOMAIN files \cup {path} |-> IF f = path THEN content ELSE files[f]]
    ELSE files

\* The i-th plan, counted from 0, with its title.
PlanFile(i) ==
    [title |-> <<i, plan_set[i + 1].cost>>, action_sequence |-> plan_set[i + 1].action_sequence,
     state_sequence |-> plan_set[i + 1].state_sequence]

FrontFile == [k \in Costs!Objectives |-> [i \in DOMAIN plan_set |-> plan_set[i].cost[k]]]

\* The next plan.
WritePlan ==
    /\ phase = "writing" /\ written < Len(plan_set)
    /\ files' = IF ~ has("plan-directory") THEN files
                ELSE Written(PathTo("plan-directory", "plan-file-template", written),
                             get("plan-directory") \in task.disk.writable, PlanFile(written))
    /\ written' = written + 1
    /\ UNCHANGED <<main_vars, loader_vars, search_vars, plan_set>>

\* The front, unless there is none, and the end of main.
Finish ==
    /\ phase = "writing" /\ written = Len(plan_set)
    /\ files' = IF plan_set = <<>> \/ ~ has("pareto-front-filepath") THEN files
                ELSE LET path == get("pareto-front-filepath")
                     IN  Written(<<path>>, path \in task.disk.writable, FrontFile)
    /\ Exit("exit 0")
    /\ UNCHANGED <<task, answers, ts, dfas, combined_alphabet, loader_vars, search_vars, plan_set, written>>

Terminated == phase = "ended" /\ UNCHANGED vars

Next ==
    \/ ParseCommandLine \/ Generate
    \/ OpenDFA \/ LoadDFA \/ RefuseDFA \/ KeepDFA
    \/ BeginPlan \/ Search \/ EndPlan
    \/ WritePlan \/ Finish \/ Terminated

Spec == Init /\ [][Next]_vars
-----------------------------------------------------------------------------
\* The type invariant.
TypeOK ==
    /\ phase \in {"started", "generating", "loading", "planning", "writing", "ended"}
    /\ loading \in {"idle", "connecting", "substituting", "loaded", "refused"}
    /\ exit \in {"running", "exit 0", "exit 1", "abort"} /\ (phase = "ended" <=> exit # "running")
    /\ combined_alphabet = UNION {dfas[i].m_alphabet : i \in DOMAIN dfas}
    /\ \A walk \in open_set : Range(walk.node_path) \subseteq WideNode(m_sym_graph)
    /\ \A n \in DOMAIN g_2_min : n \in WideNode(m_sym_graph)
    /\ written \in 0 .. Len(plan_set)

\* "Do not connect if there is already": at no moment of the reading do two
\* connections of a node read the same letter, and every letter that is read is
\* in the alphabet the world will observe, the substituted ones too, though the
\* letters come from two files and the list they are checked against grows as
\* it is filled (PartialSatisfactionAutomaton.h:38, 91).
Deterministic(m) ==
    \A n \in DOMAIN m.m_graph : \A j \in DOMAIN m.m_graph[n] :
        /\ m.m_graph[n][j].edge.observation \in m.m_alphabet
        /\ \A k \in DOMAIN m.m_graph[n] :
              m.m_graph[n][j].edge.observation = m.m_graph[n][k].edge.observation => j = k

LabelsDetermineSuccessors ==
    Deterministic(automaton) /\ \A i \in DOMAIN dfas : Deterministic(dfas[i])

\* The rows of a node, whether a row is the first for its letter, and what the
\* map has for a letter.
RowsOf(n) == {k \in DOMAIN data.connections : data.connections[k].src = n}

IsFirst(k) ==
    \A j \in RowsOf(data.connections[k].src) :
        j < k => data.connections[j].label # data.connections[k].label

IsFirstFor(s, letter) == sub_data.from[s] = letter /\ \A r \in 1 .. s - 1 : sub_data.from[r] # letter

\* What the two files say of a letter read in a node: the first row for it, or
\* for a letter it substitutes, unless a row is for the letter itself.
IsOriginal(n, x) ==
    \E k \in RowsOf(n) :
        /\ IsFirst(k)
        /\ x = [dst |-> data.connections[k].dst,
                edge |-> PartialSatisfactionEdge(data.connections[k].label, 0)]

IsSubstitute(n, x) ==
    \E k \in RowsOf(n), s \in DOMAIN sub_data.from :
        /\ IsFirst(k) /\ IsFirstFor(s, data.connections[k].label)
        /\ x = [dst |-> data.connections[k].dst,
                edge |-> PartialSatisfactionEdge(sub_data.to[s], sub_data.costs[s])]
        /\ \A j \in RowsOf(n) : data.connections[j].label # sub_data.to[s]

\* "Copy so that recursive substitutions do not happen": a connection of an
\* automaton that was read is one of the DFA's, for nothing, or one of the DFA's
\* with one letter substituted once, for what the map asks; and every letter of
\* the DFA, and every substitute of one, can be read where the letter can
\* (PartialSatisfactionAutomaton.h:81-95).
SubstitutionsAreOfTheFile ==
    loading = "loaded" =>
        /\ \A n \in DOMAIN automaton.m_graph : \A j \in DOMAIN automaton.m_graph[n] :
              \/ IsOriginal(n - 1, automaton.m_graph[n][j])
              \/ IsSubstitute(n - 1, automaton.m_graph[n][j])
        /\ \A k \in DOMAIN data.connections :
              LET c == data.connections[k]
              IN  /\ IsRead(automaton, c.src, c.label)
                  /\ \A s \in DOMAIN sub_data.from :
                        IsFirstFor(s, c.label) => IsRead(automaton, c.src, sub_data.to[s])

-----------------------------------------------------------------------------
(***************************************************************************)
(* A run of the tasks: a cell, the states of the automata that read what   *)
(* is observed in the cells entered, and what it has cost.  Runs are not   *)
(* in the code: they are what plans are judged by.                         *)
(***************************************************************************)
Start == [cell |-> 0, states |-> [i \in DOMAIN dfas |-> dfas[i].m_init_states[1]], g_score |-> NoCost]

\* The ways the automata can read a cell together, letter by letter.
Readings(states, cell) ==
    LET ways(i) == {x \in Range(leaving(dfas[i], states[i])) : <<cell, x.edge.observation>> \in ts.observed}
    IN  FoldLeft(LAMBDA chosen, i : UNION {{Append(w, x) : x \in ways(i)} : w \in chosen}, {<<>>},
                 [i \in DOMAIN dfas |-> i])

Satisfied(run) == \A i \in DOMAIN dfas : isAccepting(dfas[i], run.states[i])

Moved(run, c, reading) ==
    LET delayed(i) == ~ isAccepting(dfas[i], run.states[i])
        price(i) == IF IsPartial THEN reading[i].edge.substitution_cost ELSE c.edge.cost
    IN  [cell    |-> c.dst,
         states  |-> [i \in DOMAIN dfas |-> reading[i].dst],
         g_score |-> gScore(run.g_score,
                            [cost |-> c.edge.cost,
                             pcs  |-> [i \in DOMAIN dfas |-> IF delayed(i) THEN price(i) ELSE 0]])]

MovesOf(run) == {c \in Range(ts.model.connections) : c.src = run.cell}

\* The runs along the cells and actions of a plan.
RunsAlong(plan) ==
    FoldLeft(LAMBDA runs, k :
               UNION {UNION {{Moved(run, c, reading) : reading \in Readings(run.states, c.dst)} :
                             c \in {x \in MovesOf(run) : /\ x.dst = plan.state_sequence[k + 1]
                                                         /\ x.edge.action = plan.action_sequence[k]}} :
                      run \in runs},
             {Start}, [k \in DOMAIN plan.action_sequence |-> k])

\* What is on the disk at the end is true: the actions of a plan file can be
\* executed from the first state of the world, doing so satisfies every task,
\* and costs what its title says, which is also what the front file has in its
\* place - search, extraction, sorting and serialization keep costs, nodes and
\* actions together (BOPreferencePlanner_impl.hpp:39, PlanningProblem.h:76).
PlansDoWhatTheirTitlesSay ==
    phase = "ended" /\ answers # <<>> /\ has("plan-directory") =>
        \A f \in {x \in DOMAIN files : Len(x) > 1 /\ x[1] = get("plan-directory")} :
            LET plan == files[f]
                number == plan.title[1]
                costs == plan.title[2]
            IN  /\ plan.state_sequence[1] = 0
                /\ \E run \in RunsAlong(plan) : Satisfied(run) /\ Objectives(run.g_score) = costs
                /\ has("pareto-front-filepath") /\ <<get("pareto-front-filepath")>> \in DOMAIN files =>
                     \A k \in Costs!Objectives :
                         files[<<get("pareto-front-filepath")>>][k][number + 1] = costs[k]

\* The runs of up to WalkBound moves that satisfy the tasks with the last one.
BoundedRuns ==
    LET Longer(runs) ==
            UNION {UNION {{Moved(run, c, reading) : reading \in Readings(run.states, c.dst)} :
                          c \in MovesOf(run)} : run \in {x \in runs : ~ Satisfied(x)}}
    IN  FoldLeft(LAMBDA runs, k : runs \cup Longer(runs), {Start}, [k \in 1 .. WalkBound |-> k])

\* No way to satisfy the tasks is missed: for every run that does, a plan is
\* written that is no worse in either objective, and no plan is worse than
\* another.  BOA* forgets walks by their cost and a number computed from the
\* preference cost set, which stands for the set only as long as what a walk
\* adds to it does not depend on how its node was reached
\* (PreferenceCostObjective.h:36, BOAStar_impl.hpp:77).
FrontIsComplete ==
    phase = "writing" /\ written = 0 =>
        /\ \A run \in BoundedRuns : Satisfied(run) =>
              \E i \in DOMAIN plan_set : Costs!Leq(plan_set[i].cost, Objectives(run.g_score))
        /\ \A i, j \in DOMAIN plan_set : Costs!Leq(plan_set[i].cost, plan_set[j].cost) => i = j
=============================================================================
