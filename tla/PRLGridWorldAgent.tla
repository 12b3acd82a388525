-------------------------- MODULE PRLGridWorldAgent --------------------------
(***************************************************************************)
(* The program PRLGridWorldAgent: it parses its command line, constructs   *)
(* the product and the true behavior, and runs a new learner per trial,    *)
(* whose data it serializes.                                               *)
(*                                                                         *)
(* What the files say is a member of Worlds; a command line is a member of *)
(* CommandLines.                                                           *)
(***************************************************************************)
EXTENDS Learner, ArgParser

CONSTANTS
    CommandLines,  \* the words after the program's name
    Worlds         \* a product, its initial node, and what the configuration
                   \* file says of costs and preference

\* What a file says of the costs: two numbers by default, and as many in every
\* region that has any, whose cells are nodes of the model.
IsConfig(p, config) ==
    /\ config.default \in [Costs!Objectives -> Int]
    /\ config.regions \in Seq(Range(config.regions))
    /\ \A region \in Range(config.regions) :
          /\ region.mean = <<>> \/ region.mean \in [Costs!Objectives -> Int]
          /\ region.cells \in Seq(Node(p.model))

ASSUME WorldsAssumption ==
    /\ CommandLines \subseteq Seq(Word)
    /\ \A w \in Worlds :
          /\ w.product \in Products /\ w.init_node \in Node(w.product.model)
          /\ w.preference \in [Costs!Objectives -> Int]
          /\ IsConfig(w.product, w.config)

VARIABLES
    parser,
    answers,    \* the arguments parsed so far, in the order of Options
    trial,
    data_file,  \* what the serializer was given, per trial
    exit,       \* how the program ended
    init_node   \* the model's initial state

main_vars == <<parser, answers, trial, data_file, exit, init_node>>

vars == <<phase, learner_vars, data_vars, efe_vars, main_vars>>

-----------------------------------------------------------------------------
\* The options in the order main parses them.
Options ==
    <<Option("", "v", "void", <<>>),
      Option("regret", "r", "void", <<>>),
      Option("no-plan-data", "", "void", <<>>),
      Option("formula-filepath", "f", "string", <<"formulas.yaml">>),
      Option("config-filepath", "c", "string", <<>>),
      Option("data-filepath", "d", "string", <<>>),
      Option("selector", "", "string", <<"aif">>),
      Option("instances", "i", "uint32_t", <<10>>),
      Option("trials", "t", "uint32_t", <<1>>),
      Option("efe-samples", "", "uint32_t", <<300>>),
      Option("confidence", "", "float", <<<<1, 1>>>>)>>

has(key) == Answer(Options, answers, key).m_valid
get(key) == Answer(Options, answers, key).m_arg[1]

\* getSelector
getSelector(label) ==
    CASE label \in {"aif", "Aif"} -> "aif"
      [] label \in {"uniform", "Uniform"} -> "uniform"
      [] label \in {"topsis", "TOPSIS"} -> "topsis"
      [] label \in {"weights", "Weights"} -> "weights"
      [] OTHER -> "unrecognized"

Exit(how) == exit' = how /\ phase' = "ended"

-----------------------------------------------------------------------------
Init ==
    /\ phase = "parsing"
    /\ \E argv \in CommandLines : parser = NewParser(argv)
    /\ answers = <<>> /\ trial = 0 /\ data_file = <<>> /\ exit = "running"
    /\ \E w \in Worlds :
         /\ m_product = w.product
         /\ init_node = w.init_node
         /\ m_preference = w.preference
         /\ m_true_behavior = deserializeConfig(w.product, w.config)
         /\ m_current_product_node = init_product_node(w.product, w.init_node)
         /\ m_behavior_handler = NewHandler(w.product)
    /\ m_num_instances = 0 /\ result = NoResult /\ selected_ind = 1 /\ step = 0
    /\ candidate = 0 /\ best = [min_ind |-> 1, min_efe |-> 0]
    /\ m_buffer_instance = NewInstance /\ m_instances = <<>>
    /\ m_cumulative_cost = Costs!Zero /\ m_steps = 0 /\ m_pareto_front_cache = {}
    /\ EFEInit

\* The next parse() of main.
Parse ==
    LET parsed == _parse(parser, Options[Len(answers) + 1])
    IN  /\ phase = "parsing" /\ Len(answers) < Len(Options)
        /\ parser' = parsed.parser
        /\ IF parsed.outcome = "parsed"
             THEN answers' = Append(answers, parsed.argument) /\ UNCHANGED <<phase, exit>>
             ELSE Exit(parsed.outcome) /\ UNCHANGED answers
        /\ UNCHANGED <<trial, data_file, init_node, learner_vars, data_vars, efe_vars>>

\* enableHelp(), getSelector() and the construction of everything that lasts.
\* Without a configuration the true behavior loads a file with no name, which
\* throws what nobody catches.
Construct ==
    /\ phase = "parsing" /\ Len(answers) = Len(Options)
    /\ IF enableHelp(parser) # "return" THEN Exit(enableHelp(parser))
       ELSE IF getSelector(get("selector")) = "unrecognized" THEN Exit("exit 1")
       ELSE IF ~ has("config-filepath") THEN Exit("abort")
       ELSE phase' = "between trials" /\ UNCHANGED exit
    /\ UNCHANGED <<parser, answers, trial, data_file, init_node, learner_vars, data_vars, efe_vars>>

\* The next trial: a new learner on the same product.
StartTrial ==
    /\ phase = "between trials" /\ trial < get("trials")
    /\ initialize(m_product, init_node)
    /\ phase' = "planning"
    /\ UNCHANGED <<m_product, m_preference, m_true_behavior, efe_vars, main_vars>>

LearnerStep ==
    \/ Search(get("instances"))
    \/ StopRunning(get("instances"))
    \/ Select(getSelector(get("selector")))
    \/ Evaluate(getSelector(get("selector")), get("efe-samples"))
    \/ Await
    \/ Compare(get("efe-samples"))
    \/ SelectAif
    \/ Execute
    \/ FinishInstance(has("regret"))

Run == LearnerStep /\ UNCHANGED main_vars

\* The assertion that some weight is positive.
NoWeight ==
    /\ phase = "selecting" /\ getSelector(get("selector")) = "weights"
    /\ \A d \in Costs!Objectives : m_preference[d] <= 0
    /\ Exit("exit 1")
    /\ UNCHANGED <<parser, answers, trial, data_file, init_node, learner_vars, data_vars, efe_vars>>

-----------------------------------------------------------------------------
\* What DataCollector::serialize says of the instances: the candidate chosen
\* unless plans are excluded, the sample, the regret and its sum so far.
Serialized(exclude_plans) ==
    [i \in DOMAIN m_instances |->
        [chosen |-> IF exclude_plans THEN <<>> ELSE <<m_instances[i].selected_plan_index>>,
         sample |-> m_instances[i].cost_sample,
         regret |-> m_instances[i].m_regret[1],
         cumulative_regret |-> SumOver([j \in 1 .. i |-> m_instances[j].m_regret[1]])]]

\* After a trial its data is serialized, if a file was given.  getRegret
\* asserts that there is a regret handler.
Report ==
    /\ phase = "reporting"
    /\ IF ~ has("data-filepath")
         THEN phase' = "between trials" /\ trial' = trial + 1 /\ UNCHANGED <<exit, data_file>>
       ELSE IF m_instances # <<>> /\ ~ has("regret")
         THEN Exit("exit 1") /\ UNCHANGED <<trial, data_file>>
       ELSE /\ data_file' = Append(data_file, Serialized(has("no-plan-data")))
            /\ phase' = "between trials" /\ trial' = trial + 1 /\ UNCHANGED exit
    /\ UNCHANGED <<parser, answers, init_node, learner_vars, data_vars, efe_vars>>

\* The end of main: the serializer is done.
Finish ==
    /\ phase = "between trials" /\ trial >= get("trials")
    /\ Exit("exit 0")
    /\ UNCHANGED <<parser, answers, trial, data_file, init_node, learner_vars, data_vars, efe_vars>>

Main == Parse \/ Construct \/ StartTrial \/ Run \/ NoWeight \/ Report \/ Finish

Worker(t) == Work(t) /\ UNCHANGED main_vars

Terminated == phase = "ended" /\ UNCHANGED vars

Next == Main \/ (\E t \in Thread : Worker(t)) \/ Terminated

\* The operating system runs the caller and every worker it started.  Only the
\* evaluations need it: the rest of the program is one thread.
Fairness ==
    /\ WF_vars(Await /\ UNCHANGED main_vars)
    /\ WF_vars(Compare(get("efe-samples")) /\ UNCHANGED main_vars)
    /\ \A t \in Thread : WF_vars(Worker(t))

Spec == Init /\ [][Next]_vars /\ Fairness
-----------------------------------------------------------------------------
\* The type invariant.
TypeOK ==
    /\ phase \in {"parsing", "between trials", "planning", "selecting", "evaluating", "compared",
                  "executing", "reporting", "ended"}
    /\ m_behavior_handler \in Handler(m_product)
    /\ m_current_product_node \in WideNode(m_product)
    /\ m_num_instances = Len(m_instances)
    /\ step \in Nat /\ m_steps \in Nat /\ trial \in Nat
    /\ m_cumulative_cost \in Costs!CostVector /\ m_buffer_instance.cost_sample \in Costs!CostVector
    /\ exit \in {"running", "exit 0", "exit 1", "abort"}

\* The steps the data collector counts when an instance is finished, from the
\* plan that was selected, and the actions executed since are the visits the
\* behavior handler counted one by one: its exploration bonus grows with what
\* really happened (DataCollector.h:86, BehaviorHandler.h:40).
StepsAreVisits == m_behavior_handler.m_state_visits = m_steps + step

\* Every sample drawn is in the estimate of one action and in the cost of one
\* instance: the handler's elements together have as many visits as it counted
\* and the cumulative cost with the instance under way, and the cumulative cost
\* is that of the finished instances (Learner.h:112, DataCollector.h:84).
BooksBalance ==
    LET elements == m_behavior_handler.elements
    IN  /\ SumFunction([pair \in DOMAIN elements |-> elements[pair].m_n]) = m_behavior_handler.m_state_visits
        /\ \A d \in Costs!Objectives :
             /\ SumFunction([pair \in DOMAIN elements |-> elements[pair].sum[d]])
                  = m_cumulative_cost[d] + m_buffer_instance.cost_sample[d]
             /\ m_cumulative_cost[d] = SumOver([i \in DOMAIN m_instances |-> m_instances[i].cost_sample[d]])

\* What the instance was executed along.
chosen(instance) == instance.paths[instance.selected_plan_index]

\* Every instance starts, on all its candidate plans, at the product node where
\* the plan executed before it ended, the first at the initial node and the next
\* at the learner's current one: executing a plan, reading back its last node
\* and handing over the data agree (Learner.h:188, DataCollector.h:91).
InstancesChain ==
    /\ \A i \in DOMAIN m_instances : \A x \in Range(m_instances[i].paths) :
         x.node_path[1] = initial_node(IF i = 1 THEN init_product_node(m_product, init_node)
                                       ELSE Last(chosen(m_instances[i - 1]).node_path).base_node)
    /\ m_current_product_node =
         IF m_instances = <<>> THEN init_product_node(m_product, init_node)
         ELSE Last(chosen(Last(m_instances)).node_path).base_node

\* The plan of a finished instance completes as many tasks as the horizon asks
\* for with its last step and not before: an automaton counts each time it
\* becomes accepting, also one that was accepting when the instance began
\* (SearchProblem.h:34).
EveryInstanceDoesItsTasks ==
    phase = "planning" => \A i \in DOMAIN m_instances :
        LET nodes_of == chosen(m_instances[i]).node_path
            entered(k) == {a \in DOMAIN m_product.automata :
                             /\ acc(m_product, nodes_of[k + 1].base_node, a)
                             /\ ~ acc(m_product, nodes_of[k].base_node, a)}
            tasks(n) == SumOver([k \in 1 .. n - 1 |-> Cardinality(entered(k))])
        IN  /\ tasks(Len(nodes_of)) >= CompletedTasksHorizon
            /\ tasks(Len(nodes_of) - 1) < CompletedTasksHorizon

\* The costs of all plans for one task from a node, under the true behavior.
TrueCosts(node) == {TrueCost(m_product, m_true_behavior, x) : x \in GoalPaths(m_product, node, 1)}

\* The regret of a finished instance is the least amount its cost would have to
\* fall by, in every objective, for no plan from the node it started at to be
\* better in all objectives - whatever earlier instances put into the cache of
\* fronts (Regret.h:26, ParetoFront.h:39).
RegretIsExact ==
    phase = "planning" => \A i \in DOMAIN m_instances :
        LET data == m_instances[i]
            below(epsilon) == \E c \in TrueCosts(data.paths[1].node_path[1].base_node) :
                                \A d \in Costs!Objectives : c[d] < data.cost_sample[d] - epsilon
            epsilon_of == data.m_regret[1]
        IN  data.m_regret[2] =>
              /\ ~ below(epsilon_of)
              /\ epsilon_of > 0 => below(epsilon_of - 1)

\* When the caller goes on, no worker is still reading the samplers and updaters
\* on its stack, and what it averages are as many samples as were asked for,
\* each once (EFE.h:89-101).
SamplesAreAllAveraged ==
    /\ phase # "evaluating" => returned = Thread
    /\ AllJoined /\ phase = "compared" =>
         /\ SumOver([t \in 1 .. THREAD_COUNT |-> s[t - 1]]) = get("efe-samples")
         /\ unnormalized_entropy = SumOver([t \in 1 .. THREAD_COUNT |-> entropy_sums[t - 1]])

-----------------------------------------------------------------------------
\* What a command line says, read as a whole: every dashed word is an option, no
\* option is there twice, and the other words are the values of the options
\* that take one.  A number's value has a number in front that its type can
\* hold: "3x" makes sense, and is 3.
DashedWords(argv) == {i \in DOMAIN argv : ~ isValue(argv[i])}

OptionAt(argv, i) == {k \in DOMAIN Options : Names(Options[k], argv[i])}

ValueAfter(argv, i) == \A k \in OptionAt(argv, i) : Options[k].type # "void"

WellFormed(argv) ==
    /\ \A i \in DashedWords(argv) : OptionAt(argv, i) # {}
    /\ \A i, j \in DashedWords(argv) : OptionAt(argv, i) = OptionAt(argv, j) => i = j
    /\ \A i \in DOMAIN argv \ DashedWords(argv) : i - 1 \in DashedWords(argv) /\ ValueAfter(argv, i - 1)
    /\ \A i \in DashedWords(argv) : \A k \in OptionAt(argv, i) : Options[k].type # "void" =>
         i + 1 \in DOMAIN argv \ DashedWords(argv) /\ converts(Options[k].type, argv[i + 1].text)

Expected(argv, k) ==
    LET at == {i \in DOMAIN argv : Names(Options[k], argv[i])}
    IN  IF at # {}
          THEN IF Options[k].type = "void" THEN Indicated
               ELSE Given(to(Options[k].type, argv[1 + CHOOSE i \in at : TRUE].text))
        ELSE IF Options[k].default = <<>> THEN NotGiven ELSE Given(Options[k].default[1])

\* The options are looked up one at a time, each marking the words it takes: a
\* command line asking for help ends the program well whatever else it holds,
\* one that makes sense is answered as it is read as a whole, in any order, and
\* any other never gets past the parser (ArgParser.h:187-262, 146).  That is
\* said of the words, not of the letters in one: what follows the number a value
\* begins with is dropped, and a negative one wraps, without a sign of it
\* (ArgParser.h:291, 299).
AnswersFollowTheCommandLine ==
    phase # "parsing" =>
        IF \E i \in DOMAIN parser.argv : parser.argv[i] \in HelpWords
          THEN phase = "ended" /\ exit = "exit 0"
        ELSE IF WellFormed(parser.argv)
          THEN /\ answers = [k \in DOMAIN Options |-> Expected(parser.argv, k)]
               /\ enableHelp(parser) = "return"
        ELSE phase = "ended" /\ exit \in {"exit 1", "abort"}

\* Every evaluation of a candidate ends: the caller gets its futures in the
\* order it made them, whatever the order the workers return in, and a worker
\* with nothing to draw returns too (EFE.h:93-100).
EvaluationsEnd == (phase = "evaluating") ~> (phase = "compared")
=============================================================================
