# Verification of grapefruit

grapefruit is a C++20 template library for discrete task planning: transition systems and the automata of
temporal-logic tasks are composed into a product, which A\*, BOA\* and NAMOA\* search for plans of least cost or for the
Pareto front of several costs. On top of it stand planner programs, which trade costs against preferences and write
plans to files, and an application, Pareto reinforcement learning (PRL), that plans, executes and learns repeatedly.
Everything but one function is sequential: the interesting behaviour is not concurrency but long loops over state that
is updated in place, with elements that go out of date, pointers into containers that are erased from, caches shared
by several queries, counts kept in several objects, and contracts between a search and its problem that no test checks.

## 1. Inventory

| Component | State | Operations | Used by | Hard behaviour | What makes it correct | Modelled in |
|---|---|---|---|---|---|---|
| `graph_search/AStar*` | open set (priority queue), `min_cost_map`, `search_tree` | `search`, `extractPath` | task planner, heuristics | outdated queue elements, reopening, free cycles | least cost, the path costs it, returns | `AStar` |
| `graph_search/BOAStar*` | open set, enumerated walks, `g_2_min`, `g_2_min_goal` | `search`, `extractPath` | preference planner, regret | pruning by one objective only | exactly the Pareto front, paths cost it, returns | `BOAStar` |
| `graph_search/NAMOAStar*` | open set of two tied sets, cost sets per node, search graph, solution set | `search`, `extractPaths` | PRL, preference planner | pointers to list items that are erased; extraction over a shared graph | the front, no dangling pointer, paths for all solutions | `NAMOAStar` |
| `graph_search/*SearchProblem.h` | graph, initial and goal nodes, heuristic | `neighbors`, `goal`, `gScore`, `hScore` | the searches | the contract on `hScore` | (the searches') | `SearchProblem`, `MOSearchProblem` |
| `tools/ObjectiveContainers.h` | arrays of objective values | comparisons, dominance, sums | the searches | early exit of `forEach` | orders and sums by component | `ObjectiveContainers` |
| `theory/ParetoFront.h`, `tools/Algorithms.h` | points | `sort`, `applyPermutation`, `regret` | search results, PRL | permuting two sequences alike | same order for points and paths; the regret is the distance to the front | `MOSearchResult`, `TaskSearchProblem` |
| `core/Graph.h`, `tools/Containers.h` | forward and backward adjacency lists, access pointers | `connect`, `disconnect*`, `rdisconnectIf`, `reverse`, `clear` | everything | two copies of every connection | both directions tell of the same connections | `Graph` |
| `core/DirectedAcyclicGraph.h` | ancestors | `connect`, `removeDeadLeaves` | an example | `connect` never succeeds | acyclicity | - |
| `core/SymbolicProductAutomaton*`, `core/ProductProjection.h` | sizes, a small cache | `children`, `outgoingEdges`, `parents`, `incomingEdges`, wrap/unwrap, `project` | planners, PRL | parallel vectors from separate calls, cache shared by both directions | answers are the product's, whatever is cached | `Product`, `SymbolicProduct` |
| `core/Automaton*`, `theory/PartialSatisfactionAutomaton*` | graph, states, alphabet | `connect`, `deserialize` | planner programs | substituting while adding | one successor per letter; what is added is of the files | `Automaton` |
| `core/StateSpace`, `State`, `Condition` | domains, labels, groups | evaluation, access capture | transition system | negation, exclusion, shifts | condition semantics | `Condition` |
| `core/TransitionSystem*` | graph of states, propositions | `generate`, `observe` | models | breadth-first construction | every reachable state once | `TransitionSystem*` |
| `models/*` | configuration | construct transition systems | applications | regions over several cells | the moves that are meant | `Manipulator`, `GridWorldAgent` |
| `planners/*`, `src/src/planners/*` | product, plans, preference costs, files | `plan`, the programs | user | preference that is not a sum of edges | plans do what is reported, nothing better is missing | `PreferencePlanner` |
| `planners/heuristic/*` | heuristic tables | `heuristic` | nothing | not implemented | - | - |
| `learning/UCB.h`, `theory/ParetoSelector*`, `EFE.h` | visits, futures | selectors, evaluation | PRL | asynchronous workers, ties | every sample drawn once, the caller waits for all | `ParetoSelector`, `GaussianEFE` |
| PRL (`src/src/pareto_reinforcement_learning/`) | estimates, buffers, instances, cached fronts | plan, select, execute, collect, report | program | counts and positions kept in three objects | bookkeeping matches what was executed | `BehaviorHandler`, `TaskSearchProblem`, `Learner`, `PRLGridWorldAgent` |
| `tools/ArgParser.h`, `tools/Serializer.h` | words taken, descriptions | `parse`, `enableHelp`, `done` | programs | options looked up one at a time | a command line means what it says as a whole | `ArgParser` |
| `statistics/*`, generators, scripts | | | | floating point | | - |

They interact by direct calls and template parameters: a search asks its problem, the problem asks a graph or a
symbolic product; the product asks its model and automata; planners build problems from products; PRL drives searches in
a loop. The hazards of each part, at their lines, are listed in `PROJECT.json`.

## 2. Plan

Most important first; all steps are done but for what is named in the last.

1. A\*: `SearchProblem`, `AStar` implementing `OptimalSearch`, proved in `AStarProofs`.
2. Multi-objective searches: `ObjectiveContainers`, `MOSearchProblem`, `MOSearchResult`, `BOAStar` and
   `NAMOAStar`, both implementing `ParetoSearch`; that they do, and what holds of them under any heuristic, is proved in
   `BOAStarProofs` and `NAMOAStarProofs`.
3. The product: `Product` (pure), `SymbolicProduct` (its cache) implementing `ProductGraph`, proved in
   `SymbolicProductProofs`.
4. `Graph` implementing `Multigraph`, proved in `GraphProofs`.
5. Transition systems: `Condition` (pure), `TransitionSystem` and `TransitionSystemGenerator`, with
   `Manipulator` and `GridWorldAgent` as the models generated, implementing `Construction` of the moves that
   `IntendedMoves` says are meant.
6. PRL: `Learner` over `TaskSearchProblem` and `BehaviorHandler`, the threads of `GaussianEFE`, and the program
   `PRLGridWorldAgent` around them; its eight invariants proved in `PRLGridWorldAgentProofs`.
7. Planner programs: `Automaton` and `PreferencePlanner`, which composes it with `Product` and BOA\* over preference
   costs; determinism, fidelity to the files, what a plan file promises and the completeness of the first program's
   front proved in `PreferencePlannerProofs`.
8. Open: the deterministic and the multi-objective planner (A\* and NAMOA\* on the same product).

## 3. The modules

Names follow the source. Where a definition is called *slip*, it is a plausible mistake in the definition after it; no
specification uses it, and it shows that a property would notice that mistake.

**`SearchProblem`, `OptimalSearch`, `AStar`, `AStarProofs`, `MCAStar`.** A problem is the adjacency of an explicit
graph, its initial and goal nodes and a heuristic. `AStar` has one action per way through the code's loop: an outdated
element is skipped, a goal is popped (and its path followed back, one parent per step), a node is expanded, and each
neighbor is relaxed or kept. The queue is a set because two elements of a node never share a g-score; ties are broken
in every way. `OptimalSearch` says what is promised: the answer is the least cost of a walk to a goal, or a failure if
there is none.

**`ObjectiveContainers`, `MOSearchProblem`, `MOSearchResult`, `ParetoSearch`.** Cost vectors with the comparisons and
both additions, problems over them (with the container the costs are held in), the result with the sort that
`package()` calls, and the promise of a multi-objective search: it reports points of the front, never one that is not
in it, and ends when none is missing.

**`BOAStar`, `BOAStarProofs`, `MCBOAStar`.** Walks are enumerated and stored by number with the number of the walk they extend. The
second objective of a node's last expansion and of the last goal is all that later walks are held against.

**`NAMOAStar`, `NAMOAStarProofs`, `MCNAMOAStar`.** An item of a cost set is a node and a cost; every pointer the code keeps is such a pair
and is valid while `cost_map` holds the item. `KeptOpen`, `KeptCosts` and `KeptGraph` are what `eraseDominated` and its
callback leave. The search graph is kept as its forward lists, which is what extraction reads; that the backward lists,
through which the callback finds the connections, agree with them is the business of `Graph`. Extraction is a stack of
partial paths, popped from the end. The graph has a size, that of the largest node connected so far: the extraction asks
it for the children of every initial node, and for one beyond that size it reads memory past its end, which ends the
run (`ReadPastGraph`) or finds no connections (`FollowConnections`).

**`MCMOProblems`, `MOSearchProofs`.** The bounded problems both multi-objective searches are run on, and the lemmas their
proofs share.

**`Graph`, `Multigraph`, `GraphProofs`.** Two adjacency lists per node; `Multigraph` is the bag of connections they stand for.
`Next` has the operations that are used, `NextWithDisconnect` adds the two `disconnect` methods, which nothing calls
but `DirectedAcyclicGraph::removeDeadLeaves`.

**`Product`, `SymbolicProduct`, `ProductGraph`, `SymbolicProductProofs`, `MCSymbolicProduct`.** `Product` has the
mixed-radix numbering of product nodes, the enumeration of combined transitions, initial and accepting nodes and
projection, as operators over sequences, in the order the code enumerates them. `SymbolicProduct` adds the cache and
one action per query. `ProductGraph` is a product that caches nothing.

**`Condition`, `TransitionSystem`, `TransitionSystemGenerator`.** A state gives each label a variable. `Condition`
evaluates sub-conditions as the code does, with what they access and the arguments they store; that decides which labels
a move may change. `TransitionSystem` has the numbered states, the outgoing connections, the propositions and the
parser of observations, whose four stacks are one stack of frames. The generator has one action per pair of a node and
a candidate state (all conditions are tried in it), one to go to the next node, and one to end. An alphabet is added
when the model is built: neither model passes one to the generator, where adding an empty one does nothing.

**`Manipulator`, `GridWorldAgent`.** What `generate()` is given for a manipulator: the state space, four conditions, the
initial state and the propositions. A grid world makes its connections itself, one direction per action; a state with a
number is a pair of coordinates, and the two insertions of `connect(src_state, dst_state, ...)`, whose order C++ leaves
open, happen in both orders.

**`Construction`, `IntendedMoves`, `MCModels`.** `Construction` promises that only moves of the task are added, only from
what is found, and that none is missing at the end. `IntendedMoves` says what the models are meant to do, as updates of
one state: a hand that picks up and puts down, an agent that walks between free cells. The refinement therefore holds
the condition language against what its users meant by it. `MCModels` chooses the models, among them one (`TidyArm`)
whose conditions use domains, disjunctions and omissions, which the manipulator's do not, and one (`BoundArm`) that cannot
move at all, and writes labels in all the ways an automaton's are: negated groups of negated literals.

**`ArgParser`.** A word is its text and the dashes in front of it; a parser is the words, which of them are taken and
what was documented. `_parse` is one call of it, with the ways it ends the program; `enableHelp` looks at what is left.
What `std::stoi` and `std::stof` make of a text is given by two constants, `stoi` and `stof`: the number in front of each
text they convert (`20`, `0.5`, `2x`, and 1 for `1.5` where an integer is asked for); at any other text they throw, which
nothing catches. A negative `int` becomes a `uint32_t` by wrapping at twice `INT_MAX + 1`.

**`BehaviorHandler`, `TaskSearchProblem`.** The first has an estimate per state and action (the number of visits and the
sum of samples; the posterior mean is that of the updater's formulas, rounded down), the visit count the exploration
bonus is computed from, and the true means a configuration file gives. The second is the search problem of an
instance: product nodes with the number of tasks completed, the costs of paths under the estimates and under the truth,
and what a search may answer. `IsSearchResult` is the promise of `ParetoSearch`, which `BOAStar` is shown to keep: the
learner runs on what the search promises, for every order and choice of equal paths.

**`ParetoSelector`, `GaussianEFE`.** A selector is the set of indices it may answer. `GaussianEFE` has one action per
thing a thread does: the caller starts workers and gets their futures in order, and a worker draws a sample or
returns. `THREAD_COUNT` is a constant (20 in the code). What `entropy()` returns is any number of `Entropies`.

**`Learner`, `PRLGridWorldAgent`, `PRLGridWorldAgentProofs`, `MCPRLGridWorldAgent`.** `Search`, `Select`, `Evaluate`,
`Await`, `Work`, `Compare`, `SelectAif`, `Execute` (one action of the plan) and `FinishInstance` are the parts of
`Learner::run`; `initialize` is called by the program's `StartTrial`. The data collector's buffer, instances and sums and the regret's cache are
variables of their own, because that they agree is the point. The program parses eleven options, constructs, runs the
trials, and serializes.

**`Automaton`, `PreferencePlanner`, `PreferencePlannerProofs`, `MCPreferencePlanner`.** `Automaton` reads the rows of a
DFA file and substitutes the letters of each node, one connection per step. `PreferencePlanner` is both bi-objective
programs: the command line, the grid, the automata read one after the other, the product (`Product`), BOA\* with the
costs of `PreferenceCostObjectivePlugins.h` (a cost and one preference cost per task, of which `preferenceFunction`
makes a number), the plans and the files. A plan's walk is kept with its open element instead of by number, since
`BOAStar` is where numbers are checked.

### References in the models

The searches are judged against `CostToGo` and `ParetoToGo`: constants that give, per problem, the least costs (or
nondominated costs) from every node with a number of hops. An `ASSUME` pins them down by local conditions (no edge
leads to something better; some edge attains every cost, nearer to a goal), so TLC verifies the reference it is given
and the proofs may rely on it. Each problem in the MC modules carries its reference as a field, computed once.

The planner is held against runs of the tasks that are not computed from the product: a cell and the states the automata
reach by what is observed on the way, up to `WalkBound` actions. Regret is held against its definition (the least amount
by which a cost would have to fall in all objectives to be on or below the front), not against its loop.

## 4. The runs

| Run | Configuration | States | Shows |
|---|---|---|---|
| `astar` | `MCAStar.cfg` | 123982 | A\* is optimal with every admissible heuristic, consistent or not; ASSERT holds; labels are never forgotten; the tree stays a tree; it returns |
| `boastar` | `MCBOAStar.cfg` | 282051 | BOA\* finds exactly the front with paths that cost it, given a consistent heuristic and costs that add |
| `namoastar` | `MCNAMOAStar.cfg` | 225698 | NAMOA\* finds exactly the front under any admissible heuristic; its structures agree; no pointer dangles; every solution gets a walk; it ends, in a result unless an initial node lies beyond its graph |
| `namoastar_paths` | `MCNAMOAStarPaths.cfg` | | *violated:* the walk need not cost what its point says |
| `graph` | `Graph.cfg` | 4024 | both directions of the graph tell of the same bag of connections |
| `graph_disconnect` | `GraphDisconnect.cfg` | | *violated:* `disconnect` with an edge removes parallel connections in one direction |
| `product` | `MCSymbolicProduct.cfg` | 14856 | queries are exact whatever is cached; edges and neighbors are parallel; projection, initial and accepting nodes read a number alike |
| `product_both_ways` | `MCSymbolicProductBothWays.cfg` | | *violated:* the cache confuses the two directions |
| `models` | `MCModels.cfg` | 6473 | manipulators and grids get exactly the moves that are meant, labelled so that a label leads to one place, each undone by another; observations mean what they say |
| `agent` | `MCPRLGridWorldAgent.cfg` | 54401 | estimates, costs, steps, instances and regrets of the learner agree with what was executed, whatever is selected and sampled; every sample is averaged, every evaluation ends; every word of the command line is taken by the option it belongs to, or the line is refused |
| `planner` | `MCPreferencePlanner.cfg` | 4154 | automata stay deterministic while they are read and are what the files say; a plan written does what its title says, and no run of the tasks is better than the front |
| `planner_front` | `MCPreferencePlannerRevisited.cfg` | | *violated:* with a task whose acceptance can be left, the delay objective loses points of the front |

**Bounds.** The searches run on families of four-node graphs, chosen so that what the algorithms distinguish happens: a
node reached dear first and reopened from a second way; parallel edges; self-loops (A\*); cycles that are free in one or
both objectives; several initial nodes, several goals, a goal that is passed on the way to another; no solution. For A\*
every admissible heuristic with values 0, 1 and 3 is tried (6768 problems), for BOA\* and NAMOA\* the zero heuristic, the
exact one by component (BOA\*: also that one cut off), for NAMOA\* also one that is inconsistent; costs go up to 6, and
fronts have up to three points. Four nodes suffice to have a node that is overtaken after it was
expanded and has successors, which is what pruning, reopening and erasing are about; the A\* results are proved for all
sizes. The product runs on a model of two nodes with automata of three and two, and on three automata, so that
every digit has a different weight; caches have one or two elements, so that hits, misses and evictions happen.
`Graph` runs on nodes 0 to `MaxNode` = 2, two edge values and at most `MaxConnections` = 3 connections at a time:
parallel, equal and opposite connections and loops. The manipulators have two objects and three locations with a stow
position (128 candidate states, of which those without two objects in one place are reached), two objects of which one
is held at first and no stow position, and one object with every label of two groups of up to two literals over two
propositions; two objects are enough for one to be in the way of the other, and three locations for a way round it.
The grids are 3 by 2 without obstacles, a corridor of two cells, and 3 by 3 with a wall that leaves a corner and has two
regions of one cell. The arm that cannot move has a label that is true of its only state, so that the observation
container grows beyond the graph (without one, finding 21). `Garbage` is what an uninitialised counter starts with; `{0}` is
the kindest choice, under which the violation is found all the same.

The agent runs 18 command lines in three worlds: a diamond of four cells with a task that can be done again and again, the
same with a task that is done once beside it (so that a later instance may find nothing left), and a corridor; one way
is cheap in one objective and the other in the other, so that fronts have two points. There are up to three instances
and two trials, samples with and without noise that would fall below zero, two threads, up to three samples (one
more than the threads share evenly) and none. Among the values are numbers with something behind them, fractions where an
integer is asked for, a negative one and one beyond `INT_MAX`, which is 32767 in the runs. Two threads are enough for a future to be ready before an earlier one.
The planner runs 68 tasks in grids of four cells with one dear way round, with up to five automata, substitutions that
chain, repeat or are refused, and command lines that end the programs in every way; `WalkBound` = 7 is longer than any
plan that visits the letters in any order.

**Fairness.** `WF_vars(Next)`: each search is one sequential function, so while a step is possible it is taken. Nothing
is assumed about which of several equal elements a queue prefers. The product and the graph promise no progress. Of the agent, `WF` of each
worker, of the caller that waits and of what it does then: the operating system runs every thread. The programs
themselves are given none: that the learner and the planner go on is the business of the searches, which are shown to
end; with a product that has no more tasks to complete a search fails and the trial ends.

**Deadlock.** A search that has returned has no successor, so the searches' runs switch the deadlock check off;
termination is `EventuallyReturns` instead. A transition system that has been observed is done. A product that failed its assertion has exited; programs that ended stay so (`Terminated`). `Graph`'s run keeps it on.

**Contracts the runs assume.** BOA\*: consistent heuristic (`Consistent`), sums that add (`Additive`); NAMOA\*:
`Admissible`, `Additive`; A\*: admissible. Each contract is checked as a filter on the problems, and what happens
outside it is a finding. The product's clients call it in one direction (`OneWay`): each client in the code, a
search in one direction, has a product object of its own; an automaton has an initial and an accepting state, and a
cache has room for one element (`cache_size` is 1 by default). A manipulator starts with at most one object in every
place and in the hand (the code asserts the latter), the regions of the `models` run have one cell and a
proposition each, and its labels nest brackets one deep.

## 5. What is proved

All proofs are checked by TLAPS down to the leaves; the constants are arbitrary up to the named assumptions.

**A\*** (`AStarProofs`, from `ProblemAssumption`): `TypeCorrect`, `AssertionHolds` (the code's ASSERT on inserted
g-scores), `TreeAlwaysBoundsLabels`, `NothingForgotten`, and `Refinement`: A\* implements `OptimalSearch`. Optimality is
not inductive. The invariant `IInv` adds to the types: an inserted score is never below the label
(`InsertedScoreNotBelowLabel`), so an element that is not outdated carries the label itself; a label is at least its parent's plus
the edge (`TreeBoundsLabels`); every label waits in the open set, is being offered, or has been offered to all
neighbors (`NoLabelForgotten`); labels are costs of walks (`LabelsAreCosts`), so never below the least; and a result is
right once set (`ResultIsRight`). The core is `OpenBelowCostToGo`: between two expansions, and for every initial node
that reaches a goal, some element of the open set has an f-score no larger than the least cost from there. Of the
labelled nodes whose label plus cost to go is no more than that cost, take the one with the fewest hops to a goal (the
least element of a set of naturals, `NatLeastElement`): had it been offered to its neighbors, the next node on its
cheapest way would be such a node with fewer hops; so it waits in the open set (`NoLabelForgotten`). The goal popped
first therefore costs no more than the least cost, and by `LabelsAreCosts` no less.

`PathIsExplained` says that the edges of the path returned cost what is reported. Following the parents back, the edges
collected so far cost no more than the goal's label less the label reached (`TreeAlwaysBoundsLabels`) and no less than the
cost to go from there; at an initial node the label is zero and the two bounds meet at the least cost. The code's cost of
a path is a fold; that an edge put in front adds its cost (`PathCostOfEdgeInFront`) is shown with the sums of the path's
prefixes, by the least length that were an exception.

**BOA\*** (`BOAStarProofs`, from `MOProblemAssumption`, of which it uses that a problem has its types and finitely many
initial nodes, and `TwoObjectives`): `WalksAreAForest`, `ReturnedAreSolutions` and `NoPointTwice`, under any heuristic,
consistent or not, and with both containers. The invariant has it that the numbers are used without a gap (`Numbered`, so
the next is new), that every walk extends an earlier one by an edge (`WalksExtend`), that open elements and the walk being
extracted are numbered (`ElementsKnown`, `ExtractionIsWalk`: the part extracted so far is a walk to a goal, and
`EdgeInFront` keeps it one), and that the result's three sequences belong together (`ResultIsSolutions`), which sorting
them apart keeps. For `NoPointTwice` the second objective falls from each point stored to the next (`FrontFalls`): a
popped goal's f-score, no less than its cost, is below the goals' minimum. Numbers are naturals here; the code's wrap after
2^32 walks.

Where `gScore` adds (`Additive`), `CostsAreExplained`: the k-th point of the front is what the edges of the k-th path cost.
The invariant is that a function gives every numbered walk the cost its edges add up to, by way of its parent, and that
elements carry that cost (`IsWalkCost`); while a path is extracted, the part found and the walk still to be followed cost
the goal's score together. Where the heuristic is consistent too, `Refinement`: BOA\* implements `ParetoSearch`, so it
reports every point of the front and nothing else. Both hypotheses are needed (findings 1 and 2 are what happens
without), and `boastar` checks the property for problems that have both.
The invariant `PInv`: no element leads to less than the front (`HeadsAboveFront`), and elements are taken up in the order
of the first objective (`TakenInOrder`), so what is pruned against a second objective is dominated in both. Whatever the
walk that a node was last expanded for leads to of the front is therefore reported already or still ahead
(`ExpandedSettled`), and with it all that the walks pruned there lead to. What is found is on the front
(`OnlyFrontFound`), and each point of the front that is not reported lies ahead: a head or an edge not looked at yet leads
to it (`AllFrontAhead`). When the open set is empty, nothing is ahead.

**NAMOA\*** (`NAMOAStarProofs`, from `MOProblemAssumption` and `NodesAssumption`, that nodes are numbers and there is one). Under any
heuristic and with both containers: `TypeCorrect`, `OpenNeverDangles`, `FlagsFollowOpenSet` and `CostSetsTradeOff`. That
an open element's item is still held is not inductive by itself: erasing an item removes its open element only if the
item is marked as open, so the flags have to be right first (`FlagsAgree`).

Where `gScore` adds, and under every admissible heuristic, consistent or not: `Refinement` (NAMOA\* implements
`ParetoSearch`), `PathsAreFound` (`EverySolutionHasAPath`) and `ViewsAgree` (`SearchStateAgrees`). The argument, in the
order of the file:

- The search (`PInv`). No item held leads to less than the front (`HeldAboveFront`); whatever point an item held leads
  to is found, or ahead: an open item leads to it in no more steps, or an edge not looked at yet in fewer
  (`HeldSettled`, whose count of steps keeps a walk that is skipped from being justified by the very edge that is
  skipped). An item that a point lies ahead of is never erased (`NotErased`), so solutions stay valid. A popped goal is
  on the front: any smaller point not found would have an open item before it in the lexicographic order
  (`PoppedGoalOnFront`). When nothing is open, the front is found.
- The search graph (`CInv`). It has no parent pointers, so "there is a way to this item" is said without recursion: every
  set of items that holds it and is closed backwards along connections holds an initial item (`ChainsReachHeld`).
- The extraction (`EInv`). There is an assignment of different items of solutions, with the costs wanted, to the
  solutions without a path, such that whatever is closed backwards and holds an assigned item holds the end of a path on
  the stack (`Reached`). Popping a path removes its end from such a set and leaves it closed, or the path's extensions
  are pushed. A path recorded for the wrong goal of the same cost exchanges two items of the assignment
  (`RecordAssigns`). An empty stack would then contradict the set of all items, so nothing is left without a path.
- The two-way story of search graph and cost map (`UInv`): connections lead to held items, different ones to different
  items, and every held item but the initial ones has one. Erasing goes through a fold (`Sublist`), of which
  `SublistPlaces` says that it keeps exactly the elements wanted, at places of their own.

**Graph** (`GraphProofs`, from `GraphAssumption`): `BothEndsAgree`, the mirror of outgoing and incoming lists for any number
of nodes, parallel connections and self-loops, and `Refinement`: `Graph` implements `Multigraph`. The invariant adds to
the mirror that nodes are numbered without a gap and that lists are lists of connections. An operation is reduced to what
it does to `Occurrences`: an `Append` adds one of one kind, and removing (a fold over a list) leaves none of the kinds
removed and all of the others, which again takes the least length that were an exception. Both concern `Next`; with the
two `disconnect` methods the mirror breaks (finding 6).

**Product** (`SymbolicProductProofs`, from `ProductAssumption` and `CacheSizesAssumption`): `TypeCorrect` (the cache
never outgrows its size); under `OneDirection`, `AssertionNeverFails` and `Refinement`: a caching product answers every
sequence of queries as one that caches nothing. The invariant is `CacheFaithful`: an entry holds what the operations in
use would compute for its node.

`NumbersAgree` (also under `OneDirection`) is about the numbers: the children and parents the last answer names are
projected, graph by graph, onto children and parents or stay where they were, and the initial and accepting nodes
enumerated are exactly those whose parts are. It needs the invariant that an answer which is on the record is the one its
question has (`AnswerIsOwn`), and of `ProductAssumption` that what a graph lists is a sequence. Wrapping and unwrapping
are folds; they are unfolded into sequences of prefixes and compared digit by digit: below a graph's weight the
remainder is the number of what came before (`Together`), and a number has its digits only (`Apart`). Options are
numbered the same way, so that `permutations` picks every choice of one option each and nothing else (`PicksAreChoices`,
`ChoicesArePicked`). Numbers are naturals here; the code's 64-bit numbers wrap.

`AnswersAreExact` (also under `OneDirection`): the answers list the transitions that leave or enter the node, each once.
`Enumerates` says that the places of a list and the members of a set belong together one to one. It holds of what is
picked from a list (`AmongEnumerates`), hence of the options of an automaton; of the choices of one option each, by the
digits (`PicksPlaces`); and of a flattened list of such lists (`NestedEnumerations`). Together the answers enumerate the
transitions (`OutwardOnce`, `InwardOnce`), and a list that enumerates has as many entries of each kind as the set has
members (`EnumeratedOnce`).

**Learner** (`PRLGridWorldAgentProofs`): `StepsAreVisitsInvariant` and `InstancesChainInvariant`, for every product, world,
selector, command line and number of threads. That steps are visits is inductive once nothing of a plan has been
executed before it is selected (`Counts`). That instances form a chain needs that a search result that is being used was
searched from the learner's current node (`SearchedFromHere`), which `FinishInstance` and `Search` pass to and fro.
`AveragesAreComplete` is `SamplesAreAllAveraged` for any number of threads, from `EFEAssumption`: a worker that returned
has drawn its share, what is joined has returned, and the caller has the sum of what it joined (`Waited`, `Averaged`);
a worker that still draws is not joined yet, so its sum is not in the caller's. That the shares add up to the samples
asked for (`SharesAddUp`) and that a number was asked for at all (`Asked`: `_parse` answers a `uint32_t` with a number or
ends the program) belong to it. `CommandLineIsAnswered` is `AnswersFollowTheCommandLine` for command lines of any words and
any length and any tables `stoi` and `stof`, from `WorldsAssumption` and `NumbersAssumption`. It is about the words: that each
is taken once, by the option it belongs to, and answered with what the library reads of it. It does not say that all of a
value is read: `-i 3x` makes sense and is 3, and the program runs as if told so (section 7). While options are parsed, the words marked are exactly those the options so far took, each at
the first word that names it (`Parsed`); since keys and flags differ (`KeysDiffer`) a word names one option at most, so
the next option finds all of its words unmarked (`NextIsUnmarked`). In the end no word is left unmarked if and only if
the command line makes sense (`SenseIsTaken`, `TakenIsSense`).

The other four are about what the learner computes, so the folds behind its product, its search and its sums have to be
known. A fold is a recursive function on the sets of positions; what holds of its base and is kept by every step holds
of its value (`FoldsWithin`), by the least length that were an exception, and a sum over a finite set grows by what one
element does (`OneAdded`). The product's steps are those of `SymbolicProductProofs`, which the module instantiates
(`Symbolic`). `GoalPathsAreWalks` says what the rounds of `GoalPaths` find: finitely many walks of the product, none
through a node twice, each to the first node where enough tasks are done; they are all found, because a walk that is
still going has come by no more nodes than there are (`ShortWalks`). The invariant is `BInv`: what a trial does not
change (`Settings`), the learner's types (`Learned`), that a search result in use holds such walks and what is picked of
it is one of them (`Planned`), the types of the collector (`Collected`), the plans of finished instances (`Achieved`),
and the books themselves.

- `TypesAreKept` (`TypeOK`) is part of it. An action executed has an element because a walk's step is a transition of
  the product.
- `BooksAlwaysBalance` (`BooksBalance`): an action adds one sample to one element and to the instance under way
  (`VisitIsBooked`); finishing moves the instance's cost to the sum.
- `InstancesDoTheirTasks` (`EveryInstanceDoesItsTasks`): the count at a node of a walk is the number of tasks completed up
  to it (`WalksCountTasks`). The theorem supposes that the horizon and the number of automata are at most 256 together:
  the code counts tasks with a `uint8_t`, and a step beyond it would make the count start over.
- `RegretsAreExact` (`RegretIsExact`), with `RInv`: the cache holds the fronts of its nodes, and an instance's regret was
  computed with the front of the node it started at. The rest is about `regret` and `ParetoFrontOf`: the loop ends with
  the greatest of the smallest differences to the points that are no worse (`RegretIsGreatest`), the list holds the
  nondominated costs (`FrontIsListed`: counting what comes before a point numbers the front without a gap), and of finitely
  many costs each is no better than one of them (`FrontIsBelow`).

They assume `WorldsAssumption` (`IsConfig`: a file gives two numbers per region, and cells of the model), `ProductAssumption`,
`LearnerAssumption` and `BehaviorAssumption`.

**Automata** (`PreferencePlannerProofs`, from `TasksAssumption`): `ReadingIsDeterministic`: `LabelsDetermineSuccessors`
for all files. The invariant adds that the graph is a sequence of sequences of connections to nodes, that the copied
connections lead to nodes, and that rows are those of the file; the core is that `connect` looks through all
connections of its source before it appends one. `FilesAreFollowed`: `SubstitutionsAreOfTheFile` for all files. `SInv`
says what is connected at each stage: the first rows, each unless an earlier one has its letter (`Connecting`); then all
rows and, for the nodes before `src_node` and the connections before `substituted`, the substitutes, while the nodes
after `src_node` still have rows only (`Substituting`), so that what is copied next are rows (`CopyIsOfTheRows`). A
substitute is only connected if its letter is not read, hence no row is for it (`SubstitutedIsOfTheFile`); the map's
`CHOOSE` is the only first index of a letter (`FirstForALetter`); nodes past the last one have no rows (`NextNodeKeepsSInv`).

**Planner programs** (`PreferencePlannerProofs`, also from `PlannableAssumption` and `SomeTaskAssumption`). The first says that
a world is a model whose moves lead to its nodes and that a DFA starts in a state which a connection brings about; a file
that does not would make the program number nodes that are not there. The second says that a program which gets to plan
was asked for a task (`--n-dfas` 0 makes `permutations` read past its array).

- `TypesAreKept` (`TypeOK`). `LInv` says what was read: each connection leads to a state of its automaton, and the first
  initial state is one, since the row that brings it about is connected and nothing shrinks. Hence the product is one
  that the lemmas of `SymbolicProductProofs` speak of (`ProductIsPlannable`). That module supposes that accepting states and all
  initial ones are nodes, which files need not respect and the planners do not rely on: the product is looked at
  without them (`Seen`, `SameSteps`), and then the numbers it deals with are nodes (`ConnectionsLeave`).
- `PlansAreExecutable` (`PlansDoWhatTheirTitlesSay`). `TInv` says that each walk of the search has a run of the tasks along it
  (`IsTrace`): where a walk is at, the run's cell and states are the node's parts, each step is one the automata can
  read, and the costs are equal. A neighbor of the end of a walk is a step of the run (`StepsAreReadings`) at the same
  cost (`CostsAgree`), so it keeps being true (`OneMoreStep`). A solution is a walk to a goal, a plan is made of one
  solution, and a file is that of one plan, also where a template without `#` has them overwrite each other. That the run
  is among the runs along the plan unfolds two more folds (`ReadingsAreChosen`, `TracesGoAlong`). That the command line is
  what the programs go by is part of it: `WhatIsParsed` follows the options through the fold that parses them.
- `NoTradeOffIsMissed` (`FrontIsComplete`, of `BOPartialSatisfactionPreferencePlanner`, for runs of any length). It supposes
  `BoundAssumption` (`WalkBound` is a number) and `NoCostIsNegative`: what the files say costs something, costs no less
  than nothing; with a negative cost the first walk to be popped at a node need not be the cheapest. Nothing keeps a file
  from it, so it is a hypothesis of the theorem and not an assumption on the constants. What an edge of the program costs
  depends on its ends alone, so whoever pays less in both objectives pays no more later (`PaysOn`). `SearchInv` says that
  for each path from the start to a goal there is a solution that costs no more, or an open walk at one of its nodes from
  which it can be completed at no more (`FromStart`); the same of each path from an expanded node, for one who has paid
  what it is closed with, from the next node on (`Looked`); and that solutions come in ascending order of their cost and
  descending of their preference (`Ordered`). A pruned walk is behind an expanded node or a solution (`Handled`), and
  what was ahead of that is ahead of it (`AheadOfDearer`, `PoppedIsFollowed`): a path may come to the same node again, so
  the lemma goes down from the path's end. When nothing is open a solution is left. With another number of tasks than there
  are weights, the program exits as soon as it would extend a walk (`FewInv`). That the paths are all there is holds
  because each move of a run is a connection of the product (`MovesAreSteps`), so a run is at the end of one (`RunsAreReached`).

**Only model-checked:** liveness (fairness and `ENABLED` are beyond the prover), the transition systems (conditions and
the parser of observations are recursive over their data), and `FrontIsComplete` of `BOActionCostPreferencePlanner`: it is
true of the runs of `planner` but not of every task, since what its walks add to the preference depends on how their node was
reached (finding 13).

## 6. Findings

Details, lines and quotes are in `PROJECT.json`; those a run shows are marked with its name, the others were seen in the
code that a model translates.

1. BOA\* needs a consistent heuristic; the documented requirement is admissibility.
2. `TypeGenericArray::operator+` stops adding after a component whose sum is zero.
3. The comparator of `getSortedPermutation` compares an element with itself, so fronts are not sorted.
4. NAMOA\*'s `extractPaths` may attach to a point of the front a walk that costs something else (`namoastar_paths`).
5. The symbolic product's cache keys ignore their type, so `parents()` can be given `children()`'s element (`product_both_ways`).
6. `Graph::disconnect(src, dst, edge)` removes all parallel connections from the backward list (`graph_disconnect`).
7. `AdjacencyList::disconnectIf` counts from an uninitialised number.
8. `RandomAccessList::resize` after `clear()` makes nodes share an adjacency list (not modelled; seen by running the code).
9. A region's proposition only holds in the last of its cells, and in the last region that shares it.
10. `Equals` between a label and a variable ignores `Negate`.
11. A bracket that ends in a bracket is read as if the inner one were false: `(a & (b | c))` is always false (seen by
    running the code).
12. Access captures work for 31 dimensions, not for 64.
13. The delay objective is not a sum along a walk when acceptance can be left, and BOA\* loses plans (`planner_front`).
14. `BOPartialSatisfactionPreferencePlanner` sets five weights whatever the number of automata, `MOPreferencePlanner` three.
15. The bi-objective programs plan from the first state generated, not from the configured one.
16. The front of action cost and delay is written with another axis title.
17. `DirectedAcyclicGraph::connect` refuses everything; the plan iterators' prefix and postfix increments are exchanged.
18. PRL: writing data without `--regret` ends with exit code 1 before anything is written; the default grid cannot be
    run; `TOPSIS` uses uninitialised distances; `M_2_PI` is taken for 2 pi; `cumulativeRegret()` stays 0; `Quantifier`
    and `BehaviorHandler::deserialize` (both unused) lose the sample and the visit count.
19. The ASSERT on dashes in option keys tests an empty string.
20. NAMOA\*'s extraction reads past the search graph for an initial node beyond every connection (`ReadPastGraph`).
21. The observation container has no place for an initial state without moves of which no label is true.

## 7. Not modelled, and why

- Of the command line, the letters of a value: the tables say how its number reads. Nothing in the code compares the number
  with the text (`ArgParser.h:291`, `:299`), so what follows it is dropped (`3x`, `1.5` for an integer) and a negative number
  becomes a large one without a sign of it, which the model does as well and no property forbids. That `stof` rounds is left out.
- Floating-point statistics (`statistics/*`, but for the posterior mean) have no discrete behaviour to distinguish; YAML
  and text, logging and the Python scripts are pure I/O; `generateFromFormula` runs an external translator.
- The planning heuristics compute nothing (`MaxMCTGHeuristic::heuristic` is an empty loop) and are used by nobody, the
  directed acyclic graph accepts no connection, and the random generators only feed examples and the benchmark.
- `DeterministicTaskPlanner` and `MOPreferencePlanner` are the compositions of the same product with A\* and NAMOA\*; their
  searches and their product are modelled, the compositions are not.
- `package()`'s release of memory, the retained search structures of a result, and negative costs; numbers do not
  overflow in the models (product nodes are assumed to fit 64 bits, BOA\*'s walks 32).
- Of transition systems, the costs of moves where they are generated, serialization and ranks above 31; of the agent,
  the animation, the benchmark and saving estimates.
