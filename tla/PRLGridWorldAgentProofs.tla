----------------------- MODULE PRLGridWorldAgentProofs -----------------------
(***************************************************************************)
(* Proofs that, in every world and on every command line, the steps the    *)
(* data collector counts are the visits of the behavior handler, that      *)
(* every instance starts where the plan executed before it ended, that an  *)
(* evaluation averages all samples of any number of workers, that the      *)
(* answers are what the command line says when it is read as a whole, that *)
(* every sample is in the books of the handler and of the collector, that  *)
(* an instance does as many tasks as were asked for, and that its regret   *)
(* is how far it is from the front.                                        *)
(***************************************************************************)
EXTENDS PRLGridWorldAgent, FiniteSetTheorems, WellFoundedInduction, TLAPS

\* What is counted is a number, and nothing of a plan is executed before it is
\* selected.
Counts ==
    /\ m_steps \in Nat /\ step \in Nat
    /\ phase \in {"planning", "selecting", "evaluating", "compared"} => step = 0

\* The instances are a sequence.
InstancesAreListed == \E S : m_instances \in Seq(S)

\* While there is a search result, it was searched from the current node.
Searched == {"selecting", "evaluating", "compared", "executing"}

SearchedFromHere ==
    phase \in Searched =>
        \A x \in Range(result.solution_set) : x.node_path[1] = initial_node(m_current_product_node)

IInv == Counts /\ StepsAreVisits /\ InstancesAreListed /\ SearchedFromHere /\ InstancesChain

-----------------------------------------------------------------------------
\* What the chain of instances is about.
Chained == <<m_product, init_node, m_current_product_node, m_instances>>

LEMMA ChainKept ==
    ASSUME InstancesAreListed, InstancesChain, UNCHANGED Chained
    PROVE  InstancesAreListed' /\ InstancesChain'
  BY DEF Chained, InstancesAreListed, InstancesChain, chosen, init_product_node

\* A step that executes nothing and brings no new result keeps the invariant,
\* if it does not enter the phases that say something of either.
LEMMA NothingNew ==
    ASSUME IInv, UNCHANGED Chained, UNCHANGED <<m_steps, m_behavior_handler, result>>,
           step' = step \/ (step' = 0 /\ step = 0),
           phase' \in Searched => phase \in Searched,
           phase' \in {"planning", "selecting", "evaluating", "compared"} =>
               phase \in {"planning", "selecting", "evaluating", "compared"}
    PROVE  IInv'
<1>1. Counts' /\ StepsAreVisits'
  BY DEF IInv, Counts, StepsAreVisits
<1>2. SearchedFromHere'
  BY DEF IInv, SearchedFromHere, Chained
<1> QED
  BY <1>1, <1>2, ChainKept DEF IInv

\* Search brings a new result, which starts here.
LEMMA SearchKeepsIInv ==
    ASSUME IInv, NEW max_instances, Search(max_instances), UNCHANGED init_node
    PROVE  IInv'
<1>1. IsSearchResult(m_product, m_current_product_node, result')
  BY DEF Search, SearchResults
<1>2. \A x \in Range(result'.solution_set) : x.node_path[1] = initial_node(m_current_product_node)
  BY <1>1 DEF IsSearchResult, Range
<1>3. UNCHANGED Chained /\ UNCHANGED <<m_steps, step, m_behavior_handler>>
      /\ phase = "planning" /\ phase' = "selecting"
  BY DEF Search, Chained, data_vars
<1>4. SearchedFromHere'
  BY <1>2, <1>3 DEF SearchedFromHere, Chained
<1>5. Counts' /\ StepsAreVisits'
  BY <1>3 DEF IInv, Counts, StepsAreVisits
<1> QED
  BY <1>3, <1>4, <1>5, ChainKept DEF IInv

\* An action is one more visit and one more step.
LEMMA ExecuteKeepsIInv ==
    ASSUME IInv, Execute, UNCHANGED init_node
    PROVE  IInv'
<1>1. step' = step + 1 /\ m_behavior_handler'.m_state_visits = m_behavior_handler.m_state_visits + 1
  BY DEF Execute, visit
<1>2. UNCHANGED Chained /\ UNCHANGED <<phase, result, m_steps>> /\ phase = "executing"
  BY DEF Execute, Chained
<1>3. Counts' /\ StepsAreVisits'
  BY <1>1, <1>2 DEF IInv, Counts, StepsAreVisits
<1>4. SearchedFromHere'
  BY <1>2 DEF IInv, SearchedFromHere, Chained
<1> QED
  BY <1>2, <1>3, <1>4, ChainKept DEF IInv

\* A finished instance has counted its plan's steps, all executed, and is
\* chained to the instances before and to the node reached.
LEMMA FinishKeepsIInv ==
    ASSUME IInv, NEW calc_regret, FinishInstance(calc_regret), UNCHANGED init_node
    PROVE  IInv'
<1>1. PICK data : /\ m_instances' = Append(m_instances, data)
                  /\ data.paths = result.solution_set
                  /\ data.selected_plan_index = selected_ind
  <2>1. m_instances' = Append(m_instances, Finished(calc_regret))
    BY DEF FinishInstance
  <2>2. /\ Finished(calc_regret).paths = result.solution_set
        /\ Finished(calc_regret).selected_plan_index = selected_ind
    BY DEF Finished
  <2> QED BY <2>1, <2>2
<1>2. /\ phase = "executing" /\ phase' = "planning"
      /\ step = Len(plan.edge_path) /\ step' = 0
      /\ m_steps' = m_steps + Len(plan.edge_path)
      /\ m_current_product_node' = PlanBack
      /\ UNCHANGED <<m_product, m_behavior_handler, result, selected_ind>>
  BY DEF FinishInstance, Finished, plan
<1>3. Counts' /\ StepsAreVisits'
  BY <1>2 DEF IInv, Counts, StepsAreVisits
<1>4. SearchedFromHere'
  BY <1>2 DEF SearchedFromHere, Searched
<1>5. PICK S : m_instances \in Seq(S)
  BY DEF IInv, InstancesAreListed
<1>6. m_instances' \in Seq(S \cup {data})
  BY <1>1, <1>5
<1>7. Len(m_instances') = Len(m_instances) + 1 /\ Len(m_instances) \in Nat
      /\ m_instances'[Len(m_instances) + 1] = data
      /\ \A i \in 1 .. Len(m_instances) : m_instances'[i] = m_instances[i]
  BY <1>1, <1>5
<1>8. chosen(data) = plan
  BY <1>1 DEF chosen, plan
<1>9. InstancesChain'
  <2>1. \A x \in Range(data.paths) : x.node_path[1] = initial_node(m_current_product_node)
    BY <1>1, <1>2 DEF IInv, SearchedFromHere, Searched
  <2>2. m_current_product_node' = Last(chosen(m_instances'[Len(m_instances')]).node_path).base_node
    BY <1>2, <1>7, <1>8 DEF PlanBack, Last
  <2>3. ASSUME NEW i \in DOMAIN m_instances', NEW x \in Range(m_instances'[i].paths)
        PROVE  x.node_path[1] = initial_node(IF i = 1 THEN init_product_node(m_product, init_node)
                                 ELSE Last(chosen(m_instances'[i - 1]).node_path).base_node)
    <3>1. CASE i \in DOMAIN m_instances
      BY <1>5, <1>7, <2>3, <3>1 DEF IInv, InstancesChain
    <3>2. CASE i = Len(m_instances) + 1
      <4>1. x.node_path[1] = initial_node(m_current_product_node)
        BY <1>7, <2>1, <2>3, <3>2
      <4>2. m_instances = <<>> <=> i = 1
        BY <1>5, <1>7, <3>2
      <4>3. i # 1 => Last(m_instances) = m_instances'[i - 1]
        BY <1>5, <1>7, <3>2, <4>2 DEF Last
      <4> QED BY <4>1, <4>2, <4>3 DEF IInv, InstancesChain
    <3> QED BY <1>5, <1>6, <1>7, <2>3, <3>1, <3>2
  <2>4. m_instances' # <<>> /\ Last(m_instances') = m_instances'[Len(m_instances')]
    BY <1>1, <1>5, <1>6, <1>7 DEF Last
  <2> QED BY <1>2, <2>2, <2>3, <2>4 DEF InstancesChain, chosen, init_product_node
<1> QED
  BY <1>3, <1>4, <1>6, <1>9 DEF IInv, InstancesAreListed

-----------------------------------------------------------------------------
\* The program starts with nothing counted and no instance.
LEMMA InitHasIInv == Init => IInv
<1> SUFFICES ASSUME Init PROVE IInv
  OBVIOUS
<1>1. Counts /\ StepsAreVisits
  BY DEF Init, NewHandler, Counts, StepsAreVisits
<1>2. m_instances = <<>> /\ m_instances \in Seq({})
  BY DEF Init
<1>3. m_current_product_node = init_product_node(m_product, init_node)
  BY DEF Init, init_product_node
<1>4. InstancesChain
  BY <1>2, <1>3 DEF InstancesChain
<1>5. SearchedFromHere
  BY DEF Init, SearchedFromHere, Searched
<1> QED
  BY <1>1, <1>2, <1>4, <1>5 DEF IInv, InstancesAreListed

\* A new trial starts over, at the initial node.
LEMMA StartTrialHasIInv ==
    ASSUME StartTrial
    PROVE  IInv'
<1>0. /\ m_steps' = 0 /\ step' = 0 /\ m_behavior_handler' = NewHandler(m_product)
      /\ m_instances' = <<>> /\ phase' = "planning"
  BY Zenon DEF StartTrial, initialize
<1>1. Counts' /\ StepsAreVisits'
  BY <1>0 DEF NewHandler, Counts, StepsAreVisits
<1>2. m_instances' \in Seq({})
  BY <1>0
<1>3. m_current_product_node' = init_product_node(m_product, init_node)
      /\ UNCHANGED <<m_product, init_node>>
  BY DEF StartTrial, initialize, main_vars
<1>4. InstancesChain'
  BY <1>0, <1>3 DEF InstancesChain, init_product_node
<1>5. SearchedFromHere'
  BY <1>0 DEF SearchedFromHere, Searched
<1> QED
  BY <1>1, <1>2, <1>4, <1>5 DEF IInv, InstancesAreListed

\* Every step of the learner keeps the invariant.
LEMMA LearnerStepKeepsIInv ==
    ASSUME IInv, Run
    PROVE  IInv'
<1> init_node' = init_node
  BY DEF Run, main_vars
<1>1. CASE Search(get("instances"))
  BY <1>1, SearchKeepsIInv
<1>2. CASE StopRunning(get("instances"))
  BY <1>2, NothingNew DEF StopRunning, learner_vars, data_vars, Chained, Searched
<1>3. CASE Select(getSelector(get("selector")))
  <2>1. UNCHANGED Chained /\ UNCHANGED <<m_steps, m_behavior_handler, result>>
        /\ phase = "selecting" /\ phase' = "executing" /\ step' = 0
    BY <1>3 DEF Select, HoldDistributions, Chained
  <2>2. step = 0
    BY <2>1 DEF IInv, Counts
  <2> QED BY <2>1, <2>2, NothingNew DEF Searched
<1>4. CASE Evaluate(getSelector(get("selector")), get("efe-samples"))
  BY <1>4, NothingNew DEF Evaluate, data_vars, Chained, Searched
<1>5. CASE Await
  BY <1>5, NothingNew DEF Await, learner_vars, data_vars, Chained, Searched
<1>6. CASE Compare(get("efe-samples"))
  BY <1>6, NothingNew DEF Compare, data_vars, Chained, Searched
<1>7. CASE SelectAif
  <2>1. UNCHANGED Chained /\ UNCHANGED <<m_steps, m_behavior_handler, result>>
        /\ phase = "compared" /\ phase' = "executing" /\ step' = 0
    BY <1>7 DEF SelectAif, HoldDistributions, Chained
  <2>2. step = 0
    BY <2>1 DEF IInv, Counts
  <2> QED BY <2>1, <2>2, NothingNew DEF Searched
<1>8. CASE Execute
  BY <1>8, ExecuteKeepsIInv
<1>9. CASE FinishInstance(has("regret"))
  BY <1>9, FinishKeepsIInv
<1> QED
  BY <1>1, <1>2, <1>3, <1>4, <1>5, <1>6, <1>7, <1>8, <1>9 DEF Run, LearnerStep

\* Every step of the program keeps the invariant.
LEMMA StepKeepsIInv == IInv /\ [Next]_vars => IInv'
<1> SUFFICES ASSUME IInv, [Next]_vars PROVE IInv'
  OBVIOUS
<1> USE DEF learner_vars, data_vars, Chained, Searched
<1>1. CASE Parse
  BY <1>1, NothingNew DEF Parse, Exit
<1>2. CASE Construct
  BY <1>2, NothingNew DEF Construct, Exit
<1>3. CASE StartTrial
  BY <1>3, StartTrialHasIInv
<1>4. CASE Run
  BY <1>4, LearnerStepKeepsIInv
<1>5. CASE NoWeight
  BY <1>5, NothingNew DEF NoWeight, Exit
<1>6. CASE Report
  BY <1>6, NothingNew DEF Report, Exit
<1>7. CASE Finish
  BY <1>7, NothingNew DEF Finish, Exit
<1>8. ASSUME NEW t \in Thread, Worker(t) PROVE IInv'
  BY <1>8, NothingNew DEF Worker, Work, main_vars
<1>9. CASE UNCHANGED vars
  BY <1>9, NothingNew DEF vars, main_vars
<1> QED
  BY <1>1, <1>2, <1>3, <1>4, <1>5, <1>6, <1>7, <1>8, <1>9 DEF Next, Main, Terminated

\* The invariant holds in every world, on every command line, whatever the
\* workers do.
LEMMA Invariance == Spec => []IInv
  BY InitHasIInv, StepKeepsIInv, PTL DEF Spec

\* The steps the data collector counts from the plans that were selected, and
\* the actions executed since, are the visits the behavior handler counted one
\* by one (DataCollector.h:86, BehaviorHandler.h:40).
THEOREM StepsAreVisitsInvariant == Spec => []StepsAreVisits
<1>1. IInv => StepsAreVisits
  BY DEF IInv
<1> QED
  BY <1>1, Invariance, PTL

\* Every instance starts, on all its candidate plans, at the product node where
\* the plan executed before it ended (Learner.h:188, DataCollector.h:91).
THEOREM InstancesChainInvariant == Spec => []InstancesChain
<1>1. IInv => InstancesChain
  BY DEF IInv
<1> QED
  BY <1>1, Invariance, PTL

-----------------------------------------------------------------------------
\* The order of the natural numbers, as a relation.
NatLess == {pair \in Nat \X Nat : pair[1] < pair[2]}

\* A nonempty set of natural numbers has a least element: the form of induction
\* used here.
LEMMA LeastNumber ==
    ASSUME NEW T \in SUBSET Nat, T # {}
    PROVE  \E x \in T : \A y \in T : x <= y
<1>1. OpToRel(<, Nat) = NatLess
  BY Zenon DEF OpToRel, NatLess
<1>2. \E x \in T : \A y \in T : <<y, x>> \notin NatLess
  BY <1>1, NatLessThanWellFounded, WFMin, Zenon
<1>3. PICK x \in T : \A y \in T : <<y, x>> \notin NatLess
  BY <1>2
<1>4. ASSUME NEW y \in T PROVE x <= y
  <2>1. x \in Nat /\ y \in Nat /\ <<y, x>> \notin NatLess
    BY <1>3
  <2>2. ~ (y < x)
    BY <2>1, SMT DEF NatLess
  <2> QED
    BY <2>1, <2>2, SMT
<1> QED
  BY <1>4

\* So has a set of numbers up to n a greatest.
LEMMA GreatestNumber ==
    ASSUME NEW n \in Nat, NEW T \in SUBSET (1 .. n), T # {}
    PROVE  Max(T) \in T /\ \A y \in T : Max(T) >= y
<1> DEFINE U == {n - x : x \in T}
<1>1. U \in SUBSET Nat /\ U # {}
  <2>1. \A x \in T : n - x \in Nat
    OBVIOUS
  <2> QED
    BY <2>1
<1>2. PICK u \in U : \A y \in U : u <= y
  <2> HIDE DEF U
  <2> QED
    BY <1>1, LeastNumber
<1>3. PICK x \in T : u = n - x
  BY <1>2
<1>4. \A y \in T : x >= y
  <2> SUFFICES ASSUME NEW y \in T PROVE x >= y
    OBVIOUS
  <2>1. n - x <= n - y
    BY <1>2, <1>3
  <2> QED
    BY <2>1
<1> QED
  BY <1>4 DEF Max

-----------------------------------------------------------------------------
(***************************************************************************)
(* Sums.                                                                   *)
(***************************************************************************)
\* SumOver's recursion, on the sets of the numbers up to n.
Summed(v, g, T) == IF T = {} THEN 0 ELSE g[T \ {Max(T)}] + v[Max(T)]

SumsUpTo(v, n, g) == g = [T \in SUBSET (1 .. n) |-> Summed(v, g, T)]

\* The recursion has a solution.
LEMMA SumsExist ==
    ASSUME NEW v, NEW n \in Nat
    PROVE  \E g : SumsUpTo(v, n, g)
<1> DEFINE Solved(l) == \E g : SumsUpTo(v, l, g)
           Missed == {l \in Nat : ~ Solved(l)}
<1>1. Solved(0)
  <2> DEFINE g == [T \in SUBSET (1 .. 0) |-> 0]
  <2>1. \A T \in SUBSET (1 .. 0) : T = {}
    OBVIOUS
  <2>2. SumsUpTo(v, 0, g)
    BY <2>1 DEF SumsUpTo, Summed
  <2> QED
    BY <2>2
<1>2. ASSUME NEW l \in Nat, Solved(l) PROVE Solved(l + 1)
  <2>1. PICK g : SumsUpTo(v, l, g)
    BY <1>2
  <2> DEFINE h == [T \in SUBSET (1 .. l + 1) |->
                      IF l + 1 \in T THEN g[T \ {l + 1}] + v[l + 1] ELSE g[T]]
  <2>2. ASSUME NEW T \in SUBSET (1 .. l + 1) PROVE h[T] = Summed(v, h, T)
    <3>1. CASE l + 1 \in T
      <4>1. Max(T) = l + 1
        <5>1. l + 1 \in Nat /\ T # {}
          BY <3>1
        <5>2. Max(T) \in T /\ \A y \in T : Max(T) >= y
          BY <5>1, GreatestNumber
        <5>3. Max(T) \in 1 .. l + 1 /\ Max(T) >= l + 1
          BY <3>1, <5>2
        <5> QED
          BY <5>3
      <4>2. T \ {l + 1} \in SUBSET (1 .. l + 1) /\ l + 1 \notin T \ {l + 1}
        OBVIOUS
      <4>3. h[T \ {l + 1}] = g[T \ {l + 1}]
        BY <4>2
      <4>4. h[T] = g[T \ {l + 1}] + v[l + 1]
        BY <3>1
      <4> QED
        BY <3>1, <4>1, <4>3, <4>4 DEF Summed
    <3>2. CASE l + 1 \notin T
      <4>1. T \in SUBSET (1 .. l)
        BY <3>2
      <4>2. h[T] = g[T] /\ g[T] = Summed(v, g, T)
        BY <2>1, <3>2, <4>1 DEF SumsUpTo
      <4>3. CASE T = {}
        BY <4>2, <4>3 DEF Summed
      <4>4. CASE T # {}
        <5>1. T \ {Max(T)} \in SUBSET (1 .. l + 1) /\ l + 1 \notin T \ {Max(T)}
          BY <3>2
        <5>2. h[T \ {Max(T)}] = g[T \ {Max(T)}]
          BY <5>1
        <5> QED
          BY <4>2, <4>4, <5>2 DEF Summed
      <4> QED
        BY <4>3, <4>4
    <3> QED
      BY <3>1, <3>2
  <2>3. h = [T \in SUBSET (1 .. l + 1) |-> Summed(v, h, T)]
    BY <2>2
  <2> QED
    BY <2>3 DEF SumsUpTo
<1>3. Missed = {}
  <2> SUFFICES ASSUME Missed # {} PROVE FALSE
    OBVIOUS
  <2>1. PICK l \in Missed : \A k \in Missed : l <= k
    <3>1. Missed \in SUBSET Nat
      OBVIOUS
    <3> HIDE DEF Missed
    <3> QED
      BY <3>1, LeastNumber
  <2>2. l \in Nat /\ ~ Solved(l)
    BY <2>1
  <2> HIDE DEF Solved
  <2>3. l # 0
    BY <1>1, <2>2
  <2>4. l - 1 \in Nat /\ (l - 1) + 1 = l /\ ~ (l <= l - 1)
    BY <2>2, <2>3
  <2>5. Solved(l - 1)
    BY <2>1, <2>4
  <2>6. Solved((l - 1) + 1)
    BY <1>2, <2>4, <2>5
  <2> QED
    BY <2>2, <2>4, <2>6
<1> QED
  BY <1>3

\* The sums of a list's prefixes, the last of which is the list's.
LEMMA PrefixSums ==
    ASSUME NEW n \in Nat, NEW v, DOMAIN v = 1 .. n
    PROVE  \E t : /\ t[0] = 0
                  /\ \A k \in 1 .. n : t[k] = t[k - 1] + v[k]
                  /\ t[n] = SumOver(v)
<1> DEFINE Sum(g, T) == IF T = {} THEN 0 ELSE g[T \ {Max(T)}] + v[Max(T)]
<1>1. \E g : g = [T \in SUBSET DOMAIN v |-> Sum(g, T)]
  <2>1. PICK g : SumsUpTo(v, n, g)
    BY SumsExist
  <2>2. g = [T \in SUBSET DOMAIN v |-> Sum(g, T)]
    BY <2>1 DEF SumsUpTo, Summed
  <2> QED
    BY <2>2
<1>2. PICK h : /\ h = [T \in SUBSET DOMAIN v |-> Sum(h, T)]
               /\ SumOver(v) = h[DOMAIN v]
  BY <1>1 DEF SumOver, FoldLeft, MapThenFoldSet
<1>3. ASSUME NEW k \in 1 .. n PROVE h[1 .. k] = h[1 .. k - 1] + v[k]
  <2>1. /\ 1 .. k \in SUBSET (1 .. n) /\ 1 .. k # {} /\ k \in Nat
        /\ (1 .. k) \ {k} = 1 .. k - 1
    <3>1. k \in Nat /\ k \in 1 .. k
      OBVIOUS
    <3>2. (1 .. k) \ {k} = 1 .. k - 1
      OBVIOUS
    <3>3. 1 .. k \in SUBSET (1 .. n)
      OBVIOUS
    <3> QED
      BY <3>1, <3>2, <3>3
  <2>2. Max(1 .. k) = k
    <3>1. 1 .. k \in SUBSET (1 .. k)
      OBVIOUS
    <3>2. Max(1 .. k) \in 1 .. k /\ \A y \in 1 .. k : Max(1 .. k) >= y
      BY <2>1, <3>1, GreatestNumber
    <3>3. Max(1 .. k) >= k /\ Max(1 .. k) <= k /\ Max(1 .. k) \in Nat
      BY <2>1, <3>2
    <3> QED
      BY <2>1, <3>3
  <2> QED
    BY <1>2, <2>1, <2>2
<1>4. h[1 .. 0] = 0
  <2>1. 1 .. 0 = {} /\ {} \in SUBSET DOMAIN v
    OBVIOUS
  <2> QED
    BY <1>2, <2>1
<1> DEFINE t == [k \in 0 .. n |-> h[1 .. k]]
<1>5. t[0] = 0 /\ t[n] = SumOver(v)
  BY <1>2, <1>4
<1>6. ASSUME NEW k \in 1 .. n PROVE t[k] = t[k - 1] + v[k]
  <2>1. k \in 0 .. n /\ k - 1 \in 0 .. n
    OBVIOUS
  <2> QED
    BY <1>3, <2>1
<1> QED
  BY <1>5, <1>6

\* Lists with the same numbers have the same sum, and one more number adds to
\* it.
LEMMA SumOfOneMore ==
    ASSUME NEW n \in Nat, NEW v \in [1 .. n -> Int], NEW w \in [1 .. n + 1 -> Int],
           \A k \in 1 .. n : w[k] = v[k]
    PROVE  SumOver(v) \in Int /\ SumOver(w) = SumOver(v) + w[n + 1]
<1>1. PICK t : t[0] = 0 /\ (\A k \in 1 .. n : t[k] = t[k - 1] + v[k]) /\ t[n] = SumOver(v)
  BY PrefixSums
<1>2. PICK u : u[0] = 0 /\ (\A k \in 1 .. n + 1 : u[k] = u[k - 1] + w[k]) /\ u[n + 1] = SumOver(w)
  <2>1. n + 1 \in Nat /\ DOMAIN w = 1 .. n + 1
    OBVIOUS
  <2> QED
    BY <2>1, PrefixSums
<1> DEFINE Differ == {k \in 0 .. n : ~ (t[k] \in Int /\ u[k] = t[k])}
<1>3. Differ = {}
  <2> SUFFICES ASSUME Differ # {} PROVE FALSE
    OBVIOUS
  <2>1. PICK k \in Differ : \A l \in Differ : k <= l
    <3>1. Differ \in SUBSET Nat
      OBVIOUS
    <3> HIDE DEF Differ
    <3> QED
      BY <3>1, LeastNumber
  <2>2. k \in 0 .. n /\ ~ (t[k] \in Int /\ u[k] = t[k]) /\ k # 0
    BY <1>1, <1>2, <2>1
  <2>3. k \in 1 .. n /\ k \in 1 .. n + 1 /\ k - 1 \in 0 .. n /\ ~ (k <= k - 1)
    BY <2>2
  <2>4. t[k - 1] \in Int /\ u[k - 1] = t[k - 1]
    BY <2>1, <2>3
  <2>5. t[k] = t[k - 1] + v[k] /\ u[k] = u[k - 1] + v[k] /\ v[k] \in Int
    BY <1>1, <1>2, <2>3
  <2> QED
    BY <2>2, <2>4, <2>5
<1>4. t[n] \in Int /\ u[n] = t[n]
  BY <1>3
<1>5. u[n + 1] = u[n] + w[n + 1]
  <2>1. n + 1 \in 1 .. n + 1 /\ (n + 1) - 1 = n
    OBVIOUS
  <2> QED
    BY <1>2, <2>1
<1> QED
  BY <1>1, <1>2, <1>4, <1>5

\* Nothing sums to nothing.
LEMMA SumOfNone ==
    ASSUME NEW v, DOMAIN v = 1 .. 0
    PROVE  SumOver(v) = 0
<1>1. PICK t : t[0] = 0 /\ t[0] = SumOver(v)
  BY PrefixSums
<1> QED
  BY <1>1

\* Division leaves a rest.
LEMMA Division ==
    ASSUME NEW n \in Nat, NEW d \in Nat \ {0}
    PROVE  n \div d \in Nat /\ d * (n \div d) \in Int /\ n - d * (n \div d) \in Nat
<1>1. n \div d \in Nat
  OBVIOUS
<1>2. d * (n \div d) <= n
  OBVIOUS
<1>3. ASSUME NEW q \in Nat PROVE d * q \in Int
  OBVIOUS
<1>4. d * (n \div d) \in Int
  BY <1>1, <1>3
<1>5. ASSUME NEW p \in Int, p <= n PROVE n - p \in Nat
  BY <1>5
<1> QED
  BY <1>1, <1>2, <1>4, <1>5

\* The shares of the workers are the samples asked for.
LEMMA SharesAddUp ==
    ASSUME NEW n \in Nat
    PROVE  /\ Shares(n) \in [Thread -> Nat]
           /\ SumOver([t \in 1 .. THREAD_COUNT |-> Shares(n)[t - 1]]) = n
<1> DEFINE each == n \div THREAD_COUNT
           rest == n - THREAD_COUNT * each
           v == [t \in 1 .. THREAD_COUNT |-> Shares(n)[t - 1]]
<1>1. THREAD_COUNT \in Nat /\ THREAD_COUNT > 0
  BY EFEAssumption
<1>2. each \in Nat /\ rest \in Nat /\ rest + THREAD_COUNT * each = n
  <2>1. each \in Nat /\ rest \in Nat /\ THREAD_COUNT * each \in Int
    BY Division, EFEAssumption
  <2> QED
    BY <2>1
<1>3. Shares(n) = [t \in Thread |-> IF t = 0 THEN each + rest ELSE each]
  BY DEF Shares
<1> HIDE DEF each, rest
<1>4. DOMAIN v = 1 .. THREAD_COUNT /\ v[1] = each + rest /\ \A k \in 2 .. THREAD_COUNT : v[k] = each
  <2>1. \A k \in 1 .. THREAD_COUNT : k - 1 \in Thread /\ v[k] = Shares(n)[k - 1]
    BY <1>1 DEF Thread
  <2>2. 1 \in 1 .. THREAD_COUNT /\ \A k \in 2 .. THREAD_COUNT : k \in 1 .. THREAD_COUNT /\ k - 1 # 0
    BY <1>1
  <2> QED
    BY <1>3, <2>1, <2>2
<1> HIDE DEF v
<1>5. PICK t : t[0] = 0 /\ (\A k \in 1 .. THREAD_COUNT : t[k] = t[k - 1] + v[k]) /\ t[THREAD_COUNT] = SumOver(v)
  BY <1>1, <1>4, PrefixSums
<1> DEFINE Wrong == {k \in 1 .. THREAD_COUNT : t[k] # rest + k * each}
<1>6. Wrong = {}
  <2> SUFFICES ASSUME Wrong # {} PROVE FALSE
    OBVIOUS
  <2>1. PICK k \in Wrong : \A l \in Wrong : k <= l
    <3>1. Wrong \in SUBSET Nat
      OBVIOUS
    <3> HIDE DEF Wrong
    <3> QED
      BY <3>1, LeastNumber
  <2>2. k \in 1 .. THREAD_COUNT /\ t[k] # rest + k * each /\ t[k] = t[k - 1] + v[k]
    BY <1>5, <2>1
  <2>3. k # 1
    <3> SUFFICES ASSUME k = 1 PROVE FALSE
      OBVIOUS
    <3>1. t[1] = 0 + (each + rest)
      BY <1>4, <1>5, <2>2
    <3> QED
      BY <1>2, <2>2, <3>1
  <2>4. k \in 2 .. THREAD_COUNT /\ k - 1 \in 1 .. THREAD_COUNT /\ ~ (k <= k - 1) /\ k \in Nat
    BY <1>1, <2>2, <2>3
  <2>5. t[k - 1] = rest + (k - 1) * each /\ v[k] = each
    BY <1>4, <2>1, <2>4
  <2>6. (k - 1) * each + each = k * each /\ k * each \in Int /\ (k - 1) * each \in Int
    BY <1>2, <2>4
  <2> QED
    BY <1>2, <2>2, <2>5, <2>6
<1>7. SumOver(v) = n
  <2>1. THREAD_COUNT \in 1 .. THREAD_COUNT
    BY <1>1
  <2> QED
    BY <1>2, <1>5, <1>6, <2>1
<1> QED
  BY <1>2, <1>3, <1>7 DEF v
-----------------------------------------------------------------------------
(***************************************************************************)
(* The workers of an evaluation.                                           *)
(***************************************************************************)
\* The samples asked for.
n_efe_samples == get("efe-samples")

\* Where a number was asked for, a number was answered.
NumbersAnswered ==
    \A k \in DOMAIN answers : Options[k].type = "uint32_t" => answers[k].m_arg[1] \in Nat

IsParser(p) == DOMAIN p = {"argv", "m_checked", "m_help", "m_unique_keys", "m_unique_flags"}

Asked ==
    /\ IsParser(parser)
    /\ \E S : answers \in Seq(S)
    /\ phase = "parsing" => parser.m_help \/ NumbersAnswered
    /\ phase \notin {"parsing", "ended"} => n_efe_samples \in Nat

\* What is joined has returned, and outside of an evaluation everyone has.
Waited ==
    /\ launched \in 0 .. THREAD_COUNT /\ joined \in 0 .. THREAD_COUNT /\ returned \subseteq Thread
    /\ \A t \in Thread : t < joined => t \in returned
    /\ phase # "evaluating" => returned = Thread

\* A worker that returned has drawn its share, and what the caller has is what
\* the workers it joined returned.
Averaged ==
    phase \in {"evaluating", "compared"} =>
        /\ thread_samples = Shares(n_efe_samples)
        /\ s \in [Thread -> Nat] /\ entropy_sums \in [Thread -> Int]
        /\ \A t \in Thread : s[t] <= thread_samples[t]
        /\ \A t \in returned : s[t] = thread_samples[t]
        /\ unnormalized_entropy = SumOver([t \in 1 .. joined |-> entropy_sums[t - 1]])

WInv == Asked /\ Waited /\ Averaged

\* The workers give the caller what it asked for.
LEMMA AllAveraged == WInv => SamplesAreAllAveraged
<1> SUFFICES ASSUME WInv PROVE SamplesAreAllAveraged
  OBVIOUS
<1>1. phase # "evaluating" => returned = Thread
  BY DEF WInv, Waited
<1>2. ASSUME joined = THREAD_COUNT, phase = "compared"
      PROVE  /\ SumOver([t \in 1 .. THREAD_COUNT |-> s[t - 1]]) = get("efe-samples")
             /\ unnormalized_entropy = SumOver([t \in 1 .. THREAD_COUNT |-> entropy_sums[t - 1]])
  <2>1. returned = Thread /\ Averaged /\ n_efe_samples \in Nat
    BY <1>1, <1>2 DEF WInv, Asked
  <2>2. \A t \in Thread : s[t] = Shares(n_efe_samples)[t]
    BY <1>2, <2>1 DEF Averaged
  <2>3. \A t \in 1 .. THREAD_COUNT : t - 1 \in Thread
    BY EFEAssumption DEF Thread
  <2>4. [t \in 1 .. THREAD_COUNT |-> s[t - 1]] = [t \in 1 .. THREAD_COUNT |-> Shares(n_efe_samples)[t - 1]]
    BY <2>2, <2>3
  <2>5. SumOver([t \in 1 .. THREAD_COUNT |-> s[t - 1]]) = n_efe_samples
    BY <2>1, <2>4, SharesAddUp
  <2>6. unnormalized_entropy = SumOver([t \in 1 .. joined |-> entropy_sums[t - 1]])
    BY <1>2, <2>1 DEF Averaged
  <2> QED
    BY <1>2, <2>5, <2>6 DEF n_efe_samples
<1> QED
  BY <1>1, <1>2 DEF SamplesAreAllAveraged, AllJoined

\* The options, and the types of those that ask for no number.
LEMMA OptionsListed == DOMAIN Options = 1 .. 11
BY DEF Options

LEMMA OtherTypes ==
    /\ Options[1].type = "void" /\ Options[2].type = "void" /\ Options[3].type = "void"
    /\ Options[4].type = "string" /\ Options[5].type = "string" /\ Options[6].type = "string"
    /\ Options[7].type = "string" /\ Options[11].type = "float"
BY DEF Options, Option

LEMMA NumberDefaults ==
    Options[8].default = <<10>> /\ Options[9].default = <<1>> /\ Options[10].default = <<300>>
BY DEF Options, Option

\* The key of the samples of an evaluation is the tenth option's only.
LEMMA Keys ==
    /\ Options[1].key = "" /\ Options[2].key = "regret" /\ Options[3].key = "no-plan-data"
    /\ Options[4].key = "formula-filepath" /\ Options[5].key = "config-filepath"
    /\ Options[6].key = "data-filepath" /\ Options[7].key = "selector" /\ Options[8].key = "instances"
    /\ Options[9].key = "trials" /\ Options[10].key = "efe-samples" /\ Options[11].key = "confidence"
BY DEF Options, Option

LEMMA EfeSamplesIsTenth == (CHOOSE k \in DOMAIN Options : Options[k].key = "efe-samples") = 10
<1>1. \A k \in 1 .. 11 : k \in {1, 2, 3, 4, 5, 6, 7, 8, 9, 10, 11}
  OBVIOUS
<1>2. \A k \in DOMAIN Options : Options[k].key = "efe-samples" => k = 10
  BY <1>1, OptionsListed, Keys
<1>3. 10 \in DOMAIN Options
  BY OptionsListed
<1> QED
  BY <1>2, <1>3, Keys

\* The options that ask for a number have one by default.
LEMMA NumbersByDefault ==
    ASSUME NEW k \in DOMAIN Options, Options[k].type = "uint32_t"
    PROVE  Options[k].default # <<>> /\ Options[k].default[1] \in Nat
<1>1. k \in {8, 9, 10}
  BY OptionsListed, OtherTypes
<1> QED
  BY <1>1, NumberDefaults

\* What a word is converted to is a number, also where the one in it is not: the
\* cast wraps it.
LEMMA ReadAsNumber ==
    ASSUME NEW text, converts("uint32_t", text)
    PROVE  to("uint32_t", text) \in Nat
<1>1. text \in DOMAIN stoi
  BY DEF converts
<1>2. INT_MAX \in Nat /\ stoi[text] \in Int
  BY <1>1, NumbersAssumption
<1>3. to("uint32_t", text) = stoi[text] % (2 * (INT_MAX + 1))
  BY DEF to
<1>4. \A n \in Int, m \in Nat : m > 0 => n % m \in Nat
  OBVIOUS
<1> QED
  BY <1>2, <1>3, <1>4

\* Taking an option leaves what the constructor found out, and converts a number.
LEMMA TakenAnswers ==
    ASSUME NEW p, NEW o, NEW i, IsParser(p)
    PROVE  /\ IsParser(Taken(p, o, i).parser)
           /\ Taken(p, o, i).parser.m_help = p.m_help
           /\ Taken(p, o, i).outcome = "parsed" /\ o.type = "uint32_t" =>
                 Taken(p, o, i).argument.m_arg[1] \in Nat
<1> DEFINE after == Checked(p, Slot(o, i))
           text == p.argv[i + 1].text
           follows == ~ (i = Len(p.argv) \/ ~ isValue(p.argv[i + 1]))
           ends(outcome) == [parser |-> after, argument |-> NotGiven, outcome |-> outcome]
           answer(argument) == [parser |-> after, argument |-> argument, outcome |-> "parsed"]
<1>1. IsParser(after) /\ after.m_help = p.m_help
  BY DEF IsParser, Checked
<1>2. Taken(p, o, i) = IF o.type = "void" THEN answer(Indicated)
                       ELSE IF ~ follows THEN ends("exit 1")
                       ELSE IF ~ converts(o.type, text) THEN ends("abort")
                       ELSE answer(Given(to(o.type, text)))
  BY DEF Taken
<1> HIDE DEF after, text, follows
<1>3. CASE o.type = "void"
  BY <1>1, <1>2, <1>3
<1>4. CASE o.type # "void" /\ ~ (follows /\ converts(o.type, text))
  <2>1. ends("exit 1").parser = after /\ ends("exit 1").outcome # "parsed"
    OBVIOUS
  <2>2. ends("abort").parser = after /\ ends("abort").outcome # "parsed"
    OBVIOUS
  <2>3. Taken(p, o, i) = ends("exit 1") \/ Taken(p, o, i) = ends("abort")
    <3>1. CASE ~ follows
      BY <1>2, <1>4, <3>1, Zenon
    <3>2. CASE follows /\ ~ converts(o.type, text)
      BY <1>2, <1>4, <3>2, Zenon
    <3> QED
      BY <1>4, <3>1, <3>2, Zenon
  <2> HIDE DEF ends
  <2>4. Taken(p, o, i).parser = after /\ Taken(p, o, i).outcome # "parsed"
    BY <2>1, <2>2, <2>3, Zenon
  <2> QED
    BY <1>1, <2>4, Zenon
<1>5. CASE o.type # "void" /\ follows /\ converts(o.type, text)
  <2>1. Taken(p, o, i) = answer(Given(to(o.type, text)))
    BY <1>2, <1>5
  <2>2. ASSUME o.type = "uint32_t" PROVE to(o.type, text) \in Nat
    BY <1>5, <2>2, ReadAsNumber
  <2>3. Given(to(o.type, text)).m_arg[1] = to(o.type, text)
    BY DEF Given
  <2>4. /\ Taken(p, o, i).parser = after
        /\ Taken(p, o, i).argument.m_arg[1] = to(o.type, text)
    BY <2>1, <2>3
  <2> QED
    BY <1>1, <2>2, <2>4
<1> QED
  BY <1>3, <1>4, <1>5

\* A parse() leaves what the constructor found out, and answers a number where
\* one is asked for.
LEMMA ParseAnswers ==
    ASSUME NEW p, NEW o, IsParser(p),
           o.type = "uint32_t" => o.default # <<>> /\ o.default[1] \in Nat
    PROVE  /\ IsParser(_parse(p, o).parser)
           /\ _parse(p, o).parser.m_help = p.m_help
           /\ _parse(p, o).outcome = "parsed" /\ ~ p.m_help /\ o.type = "uint32_t" =>
                 _parse(p, o).argument.m_arg[1] \in Nat
<1> DEFINE found == {i \in DOMAIN p.argv : ~ p.m_checked[i] /\ Names(o, p.argv[i])}
           first == CHOOSE i \in found : \A j \in found : i <= j
           documented == Documented(p, o)
           answer(argument) == [parser |-> documented, argument |-> argument, outcome |-> "parsed"]
<1>1. IsParser(documented) /\ documented.m_help = p.m_help
  BY DEF IsParser, Documented
<1>2. _parse(p, o) = IF ~ IsNewOption(p, o) THEN [answer(NotGiven) EXCEPT !.outcome = "exit 1"]
                     ELSE IF p.m_help THEN answer(Indicated)
                     ELSE IF found # {} THEN Taken(documented, o, first)
                     ELSE answer(IF o.default = <<>> THEN NotGiven ELSE Given(o.default[1]))
  BY DEF _parse
<1> HIDE DEF documented, found, first
<1>3. CASE ~ IsNewOption(p, o)
  BY <1>1, <1>2, <1>3
<1>4. CASE IsNewOption(p, o) /\ p.m_help
  <2>1. _parse(p, o) = answer(Indicated)
    BY <1>2, <1>4, Zenon
  <2>2. _parse(p, o).parser = documented
    BY <2>1
  <2> QED
    BY <1>1, <1>4, <2>2, Zenon
<1>5. CASE IsNewOption(p, o) /\ ~ p.m_help /\ found # {}
  <2>1. _parse(p, o) = Taken(documented, o, first)
    BY <1>2, <1>5
  <2> QED
    BY <1>1, <2>1, TakenAnswers
<1>6. CASE IsNewOption(p, o) /\ ~ p.m_help /\ found = {}
  BY <1>1, <1>2, <1>6 DEF Given
<1> QED
  BY <1>3, <1>4, <1>5, <1>6

-----------------------------------------------------------------------------
\* A step that asks nothing and touches no worker keeps the invariant, if it
\* neither begins an evaluation nor leaves one.
LEMMA NothingDrawn ==
    ASSUME WInv, UNCHANGED <<efe_vars, parser, answers>>,
           phase' = phase \/ (phase # "evaluating" /\ phase' \notin {"evaluating", "compared"}),
           phase' \notin {"parsing", "ended"} => phase \notin {"parsing", "ended"},
           phase' = "parsing" => phase = "parsing"
    PROVE  WInv'
<1> USE DEF efe_vars
<1>1. n_efe_samples' = n_efe_samples
  BY DEF n_efe_samples, get
<1>2. Asked'
  BY <1>1 DEF WInv, Asked, NumbersAnswered
<1>3. Waited'
  BY DEF WInv, Waited
<1>4. Averaged'
  BY <1>1 DEF WInv, Averaged
<1> QED
  BY <1>2, <1>3, <1>4 DEF WInv

\* What keeps phase and the arguments keeps what was asked.
LEMMA AskedKept ==
    ASSUME Asked, UNCHANGED <<parser, answers>>,
           phase' \notin {"parsing", "ended"} /\ phase \notin {"parsing", "ended"}
    PROVE  Asked' /\ n_efe_samples' = n_efe_samples
BY DEF Asked, NumbersAnswered, n_efe_samples, get

LEMMA InitHasWInv == Init => WInv
<1> SUFFICES ASSUME Init PROVE WInv
  OBVIOUS
<1>1. PICK argv \in CommandLines : parser = NewParser(argv)
  BY DEF Init
<1>2. answers = <<>> /\ phase = "parsing" /\ EFEInit
  BY DEF Init
<1>3. Asked
  <2>1. answers \in Seq({}) /\ DOMAIN answers = {}
    BY <1>2
  <2>2. IsParser(parser)
    BY <1>1 DEF NewParser, IsParser
  <2> QED
    BY <1>2, <2>1, <2>2 DEF Asked, NumbersAnswered
<1>4. Waited
  BY <1>2, EFEAssumption DEF EFEInit, Waited
<1>5. Averaged
  BY <1>2 DEF Averaged
<1> QED
  BY <1>3, <1>4, <1>5 DEF WInv

\* A parse() is answered, or it ends the program.
LEMMA ParseKeepsWInv ==
    ASSUME WInv, Parse
    PROVE  WInv'
<1> DEFINE k == Len(answers) + 1
           parsed == _parse(parser, Options[k])
<1>1. /\ phase = "parsing" /\ Len(answers) < Len(Options) /\ parser' = parsed.parser
      /\ \/ /\ parsed.outcome = "parsed" /\ answers' = Append(answers, parsed.argument)
            /\ phase' = phase
         \/ phase' = "ended" /\ answers' = answers
  BY DEF Parse, Exit
<1>2. UNCHANGED efe_vars
  BY DEF Parse
<1>3. PICK S : answers \in Seq(S)
  BY DEF WInv, Asked
<1>4. k \in DOMAIN Options
  <2>1. Len(answers) \in Nat
    BY <1>3
  <2>2. Len(Options) = 11
    BY DEF Options
  <2> QED
    BY <1>1, <2>1, <2>2, OptionsListed
<1>5. /\ IsParser(parsed.parser) /\ parsed.parser.m_help = parser.m_help
      /\ parsed.outcome = "parsed" /\ ~ parser.m_help /\ Options[k].type = "uint32_t" =>
           parsed.argument.m_arg[1] \in Nat
  <2>1. Options[k].type = "uint32_t" => Options[k].default # <<>> /\ Options[k].default[1] \in Nat
    BY <1>4, NumbersByDefault
  <2>2. IsParser(parser)
    BY DEF WInv, Asked
  <2> QED
    BY <2>1, <2>2, ParseAnswers
<1> HIDE DEF parsed
<1>6. Asked'
  <2>1. CASE phase' = "ended" /\ answers' = answers
    BY <1>1, <1>3, <1>5, <2>1 DEF Asked
  <2>2. CASE parsed.outcome = "parsed" /\ answers' = Append(answers, parsed.argument) /\ phase' = phase
    <3>1. answers' \in Seq(S \cup {parsed.argument})
      BY <1>3, <2>2
    <3>2. ASSUME ~ parser.m_help, NEW j \in DOMAIN answers', Options[j].type = "uint32_t"
          PROVE  answers'[j].m_arg[1] \in Nat
      <4>1. CASE j = k
        <5>1. answers'[j] = parsed.argument
          BY <1>3, <2>2, <4>1
        <5> QED
          BY <1>5, <2>2, <3>2, <4>1, <5>1
      <4>2. CASE j # k
        <5>1. j \in DOMAIN answers /\ answers'[j] = answers[j]
          BY <1>3, <2>2, <3>2, <4>2
        <5>2. NumbersAnswered
          BY <1>1, <3>2 DEF WInv, Asked
        <5> QED
          BY <3>2, <5>1, <5>2 DEF NumbersAnswered
      <4> QED
        BY <4>1, <4>2
    <3>3. parser'.m_help \/ NumbersAnswered'
      BY <1>1, <1>5, <3>2 DEF NumbersAnswered
    <3> QED
      BY <1>1, <1>5, <2>2, <3>1, <3>3 DEF Asked
  <2> QED
    BY <1>1, <2>1, <2>2
<1>7. Waited' /\ Averaged'
  BY <1>1, <1>2 DEF WInv, Waited, Averaged, efe_vars
<1> QED
  BY <1>6, <1>7 DEF WInv

\* Nothing is constructed before every option was answered.
LEMMA ConstructKeepsWInv ==
    ASSUME WInv, Construct
    PROVE  WInv'
<1>1. /\ phase = "parsing" /\ Len(answers) = Len(Options) /\ UNCHANGED <<parser, answers, efe_vars>>
      /\ phase' = "ended" \/ (phase' = "between trials" /\ enableHelp(parser) = "return")
  BY DEF Construct, Exit
<1>2. ASSUME phase' = "between trials" PROVE n_efe_samples \in Nat
  <2>1. ~ parser.m_help
    BY <1>1, <1>2 DEF enableHelp
  <2>2. NumbersAnswered
    BY <1>1, <2>1 DEF WInv, Asked
  <2>3. 10 \in DOMAIN answers
    <3>1. PICK S : answers \in Seq(S)
      BY DEF WInv, Asked
    <3>2. Len(Options) = 11
      BY DEF Options
    <3>3. DOMAIN answers = 1 .. Len(answers)
      BY <3>1
    <3>4. Len(answers) = 11
      BY <1>1, <3>2
    <3> QED
      BY <3>3, <3>4
  <2>4. Options[10].type = "uint32_t"
    BY DEF Options, Option
  <2>5. Answer(Options, answers, "efe-samples") = answers[10]
    BY EfeSamplesIsTenth DEF Answer
  <2> QED
    BY <2>2, <2>3, <2>4, <2>5 DEF NumbersAnswered, n_efe_samples, get
<1>3. n_efe_samples' = n_efe_samples
  BY <1>1 DEF n_efe_samples, get
<1>4. Asked'
  BY <1>1, <1>2, <1>3 DEF WInv, Asked
<1>5. Waited' /\ Averaged'
  BY <1>1 DEF WInv, Waited, Averaged, efe_vars
<1> QED
  BY <1>4, <1>5 DEF WInv

\* An evaluation begins with nothing drawn and nothing joined.
LEMMA EvaluateKeepsWInv ==
    ASSUME WInv, NEW selector, Evaluate(selector, n_efe_samples), UNCHANGED main_vars
    PROVE  WInv'
<1>1. phase \notin {"parsing", "ended"} /\ phase' = "evaluating" /\ Calculate(n_efe_samples)
      /\ UNCHANGED <<parser, answers>>
  BY DEF Evaluate, main_vars
<1>2. Asked' /\ n_efe_samples' = n_efe_samples /\ n_efe_samples \in Nat
  BY <1>1, AskedKept DEF WInv, Asked
<1>3. Waited'
  BY <1>1, EFEAssumption DEF Calculate, Waited, Thread
<1>4. Averaged'
  <2>1. SumOver([t \in 1 .. joined' |-> entropy_sums'[t - 1]]) = 0
    <3>1. joined' = 0
      BY <1>1 DEF Calculate
    <3> QED
      BY <3>1, SumOfNone
  <2>2. thread_samples' = Shares(n_efe_samples) /\ Shares(n_efe_samples) \in [Thread -> Nat]
    BY <1>1, <1>2, SharesAddUp DEF Calculate
  <2> QED
    BY <1>1, <1>2, <2>1, <2>2 DEF Calculate, Averaged
<1> QED
  BY <1>2, <1>3, <1>4 DEF WInv

\* A worker that is not joined yet draws a sample.
LEMMA DrawKeepsWInv ==
    ASSUME WInv, phase = "evaluating", UNCHANGED <<phase, main_vars>>, NEW t \in Thread, DrawSample(t)
    PROVE  WInv'
<1>0. Asked' /\ n_efe_samples' = n_efe_samples /\ n_efe_samples \in Nat
  BY AskedKept DEF WInv, Asked, main_vars
<1>1. /\ Averaged /\ thread_samples \in [Thread -> Nat] /\ joined \in 0 .. THREAD_COUNT
      /\ UNCHANGED <<thread_samples, launched, returned, joined, unnormalized_entropy>>
      /\ t \notin returned /\ ~ (t < joined) /\ s[t] < thread_samples[t]
  <2>1. thread_samples = Shares(n_efe_samples)
    BY DEF WInv, Averaged
  <2> QED
    BY <1>0, <2>1, SharesAddUp DEF WInv, DrawSample, Waited
<1>2. PICK entropy \in Entropies : entropy_sums' = [entropy_sums EXCEPT ![t] = @ + entropy]
  BY DEF DrawSample
<1>3. s' = [s EXCEPT ![t] = @ + 1]
  BY DEF DrawSample
<1>4. /\ s' \in [Thread -> Nat] /\ entropy_sums' \in [Thread -> Int]
      /\ (\A u \in Thread : s'[u] <= thread_samples[u])
      /\ (\A u \in returned : s'[u] = thread_samples[u])
  <2>1. s \in [Thread -> Nat] /\ entropy_sums \in [Thread -> Int] /\ entropy \in Int /\ returned \subseteq Thread
    BY <1>1, EFEAssumption DEF Averaged, WInv, Waited
  <2>2. s' \in [Thread -> Nat] /\ entropy_sums' \in [Thread -> Int]
    BY <1>2, <1>3, <2>1
  <2>3. \A u \in Thread : s[u] <= thread_samples[u]
    BY <1>1 DEF Averaged
  <2>4. ASSUME NEW u \in Thread PROVE s'[u] <= thread_samples[u]
    BY <1>1, <1>3, <2>1, <2>3
  <2>5. ASSUME NEW u \in returned PROVE s'[u] = thread_samples[u]
    BY <1>1, <1>3, <2>1 DEF Averaged
  <2> QED
    BY <2>2, <2>4, <2>5
<1>5. [u \in 1 .. joined |-> entropy_sums'[u - 1]] = [u \in 1 .. joined |-> entropy_sums[u - 1]]
  <2>1. ASSUME NEW u \in 1 .. joined PROVE entropy_sums'[u - 1] = entropy_sums[u - 1]
    <3>1. u - 1 \in Thread /\ u - 1 # t
      BY <1>1, EFEAssumption DEF Thread
    <3> QED
      BY <1>1, <1>2, <3>1 DEF Averaged
  <2> QED
    BY <2>1
<1>6. Averaged'
  BY <1>0, <1>1, <1>4, <1>5 DEF Averaged
<1>7. Waited'
  BY <1>1 DEF WInv, Waited
<1> QED
  BY <1>0, <1>6, <1>7 DEF WInv

\* A worker returns when it has drawn its share.
LEMMA ReturnKeepsWInv ==
    ASSUME WInv, phase = "evaluating", UNCHANGED <<phase, main_vars>>, NEW t \in Thread, ReturnSum(t)
    PROVE  WInv'
<1>0. Asked' /\ n_efe_samples' = n_efe_samples /\ n_efe_samples \in Nat
  BY AskedKept DEF WInv, Asked, main_vars
<1>1. /\ UNCHANGED <<thread_samples, launched, s, entropy_sums, joined, unnormalized_entropy>>
      /\ returned' = returned \cup {t} /\ s[t] >= thread_samples[t]
  BY DEF ReturnSum
<1>2. s[t] = thread_samples[t]
  <2>1. thread_samples = Shares(n_efe_samples) /\ s \in [Thread -> Nat] /\ s[t] <= thread_samples[t]
    BY DEF WInv, Averaged
  <2>2. thread_samples[t] \in Nat
    BY <1>0, <2>1, SharesAddUp
  <2> QED
    BY <1>1, <2>1, <2>2
<1>3. Waited'
  BY <1>1 DEF WInv, Waited
<1>4. Averaged'
  BY <1>0, <1>1, <1>2 DEF WInv, Averaged
<1> QED
  BY <1>0, <1>3, <1>4 DEF WInv

\* The caller adds what the next worker in line returned.
LEMMA JoinKeepsWInv ==
    ASSUME WInv, phase = "evaluating", UNCHANGED <<phase, main_vars>>, Join
    PROVE  WInv'
<1>0. Asked' /\ n_efe_samples' = n_efe_samples
  BY AskedKept DEF WInv, Asked, main_vars
<1>1. /\ UNCHANGED <<thread_samples, launched, s, entropy_sums, returned>>
      /\ joined \in returned /\ joined' = joined + 1
      /\ unnormalized_entropy' = unnormalized_entropy + entropy_sums[joined]
  BY DEF Join
<1>2. joined \in Thread /\ joined \in Nat /\ Averaged /\ entropy_sums \in [Thread -> Int]
      /\ joined' \in 0 .. THREAD_COUNT
  <2>1. joined \in Thread
    BY <1>1 DEF WInv, Waited
  <2>2. joined \in Nat /\ joined + 1 \in 0 .. THREAD_COUNT
    BY <2>1, EFEAssumption DEF Thread
  <2> QED
    BY <1>1, <2>1, <2>2 DEF WInv, Averaged
<1>3. Waited'
  <2>1. \A t \in Thread : t < joined + 1 => t < joined \/ t = joined
    BY <1>2, EFEAssumption DEF Thread
  <2> QED
    BY <1>1, <1>2, <2>1 DEF WInv, Waited
<1>4. unnormalized_entropy' = SumOver([t \in 1 .. joined + 1 |-> entropy_sums[t - 1]])
  <2> DEFINE v == [t \in 1 .. joined |-> entropy_sums[t - 1]]
             w == [t \in 1 .. joined + 1 |-> entropy_sums[t - 1]]
  <2>1. \A t \in 1 .. joined + 1 : t - 1 \in Thread
    BY <1>1, <1>2, EFEAssumption DEF Thread
  <2>2. w \in [1 .. joined + 1 -> Int] /\ v \in [1 .. joined -> Int]
    BY <1>2, <2>1
  <2>3. \A t \in 1 .. joined : w[t] = v[t]
    BY <1>2
  <2>4. w[joined + 1] = entropy_sums[joined]
    BY <1>2
  <2>5. unnormalized_entropy = SumOver(v)
    BY <1>2 DEF Averaged
  <2> HIDE DEF v, w
  <2>6. SumOver(w) = SumOver(v) + w[joined + 1]
    <3>1. PICK n \in Nat : n = joined
      BY <1>2
    <3> QED
      BY <2>2, <2>3, <3>1, SumOfOneMore
  <2> QED
    BY <1>1, <2>4, <2>5, <2>6 DEF w
<1>5. Averaged'
  BY <1>0, <1>1, <1>2, <1>4 DEF Averaged
<1> QED
  BY <1>0, <1>3, <1>5 DEF WInv

LEMMA LaunchKeepsWInv ==
    ASSUME WInv, phase = "evaluating", UNCHANGED <<phase, main_vars>>, Launch
    PROVE  WInv'
<1>0. Asked' /\ n_efe_samples' = n_efe_samples
  BY AskedKept DEF WInv, Asked, main_vars
<1>1. Waited'
  BY EFEAssumption DEF WInv, Waited, Launch
<1>2. Averaged'
  BY <1>0 DEF WInv, Averaged, Launch
<1> QED
  BY <1>0, <1>1, <1>2 DEF WInv

\* The caller compares when it has joined every worker.
LEMMA CompareKeepsWInv ==
    ASSUME WInv, NEW n, Compare(n), UNCHANGED main_vars
    PROVE  WInv'
<1>1. phase = "evaluating" /\ phase' = "compared" /\ joined = THREAD_COUNT
      /\ UNCHANGED <<efe_vars, parser, answers>>
  BY DEF Compare, AllJoined, main_vars
<1>2. Asked' /\ n_efe_samples' = n_efe_samples
  BY <1>1, AskedKept DEF WInv
<1>3. returned = Thread
  <2>1. \A t \in Thread : t < joined
    BY <1>1, EFEAssumption DEF Thread
  <2> QED
    BY <2>1 DEF WInv, Waited
<1>4. Waited' /\ Averaged'
  BY <1>1, <1>2, <1>3 DEF WInv, Waited, Averaged, efe_vars
<1> QED
  BY <1>2, <1>4 DEF WInv

\* Every step of the program and of a worker keeps the invariant.
LEMMA StepKeepsWInv == WInv /\ [Next]_vars => WInv'
<1> SUFFICES ASSUME WInv, [Next]_vars PROVE WInv'
  OBVIOUS
<1>1. CASE Parse
  BY <1>1, ParseKeepsWInv
<1>2. CASE Construct
  BY <1>2, ConstructKeepsWInv
<1>3. CASE StartTrial
  <2>1. phase = "between trials" /\ phase' = "planning" /\ UNCHANGED <<efe_vars, parser, answers>>
    BY <1>3 DEF StartTrial, main_vars
  <2> QED
    BY <2>1, NothingDrawn
<1>4. CASE Run
  <2>0. UNCHANGED main_vars /\ UNCHANGED <<parser, answers>>
    BY <1>4 DEF Run, main_vars
  <2>1. CASE Search(get("instances"))
    <3>1. phase = "planning" /\ phase' = "selecting" /\ UNCHANGED efe_vars
      BY <2>1 DEF Search
    <3> QED
      BY <2>0, <3>1, NothingDrawn
  <2>2. CASE StopRunning(get("instances"))
    <3>1. phase = "planning" /\ phase' = "reporting" /\ UNCHANGED efe_vars
      BY <2>2 DEF StopRunning
    <3> QED
      BY <2>0, <3>1, NothingDrawn
  <2>3. CASE Select(getSelector(get("selector")))
    <3>1. phase = "selecting" /\ phase' = "executing" /\ UNCHANGED efe_vars
      BY <2>3 DEF Select, HoldDistributions
    <3> QED
      BY <2>0, <3>1, NothingDrawn
  <2>4. CASE Evaluate(getSelector(get("selector")), get("efe-samples"))
    BY <2>0, <2>4, EvaluateKeepsWInv DEF n_efe_samples
  <2>5. CASE Await
    BY <2>0, <2>5, LaunchKeepsWInv, JoinKeepsWInv DEF Await
  <2>6. CASE Compare(get("efe-samples"))
    BY <2>0, <2>6, CompareKeepsWInv
  <2>7. CASE SelectAif
    <3>1. phase = "compared" /\ phase' = "executing" /\ UNCHANGED efe_vars
      BY <2>7 DEF SelectAif, HoldDistributions
    <3> QED
      BY <2>0, <3>1, NothingDrawn
  <2>8. CASE Execute
    <3>1. phase' = phase /\ UNCHANGED efe_vars
      BY <2>8 DEF Execute
    <3> QED
      BY <2>0, <3>1, NothingDrawn
  <2>9. CASE FinishInstance(has("regret"))
    <3>1. phase = "executing" /\ phase' = "planning" /\ UNCHANGED efe_vars
      BY <2>9 DEF FinishInstance
    <3> QED
      BY <2>0, <3>1, NothingDrawn
  <2> QED
    BY <1>4, <2>1, <2>2, <2>3, <2>4, <2>5, <2>6, <2>7, <2>8, <2>9 DEF Run, LearnerStep
<1>5. CASE NoWeight
  <2>1. phase = "selecting" /\ phase' = "ended" /\ UNCHANGED <<efe_vars, parser, answers>>
    BY <1>5 DEF NoWeight, Exit
  <2> QED
    BY <2>1, NothingDrawn
<1>6. CASE Report
  <2>1. phase = "reporting" /\ phase' \in {"between trials", "ended"} /\ UNCHANGED <<efe_vars, parser, answers>>
    BY <1>6 DEF Report, Exit
  <2> QED
    BY <2>1, NothingDrawn
<1>7. CASE Finish
  <2>1. phase = "between trials" /\ phase' = "ended" /\ UNCHANGED <<efe_vars, parser, answers>>
    BY <1>7 DEF Finish, Exit
  <2> QED
    BY <2>1, NothingDrawn
<1>8. ASSUME NEW t \in Thread, Worker(t) PROVE WInv'
  <2>1. phase = "evaluating" /\ UNCHANGED <<phase, main_vars>> /\ (DrawSample(t) \/ ReturnSum(t))
    BY <1>8 DEF Worker, Work
  <2> QED
    BY <2>1, DrawKeepsWInv, ReturnKeepsWInv
<1>9. CASE UNCHANGED vars
  BY <1>9, NothingDrawn DEF vars, main_vars
<1> QED
  BY <1>1, <1>2, <1>3, <1>4, <1>5, <1>6, <1>7, <1>8, <1>9 DEF Next, Main, Terminated

\* However many workers there are, and in whatever order they start, draw and
\* return: when the caller goes on no worker is still reading what is on its
\* stack, and what it averages are as many samples as the command line asked
\* for, each once (EFE.h:89-101).
THEOREM AveragesAreComplete == Spec => []SamplesAreAllAveraged
<1>1. Spec => []WInv
  BY InitHasWInv, StepKeepsWInv, PTL DEF Spec
<1> QED
  BY <1>1, AllAveraged, PTL
-----------------------------------------------------------------------------
(***************************************************************************)
(* The command line.                                                       *)
(***************************************************************************)
\* The words that name an option, and the first of them.
NamedAt(argv, k) == {i \in DOMAIN argv : Names(Options[k], argv[i])}

FirstAt(argv, k) == CHOOSE i \in NamedAt(argv, k) : \A j \in NamedAt(argv, k) : i <= j

\* The words an option takes, whether it can, and what it is answered.
TakenAt(argv, k) == IF NamedAt(argv, k) = {} THEN {} ELSE Slot(Options[k], FirstAt(argv, k))

ValueAt(argv, k, i) ==
    /\ i \in DOMAIN argv /\ isValue(argv[i])
    /\ converts(Options[k].type, argv[i].text)

CanTake(argv, k) ==
    NamedAt(argv, k) = {} \/ Options[k].type = "void" \/ ValueAt(argv, k, FirstAt(argv, k) + 1)

ReadAs(argv, k) ==
    IF NamedAt(argv, k) = {}
      THEN IF Options[k].default = <<>> THEN NotGiven ELSE Given(Options[k].default[1])
    ELSE IF Options[k].type = "void" THEN Indicated
    ELSE Given(to(Options[k].type, argv[FirstAt(argv, k) + 1].text))

\* The options that were parsed took what is theirs, and nothing else is marked.
Marked(argv, n) == [i \in DOMAIN argv |-> \E k \in 1 .. n : i \in TakenAt(argv, k)]

AsksForHelp(argv) == \E i \in DOMAIN argv : argv[i] \in HelpWords

Parsed(p, n) ==
    /\ p.argv \in Seq(Word) /\ IsParser(p)
    /\ p.m_help <=> AsksForHelp(p.argv)
    /\ \A key \in p.m_unique_keys : key = "help" \/ (key # "" /\ \E k \in 1 .. n : key = Options[k].key)
    /\ \A flag \in p.m_unique_flags : flag = "h" \/ (flag # "" /\ \E k \in 1 .. n : flag = Options[k].flag)
    /\ ~ p.m_help => p.m_checked = Marked(p.argv, n) /\ \A k \in 1 .. n : CanTake(p.argv, k)

Answered ==
    /\ \E S : answers \in Seq(S)
    /\ Len(answers) <= 11
    /\ ~ parser.m_help => \A k \in 1 .. Len(answers) : answers[k] = ReadAs(parser.argv, k)

CInv ==
    IF phase = "parsing" THEN Parsed(parser, Len(answers)) /\ Answered ELSE AnswersFollowTheCommandLine

\* The flags, as the keys above.
LEMMA Flags ==
    /\ Options[1].flag = "v" /\ Options[2].flag = "r" /\ Options[3].flag = ""
    /\ Options[4].flag = "f" /\ Options[5].flag = "c" /\ Options[6].flag = "d"
    /\ Options[7].flag = "" /\ Options[8].flag = "i" /\ Options[9].flag = "t"
    /\ Options[10].flag = "" /\ Options[11].flag = ""
BY DEF Options, Option

\* No two options share a key or a flag, and none has those of help.
LEMMA KeysDiffer ==
    ASSUME NEW k \in 1 .. 11, NEW l \in 1 .. 11
    PROVE  /\ Options[k].key # "help" /\ Options[k].flag # "h"
           /\ Options[k].key = Options[l].key /\ Options[k].key # "" => k = l
           /\ Options[k].flag = Options[l].flag /\ Options[k].flag # "" => k = l
<1>1. k \in {1, 2, 3, 4, 5, 6, 7, 8, 9, 10, 11} /\ l \in {1, 2, 3, 4, 5, 6, 7, 8, 9, 10, 11}
  OBVIOUS
<1>2. Options[k].key # "help" /\ (Options[k].key = Options[l].key /\ Options[k].key # "" => k = l)
  BY <1>1, Keys
<1>3. Options[k].flag # "h" /\ (Options[k].flag = Options[l].flag /\ Options[k].flag # "" => k = l)
  BY <1>1, Flags
<1> QED
  BY <1>2, <1>3

\* A word names one option at most, and is no value if it does.
LEMMA OneOption ==
    ASSUME NEW k \in 1 .. 11, NEW l \in 1 .. 11, NEW word,
           Names(Options[k], word), Names(Options[l], word)
    PROVE  k = l /\ ~ isValue(word)
<1>1. \A text : /\ getFlag(text).dashes = 1 /\ getFlag(text).text = text
               /\ getKey(text).dashes = 2 /\ getKey(text).text = text
  BY DEF getFlag, getKey
<1>2. PICK d, t : d = word.dashes /\ t = word.text
  OBVIOUS
<1>3. ASSUME NEW o, Names(o, word)
      PROVE  (d = 1 /\ t = o.flag /\ o.flag # "") \/ (d = 2 /\ t = o.key /\ o.key # "")
  BY <1>1, <1>2, <1>3, Zenon DEF Names
<1>4. PICK key, flag : key = Options[k].key /\ flag = Options[k].flag
  OBVIOUS
<1>5. (d = 1 /\ t = flag /\ flag # "") \/ (d = 2 /\ t = key /\ key # "")
  BY <1>3, <1>4, Zenon
<1>6. (d = 1 /\ t = Options[l].flag) \/ (d = 2 /\ t = Options[l].key)
  BY <1>3, Zenon
<1>7. /\ key = Options[l].key /\ key # "" => k = l
      /\ flag = Options[l].flag /\ flag # "" => k = l
  BY <1>4, KeysDiffer
<1>8. PICK other, others : other = Options[l].key /\ others = Options[l].flag
  OBVIOUS
<1>9. k = l /\ d # 0
  <2>1. (d = 1 /\ t = others) \/ (d = 2 /\ t = other)
    BY <1>6, <1>8, Zenon
  <2>2. (key = other /\ key # "" => k = l) /\ (flag = others /\ flag # "" => k = l)
    BY <1>7, <1>8, Zenon
  <2>3. (d = 1 => d # 0 /\ d # 2) /\ (d = 2 => d # 0 /\ d # 1)
    OBVIOUS
  <2> QED
    BY <1>5, <2>1, <2>2, <2>3, Zenon
<1> QED
  BY <1>2, <1>9, Zenon DEF isValue

\* The first word that names an option names it.
LEMMA FirstNames ==
    ASSUME NEW argv \in Seq(Word), NEW k, NamedAt(argv, k) # {}
    PROVE  FirstAt(argv, k) \in NamedAt(argv, k)
<1>1. NamedAt(argv, k) \in SUBSET Nat
  BY DEF NamedAt
<1>2. \E i \in NamedAt(argv, k) : \A j \in NamedAt(argv, k) : i <= j
  BY <1>1, LeastNumber
<1> QED
  BY <1>2 DEF FirstAt

\* What a parsed option took is a word that names it, or the value after that.
LEMMA WhatIsTaken ==
    ASSUME NEW argv \in Seq(Word), NEW k \in 1 .. 11, CanTake(argv, k), NEW i \in TakenAt(argv, k)
    PROVE  /\ NamedAt(argv, k) # {} /\ FirstAt(argv, k) \in NamedAt(argv, k)
           /\ \/ i = FirstAt(argv, k) /\ Names(Options[k], argv[i])
              \/ /\ i = FirstAt(argv, k) + 1 /\ Options[k].type # "void"
                 /\ ValueAt(argv, k, i)
<1>1. NamedAt(argv, k) # {} /\ i \in Slot(Options[k], FirstAt(argv, k))
  BY DEF TakenAt
<1>2. FirstAt(argv, k) \in NamedAt(argv, k)
  BY <1>1, FirstNames
<1>3. Names(Options[k], argv[FirstAt(argv, k)])
  BY <1>2 DEF NamedAt
<1>4. i = FirstAt(argv, k) \/ (i = FirstAt(argv, k) + 1 /\ Options[k].type # "void")
  BY <1>1 DEF Slot
<1> QED
  BY <1>1, <1>2, <1>3, <1>4 DEF CanTake

\* The options parsed so far left the words of the next one unmarked.
LEMMA NextIsUnmarked ==
    ASSUME NEW p, NEW n \in Nat, n + 1 \in 1 .. 11, Parsed(p, n), ~ p.m_help
    PROVE  {i \in DOMAIN p.argv : ~ p.m_checked[i] /\ Names(Options[n + 1], p.argv[i])}
             = NamedAt(p.argv, n + 1)
<1>1. p.argv \in Seq(Word) /\ p.m_checked = Marked(p.argv, n) /\ \A k \in 1 .. n : CanTake(p.argv, k)
  BY DEF Parsed
<1>2. ASSUME NEW i \in NamedAt(p.argv, n + 1) PROVE ~ p.m_checked[i]
  <2> SUFFICES ASSUME p.m_checked[i] PROVE FALSE
    OBVIOUS
  <2>1. i \in DOMAIN p.argv /\ Names(Options[n + 1], p.argv[i])
    BY DEF NamedAt
  <2>2. PICK k \in 1 .. n : i \in TakenAt(p.argv, k)
    BY <1>1, <2>1 DEF Marked
  <2>3. k \in 1 .. 11 /\ k # n + 1
    BY <2>2
  <2>4. Names(Options[k], p.argv[i]) \/ isValue(p.argv[i])
    BY <1>1, <2>2, <2>3, WhatIsTaken DEF ValueAt
  <2> QED
    BY <2>1, <2>3, <2>4, OneOption
<1> QED
  BY <1>2 DEF NamedAt

\* Taking an option: all of it is what the words say.
LEMMA TakenAsRead ==
    ASSUME NEW p, NEW k \in 1 .. 11, p.argv \in Seq(Word), NamedAt(p.argv, k) # {}
    PROVE  LET taken == Taken(p, Options[k], FirstAt(p.argv, k))
           IN  /\ taken.parser = Checked(p, TakenAt(p.argv, k))
               /\ CanTake(p.argv, k) => taken.outcome = "parsed" /\ taken.argument = ReadAs(p.argv, k)
               /\ ~ CanTake(p.argv, k) => taken.outcome \in {"exit 1", "abort"}
<1> DEFINE o == Options[k]
           i == FirstAt(p.argv, k)
           after == Checked(p, Slot(o, i))
           text == p.argv[i + 1].text
           ends(outcome) == [parser |-> after, argument |-> NotGiven, outcome |-> outcome]
           answer(argument) == [parser |-> after, argument |-> argument, outcome |-> "parsed"]
           taken == Taken(p, o, i)
           follows == ~ (i = Len(p.argv) \/ ~ isValue(p.argv[i + 1]))
<1>1. taken = IF o.type = "void" THEN answer(Indicated)
              ELSE IF ~ follows THEN ends("exit 1")
              ELSE IF ~ converts(o.type, text) THEN ends("abort")
              ELSE answer(Given(to(o.type, text)))
  BY DEF Taken
<1>2. after = Checked(p, TakenAt(p.argv, k))
  BY DEF TakenAt
<1>3. i \in 1 .. Len(p.argv) /\ Len(p.argv) \in Nat /\ DOMAIN p.argv = 1 .. Len(p.argv)
  <2>1. i \in NamedAt(p.argv, k)
    BY FirstNames
  <2> QED
    BY <2>1 DEF NamedAt
<1>4. follows /\ converts(o.type, text) <=> ValueAt(p.argv, k, i + 1)
  <2> HIDE DEF i
  <2>1. i + 1 \in DOMAIN p.argv <=> i # Len(p.argv)
    BY <1>3
  <2> QED
    BY <2>1 DEF ValueAt
<1>5. CanTake(p.argv, k) <=> o.type = "void" \/ (follows /\ converts(o.type, text))
  BY <1>4 DEF CanTake
<1>6. ReadAs(p.argv, k) = IF o.type = "void" THEN Indicated ELSE Given(to(o.type, text))
  BY DEF ReadAs
<1> HIDE DEF follows, text, after, i, o, taken
<1>7. CASE o.type = "void"
  <2>1. taken = answer(Indicated)
    BY <1>1, <1>7, Zenon
  <2>2. taken.parser = after /\ taken.outcome = "parsed" /\ taken.argument = Indicated
    BY <2>1
  <2> QED
    BY <1>2, <1>5, <1>6, <1>7, <2>2, Zenon DEF taken, o, i
<1>8. CASE o.type # "void" /\ follows /\ converts(o.type, text)
  <2>1. taken = answer(Given(to(o.type, text)))
    BY <1>1, <1>8, Zenon
  <2>2. taken.parser = after /\ taken.outcome = "parsed" /\ taken.argument = Given(to(o.type, text))
    BY <2>1
  <2> QED
    BY <1>2, <1>5, <1>6, <1>8, <2>2, Zenon DEF taken, o, i
<1>9. CASE o.type # "void" /\ ~ (follows /\ converts(o.type, text))
  <2>1. taken = ends("exit 1") \/ taken = ends("abort")
    BY <1>1, <1>9, Zenon
  <2>2. taken.parser = after /\ taken.outcome \in {"exit 1", "abort"}
    <3>1. ends("exit 1").parser = after /\ ends("exit 1").outcome = "exit 1"
      OBVIOUS
    <3>2. ends("abort").parser = after /\ ends("abort").outcome = "abort"
      OBVIOUS
    <3> HIDE DEF ends
    <3> QED
      BY <2>1, <3>1, <3>2, Zenon
  <2>3. ~ CanTake(p.argv, k)
    BY <1>5, <1>9, Zenon
  <2> QED
    BY <1>2, <2>2, <2>3, Zenon DEF taken, o, i
<1> QED
  BY <1>7, <1>8, <1>9, Zenon

\* A program's options are new, one after the other.
LEMMA OptionsAreNew ==
    ASSUME NEW p, NEW n \in Nat, n + 1 \in 1 .. 11, Parsed(p, n)
    PROVE  IsNewOption(p, Options[n + 1])
<1>1. Options[n + 1].key \notin p.m_unique_keys
  <2> SUFFICES ASSUME Options[n + 1].key \in p.m_unique_keys PROVE FALSE
    OBVIOUS
  <2>1. Options[n + 1].key # "help"
    BY KeysDiffer
  <2>2. PICK k \in 1 .. n : Options[n + 1].key # "" /\ Options[n + 1].key = Options[k].key
    BY <2>1, Zenon DEF Parsed
  <2>3. \A j \in 1 .. n : j \in 1 .. 11 /\ j # n + 1
    OBVIOUS
  <2>4. k \in 1 .. 11 /\ k # n + 1
    BY <2>2, <2>3, Zenon
  <2> QED
    BY <2>2, <2>4, KeysDiffer, Zenon
<1>2. Options[n + 1].flag \notin p.m_unique_flags
  <2> SUFFICES ASSUME Options[n + 1].flag \in p.m_unique_flags PROVE FALSE
    OBVIOUS
  <2>1. Options[n + 1].flag # "h"
    BY KeysDiffer
  <2>2. PICK k \in 1 .. n : Options[n + 1].flag # "" /\ Options[n + 1].flag = Options[k].flag
    BY <2>1, Zenon DEF Parsed
  <2>3. \A j \in 1 .. n : j \in 1 .. 11 /\ j # n + 1
    OBVIOUS
  <2>4. k \in 1 .. 11 /\ k # n + 1
    BY <2>2, <2>3, Zenon
  <2> QED
    BY <2>2, <2>4, KeysDiffer, Zenon
<1> QED
  BY <1>1, <1>2 DEF IsNewOption

\* A parser that has documented an option, and marked some words more.
Advanced(q, p, o, words) ==
    /\ IsParser(q) /\ q.argv = p.argv /\ q.m_help = p.m_help
    /\ q.m_unique_keys = p.m_unique_keys \cup ({o.key} \ {""})
    /\ q.m_unique_flags = p.m_unique_flags \cup ({o.flag} \ {""})
    /\ ~ p.m_help => q.m_checked = [i \in DOMAIN p.argv |-> p.m_checked[i] \/ i \in words]

LEMMA DocumentedOnly ==
    ASSUME NEW p, NEW n, Parsed(p, n), NEW o
    PROVE  Advanced(Documented(p, o), p, o, {})
<1>1. IsParser(p) /\ (~ p.m_help => p.m_checked = Marked(p.argv, n))
  BY DEF Parsed
<1>2. /\ IsParser(Documented(p, o)) /\ Documented(p, o).argv = p.argv
      /\ Documented(p, o).m_help = p.m_help /\ Documented(p, o).m_checked = p.m_checked
      /\ Documented(p, o).m_unique_keys = p.m_unique_keys \cup ({o.key} \ {""})
      /\ Documented(p, o).m_unique_flags = p.m_unique_flags \cup ({o.flag} \ {""})
  BY <1>1 DEF Documented, IsParser
<1>3. ~ p.m_help => p.m_checked = [i \in DOMAIN p.argv |-> p.m_checked[i] \/ i \in {}]
  BY <1>1 DEF Marked
<1> QED
  BY <1>2, <1>3, Zenon DEF Advanced

LEMMA DocumentedAndMarked ==
    ASSUME NEW p, NEW n, Parsed(p, n), NEW o, NEW words
    PROVE  Advanced(Checked(Documented(p, o), words), p, o, words)
<1> DEFINE q == Documented(p, o)
<1>1. Advanced(q, p, o, {}) /\ (~ p.m_help => p.m_checked = Marked(p.argv, n))
  BY DocumentedOnly DEF Parsed
<1>2. ~ p.m_help => DOMAIN q.m_checked = DOMAIN p.argv
                    /\ \A i \in DOMAIN p.argv : q.m_checked[i] = (p.m_checked[i] \/ i \in {})
  BY <1>1 DEF Advanced
<1> HIDE DEF q
<1>3. ~ p.m_help => \A i \in DOMAIN p.argv : q.m_checked[i] = p.m_checked[i]
  BY <1>1, <1>2 DEF Marked
<1>4. /\ IsParser(Checked(q, words)) /\ Checked(q, words).argv = q.argv
      /\ Checked(q, words).m_help = q.m_help
      /\ Checked(q, words).m_unique_keys = q.m_unique_keys
      /\ Checked(q, words).m_unique_flags = q.m_unique_flags
      /\ Checked(q, words).m_checked = [i \in DOMAIN q.m_checked |-> q.m_checked[i] \/ i \in words]
  BY <1>1 DEF Checked, IsParser, Advanced
<1>5. ~ p.m_help => [i \in DOMAIN q.m_checked |-> q.m_checked[i] \/ i \in words]
                     = [i \in DOMAIN p.argv |-> p.m_checked[i] \/ i \in words]
  BY <1>2, <1>3
<1> QED
  BY <1>1, <1>4, <1>5 DEF q, Advanced

\* A parse() with no word for help answers as the words say, or ends the
\* program because a value is missing.
LEMMA ParsesAsRead ==
    ASSUME NEW p, NEW n \in Nat, n + 1 \in 1 .. 11, Parsed(p, n), ~ p.m_help
    PROVE  LET parsed == _parse(p, Options[n + 1])
           IN  /\ Advanced(parsed.parser, p, Options[n + 1], TakenAt(p.argv, n + 1))
               /\ CanTake(p.argv, n + 1) =>
                    parsed.outcome = "parsed" /\ parsed.argument = ReadAs(p.argv, n + 1)
               /\ ~ CanTake(p.argv, n + 1) => parsed.outcome \in {"exit 1", "abort"}
<1> DEFINE o == Options[n + 1]
           documented == Documented(p, o)
           found == {i \in DOMAIN p.argv : ~ p.m_checked[i] /\ Names(o, p.argv[i])}
           answer(argument) == [parser |-> documented, argument |-> argument, outcome |-> "parsed"]
           first == CHOOSE i \in found : \A j \in found : i <= j
           parsed == _parse(p, o)
           default == IF o.default = <<>> THEN NotGiven ELSE Given(o.default[1])
<1>1. parsed = IF found # {} THEN Taken(documented, o, first) ELSE answer(default)
  <2>1. IsNewOption(p, o)
    BY OptionsAreNew
  <2> QED
    BY <2>1, Zenon DEF _parse
<1>2. found = NamedAt(p.argv, n + 1)
  BY NextIsUnmarked
<1>3. first = FirstAt(p.argv, n + 1)
  BY <1>2, Zenon DEF FirstAt
<1>4. documented.argv = p.argv /\ p.argv \in Seq(Word)
  BY DEF Documented, Parsed, IsParser
<1> HIDE DEF documented, found, first, default
<1>5. CASE found # {}
  <2>1. parsed = Taken(documented, Options[n + 1], FirstAt(documented.argv, n + 1))
    BY <1>1, <1>3, <1>4, <1>5, Zenon
  <2>2. NamedAt(documented.argv, n + 1) # {} /\ documented.argv \in Seq(Word)
    BY <1>2, <1>4, <1>5, Zenon
  <2>3. Advanced(Checked(documented, TakenAt(p.argv, n + 1)), p, o, TakenAt(p.argv, n + 1))
    BY DocumentedAndMarked DEF documented
  <2> QED
    BY <1>4, <2>1, <2>2, <2>3, TakenAsRead, Zenon
<1>6. CASE found = {}
  <2>1. parsed = answer(default)
    BY <1>1, <1>6, Zenon
  <2>2. parsed.parser = documented /\ parsed.outcome = "parsed" /\ parsed.argument = default
    BY <2>1
  <2>3. CanTake(p.argv, n + 1) /\ ReadAs(p.argv, n + 1) = default /\ TakenAt(p.argv, n + 1) = {}
    BY <1>2, <1>6, Zenon DEF CanTake, ReadAs, TakenAt, default
  <2>4. Advanced(documented, p, o, {})
    BY DocumentedOnly DEF documented
  <2> QED
    BY <2>2, <2>3, <2>4, Zenon DEF documented
<1> QED
  BY <1>5, <1>6, Zenon

\* The options parsed after the next one is.
LEMMA OneMoreParsed ==
    ASSUME NEW p, NEW q, NEW n \in Nat, n + 1 \in 1 .. 11, Parsed(p, n),
           Advanced(q, p, Options[n + 1], TakenAt(p.argv, n + 1)), CanTake(p.argv, n + 1) \/ p.m_help
    PROVE  Parsed(q, n + 1)
<1>0. \A k : k \in 1 .. n + 1 <=> k \in 1 .. n \/ k = n + 1
  OBVIOUS
<1>1. q.argv \in Seq(Word) /\ IsParser(q) /\ (q.m_help <=> AsksForHelp(q.argv))
  BY DEF Parsed, Advanced
<1>2. ASSUME NEW key \in q.m_unique_keys
      PROVE  key = "help" \/ (key # "" /\ \E k \in 1 .. n + 1 : key = Options[k].key)
  <2>1. key \in p.m_unique_keys \/ (key = Options[n + 1].key /\ key # "")
    BY <1>2, Zenon DEF Advanced
  <2> QED
    BY <1>0, <2>1, Zenon DEF Parsed
<1>3. ASSUME NEW flag \in q.m_unique_flags
      PROVE  flag = "h" \/ (flag # "" /\ \E k \in 1 .. n + 1 : flag = Options[k].flag)
  <2>1. flag \in p.m_unique_flags \/ (flag = Options[n + 1].flag /\ flag # "")
    BY <1>3, Zenon DEF Advanced
  <2> QED
    BY <1>0, <2>1, Zenon DEF Parsed
<1>4. ASSUME ~ q.m_help
      PROVE  q.m_checked = Marked(q.argv, n + 1) /\ \A k \in 1 .. n + 1 : CanTake(q.argv, k)
  <2>1. ~ p.m_help /\ q.argv = p.argv
    BY <1>4 DEF Advanced
  <2>2. /\ p.m_checked = Marked(p.argv, n) /\ \A k \in 1 .. n : CanTake(p.argv, k)
        /\ q.m_checked = [i \in DOMAIN p.argv |-> p.m_checked[i] \/ i \in TakenAt(p.argv, n + 1)]
    BY <2>1 DEF Parsed, Advanced
  <2>3. \A i \in DOMAIN p.argv : p.m_checked[i] = (\E k \in 1 .. n : i \in TakenAt(p.argv, k))
    BY <2>2 DEF Marked
  <2>4. ASSUME NEW i \in DOMAIN p.argv
        PROVE  (p.m_checked[i] \/ i \in TakenAt(p.argv, n + 1))
                 = (\E k \in 1 .. n + 1 : i \in TakenAt(p.argv, k))
    BY <1>0, <2>3, Zenon
  <2>5. q.m_checked = Marked(p.argv, n + 1)
    BY <2>2, <2>4, Zenon DEF Marked
  <2> QED
    BY <1>0, <2>1, <2>2, <2>5, Zenon
<1> QED
  BY <1>1, <1>2, <1>3, <1>4, Zenon DEF Parsed

-----------------------------------------------------------------------------
\* Every option can take what is its, of a command line that makes sense, and
\* no word is left.
LEMMA SenseIsTaken ==
    ASSUME NEW argv \in Seq(Word), WellFormed(argv)
    PROVE  /\ \A k \in 1 .. 11 : CanTake(argv, k) /\ ReadAs(argv, k) = Expected(argv, k)
           /\ \A i \in DOMAIN argv : \E k \in 1 .. 11 : i \in TakenAt(argv, k)
<1>1. ASSUME NEW i \in DOMAIN argv, NEW k \in 1 .. 11, Names(Options[k], argv[i])
      PROVE  i \in DashedWords(argv) /\ OptionAt(argv, i) = {k}
  <2>1. k \in OptionAt(argv, i)
    BY <1>1, OptionsListed, Zenon DEF OptionAt
  <2>2. ASSUME NEW l \in OptionAt(argv, i) PROVE l = k
    <3>1. l \in 1 .. 11 /\ Names(Options[l], argv[i])
      BY OptionsListed, Zenon DEF OptionAt
    <3> QED
      BY <1>1, <3>1, OneOption, Zenon
  <2>3. ~ isValue(argv[i])
    BY <1>1, OneOption, Zenon
  <2> QED
    BY <2>1, <2>2, <2>3, Zenon DEF DashedWords
<1>2. ASSUME NEW i \in DOMAIN argv, NEW k \in 1 .. 11, Names(Options[k], argv[i])
      PROVE  NamedAt(argv, k) = {i} /\ FirstAt(argv, k) = i
  <2>1. ASSUME NEW j \in NamedAt(argv, k) PROVE j = i
    <3>1. j \in DOMAIN argv /\ Names(Options[k], argv[j])
      BY DEF NamedAt
    <3>2. /\ i \in DashedWords(argv) /\ j \in DashedWords(argv)
          /\ OptionAt(argv, i) = OptionAt(argv, j)
      BY <1>1, <1>2, <3>1, Zenon
    <3> QED
      BY <3>2, Zenon DEF WellFormed
  <2>2. NamedAt(argv, k) = {i}
    BY <1>2, <2>1, Zenon DEF NamedAt
  <2> QED
    BY <2>2, FirstNames, Zenon
<1>3. ASSUME NEW i \in DOMAIN argv, NEW k \in 1 .. 11, Names(Options[k], argv[i]), Options[k].type # "void"
      PROVE  ValueAt(argv, k, i + 1)
  <2>1. i \in DashedWords(argv) /\ k \in OptionAt(argv, i)
    BY <1>1, <1>3, Zenon
  <2>2. i + 1 \in DOMAIN argv \ DashedWords(argv) /\ converts(Options[k].type, argv[i + 1].text)
    BY <1>3, <2>1, Zenon DEF WellFormed
  <2> QED
    BY <2>2, Zenon DEF ValueAt, DashedWords
<1>4. ASSUME NEW k \in 1 .. 11 PROVE CanTake(argv, k) /\ ReadAs(argv, k) = Expected(argv, k)
  <2>1. CASE NamedAt(argv, k) = {}
    BY <2>1, Zenon DEF NamedAt, CanTake, ReadAs, Expected
  <2>2. CASE NamedAt(argv, k) # {}
    <3>1. PICK i \in DOMAIN argv : Names(Options[k], argv[i])
      BY <2>2, Zenon DEF NamedAt
    <3>2. NamedAt(argv, k) = {i} /\ FirstAt(argv, k) = i
      BY <1>2, <3>1, Zenon
    <3>3. CanTake(argv, k)
      BY <1>3, <3>1, <3>2, Zenon DEF CanTake
    <3>4. (CHOOSE j \in NamedAt(argv, k) : TRUE) = i
      BY <3>2
    <3>5. 1 + i = i + 1
      BY <3>1
    <3>6. Expected(argv, k) = IF Options[k].type = "void" THEN Indicated
                              ELSE Given(to(Options[k].type, argv[1 + i].text))
      BY <2>2, <3>4, Zenon DEF Expected, NamedAt
    <3> QED
      BY <2>2, <3>2, <3>3, <3>5, <3>6, Zenon DEF ReadAs
  <2> QED
    BY <2>1, <2>2
<1>5. ASSUME NEW i \in DashedWords(argv)
      PROVE  \E k \in 1 .. 11 : Names(Options[k], argv[i]) /\ FirstAt(argv, k) = i /\ NamedAt(argv, k) # {}
  <2>1. i \in DOMAIN argv /\ OptionAt(argv, i) # {}
    BY Zenon DEF WellFormed, DashedWords
  <2>2. PICK k \in 1 .. 11 : Names(Options[k], argv[i])
    BY <2>1, OptionsListed, Zenon DEF OptionAt
  <2> QED
    BY <1>2, <2>1, <2>2, Zenon
<1>6. ASSUME NEW i \in DOMAIN argv PROVE \E k \in 1 .. 11 : i \in TakenAt(argv, k)
  <2>1. CASE i \in DashedWords(argv)
    <3>1. PICK k \in 1 .. 11 : FirstAt(argv, k) = i /\ NamedAt(argv, k) # {}
      BY <1>5, <2>1, Zenon
    <3>2. i \in Slot(Options[k], i)
      BY Zenon DEF Slot
    <3> QED
      BY <3>1, <3>2, Zenon DEF TakenAt
  <2>2. CASE i \notin DashedWords(argv)
    <3>1. i - 1 \in DashedWords(argv) /\ ValueAfter(argv, i - 1)
      BY <2>2, Zenon DEF WellFormed
    <3>2. PICK k \in 1 .. 11 : /\ Names(Options[k], argv[i - 1]) /\ FirstAt(argv, k) = i - 1
                               /\ NamedAt(argv, k) # {}
      BY <1>5, <3>1, Zenon
    <3>3. k \in OptionAt(argv, i - 1)
      BY <3>2, OptionsListed, Zenon DEF OptionAt
    <3>4. Options[k].type # "void"
      BY <3>1, <3>3, Zenon DEF ValueAfter
    <3>5. (i - 1) + 1 = i
      OBVIOUS
    <3>6. i \in Slot(Options[k], i - 1)
      BY <3>4, <3>5, Zenon DEF Slot
    <3> QED
      BY <3>2, <3>6, Zenon DEF TakenAt
  <2> QED
    BY <2>1, <2>2
<1> QED
  BY <1>4, <1>6

\* A command line whose every word was taken makes sense.
LEMMA TakenIsSense ==
    ASSUME NEW argv \in Seq(Word), \A k \in 1 .. 11 : CanTake(argv, k),
           \A i \in DOMAIN argv : \E k \in 1 .. 11 : i \in TakenAt(argv, k)
    PROVE  WellFormed(argv)
<1>0. DOMAIN argv \in SUBSET Int
  OBVIOUS
<1>1. ASSUME NEW i \in DashedWords(argv)
      PROVE  \E k \in 1 .. 11 : i = FirstAt(argv, k) /\ OptionAt(argv, i) = {k}
  <2>1. i \in DOMAIN argv /\ ~ isValue(argv[i])
    BY Zenon DEF DashedWords
  <2>2. PICK k \in 1 .. 11 : i \in TakenAt(argv, k)
    BY <2>1
  <2>3. i = FirstAt(argv, k) /\ Names(Options[k], argv[i])
    BY <2>1, <2>2, WhatIsTaken, Zenon DEF ValueAt
  <2>4. ASSUME NEW l \in OptionAt(argv, i) PROVE l = k
    <3>1. l \in 1 .. 11 /\ Names(Options[l], argv[i])
      BY OptionsListed, Zenon DEF OptionAt
    <3> QED
      BY <2>3, <3>1, OneOption, Zenon
  <2>5. k \in OptionAt(argv, i)
    BY <2>3, OptionsListed, Zenon DEF OptionAt
  <2>6. OptionAt(argv, i) = {k}
    BY <2>4, <2>5, Zenon
  <2> QED
    BY <2>3, <2>6, Zenon
<1>2. \A i \in DashedWords(argv) : OptionAt(argv, i) # {}
  BY <1>1, Zenon
<1>3. ASSUME NEW i \in DashedWords(argv), NEW j \in DashedWords(argv), OptionAt(argv, i) = OptionAt(argv, j)
      PROVE  i = j
  <2>1. PICK k \in 1 .. 11 : i = FirstAt(argv, k) /\ OptionAt(argv, i) = {k}
    BY <1>1
  <2>2. PICK l \in 1 .. 11 : j = FirstAt(argv, l) /\ OptionAt(argv, j) = {l}
    BY <1>1
  <2>3. k = l
    BY <1>3, <2>1, <2>2, Zenon
  <2> QED
    BY <2>1, <2>2, <2>3, Zenon
<1>4. ASSUME NEW i \in DOMAIN argv \ DashedWords(argv)
      PROVE  i - 1 \in DashedWords(argv) /\ ValueAfter(argv, i - 1)
  <2>1. PICK k \in 1 .. 11 : i \in TakenAt(argv, k)
    BY <1>4
  <2>2. isValue(argv[i])
    BY <1>4, Zenon DEF DashedWords
  <2>3. ~ Names(Options[k], argv[i])
    BY <2>2, OneOption, Zenon
  <2>4. i = FirstAt(argv, k) + 1 /\ Options[k].type # "void" /\ FirstAt(argv, k) \in NamedAt(argv, k)
    BY <2>1, <2>3, WhatIsTaken, Zenon
  <2>5. FirstAt(argv, k) \in DOMAIN argv /\ Names(Options[k], argv[FirstAt(argv, k)])
    BY <2>4, Zenon DEF NamedAt
  <2>6. i - 1 = FirstAt(argv, k)
    <3>1. \A f \in Int : (f + 1) - 1 = f
      OBVIOUS
    <3> QED
      BY <1>0, <2>4, <2>5, <3>1, Zenon
  <2>7. i - 1 \in DashedWords(argv)
    BY <2>5, <2>6, OneOption, Zenon DEF DashedWords
  <2>8. ASSUME NEW l \in OptionAt(argv, i - 1) PROVE Options[l].type # "void"
    <3>1. l \in 1 .. 11 /\ Names(Options[l], argv[i - 1])
      BY OptionsListed, Zenon DEF OptionAt
    <3>2. l = k
      BY <2>5, <2>6, <3>1, OneOption, Zenon
    <3> QED
      BY <2>4, <3>2, Zenon
  <2> QED
    BY <2>7, <2>8, Zenon DEF ValueAfter
<1>5. ASSUME NEW i \in DashedWords(argv), NEW l \in OptionAt(argv, i), Options[l].type # "void"
      PROVE  i + 1 \in DOMAIN argv \ DashedWords(argv) /\ converts(Options[l].type, argv[i + 1].text)
  <2>1. PICK k \in 1 .. 11 : i = FirstAt(argv, k) /\ OptionAt(argv, i) = {k}
    BY <1>1
  <2>2. l = k
    BY <2>1, Zenon
  <2>3. i \in NamedAt(argv, k)
    BY <2>1, <2>2, OptionsListed, Zenon DEF NamedAt, OptionAt, DashedWords
  <2>4. ValueAt(argv, k, i + 1)
    BY <1>5, <2>1, <2>2, <2>3, Zenon DEF CanTake
  <2> QED
    BY <2>2, <2>4, Zenon DEF ValueAt, DashedWords
<1> QED
  BY <1>2, <1>3, <1>4, <1>5, Zenon DEF WellFormed

-----------------------------------------------------------------------------
LEMMA InitHasCInv == Init => CInv
<1> SUFFICES ASSUME Init PROVE CInv
  OBVIOUS
<1>1. PICK argv \in CommandLines : parser = NewParser(argv)
  BY DEF Init
<1>2. answers = <<>> /\ phase = "parsing"
  BY DEF Init
<1>3. /\ parser.argv = argv /\ IsParser(parser) /\ parser.m_unique_keys = {"help"}
      /\ parser.m_unique_flags = {"h"} /\ parser.m_help = AsksForHelp(argv)
      /\ parser.m_checked = [i \in DOMAIN argv |-> FALSE]
  BY <1>1 DEF NewParser, IsParser, AsksForHelp
<1>4. argv \in Seq(Word)
  BY WorldsAssumption
<1>5. parser.m_checked = Marked(argv, 0) /\ \A k \in 1 .. 0 : FALSE
  <2>1. \A k \in 1 .. 0 : FALSE
    OBVIOUS
  <2> QED
    BY <1>3, <2>1 DEF Marked
<1>6. Parsed(parser, 0)
  BY <1>3, <1>4, <1>5 DEF Parsed
<1>7. answers \in Seq({}) /\ Len(answers) = 0
  BY <1>2
<1>8. Answered
  BY <1>5, <1>7 DEF Answered
<1> QED
  BY <1>2, <1>6, <1>7, <1>8 DEF CInv

\* Something is missing where an option cannot take what is its.
LEMMA EndedByParse ==
    ASSUME NEW p, NEW k \in 1 .. 11, p.argv \in Seq(Word), ~ AsksForHelp(p.argv), ~ CanTake(p.argv, k)
    PROVE  ~ WellFormed(p.argv)
BY SenseIsTaken

LEMMA ParseKeepsCInv ==
    ASSUME CInv, Parse
    PROVE  CInv'
<1> DEFINE n == Len(answers)
           o == Options[n + 1]
           parsed == _parse(parser, o)
<1>1. /\ phase = "parsing" /\ n < Len(Options) /\ parser' = parsed.parser
      /\ \/ /\ parsed.outcome = "parsed" /\ answers' = Append(answers, parsed.argument)
            /\ phase' = phase
         \/ parsed.outcome # "parsed" /\ phase' = "ended" /\ exit' = parsed.outcome /\ answers' = answers
  BY DEF Parse, Exit
<1>2. Parsed(parser, n) /\ Answered
  BY <1>1 DEF CInv
<1>3. PICK S : answers \in Seq(S)
  BY <1>2 DEF Answered
<1>4. n \in Nat /\ n + 1 \in 1 .. 11
  <2>1. Len(Options) = 11
    BY DEF Options
  <2> QED
    BY <1>1, <1>3, <2>1
<1>5. parser.argv \in Seq(Word) /\ (parser.m_help <=> AsksForHelp(parser.argv))
  BY <1>2 DEF Parsed
<1> HIDE DEF o, parsed
<1>6. ASSUME parsed.outcome = "parsed", Advanced(parser', parser, o, TakenAt(parser.argv, n + 1)),
             CanTake(parser.argv, n + 1) \/ parser.m_help,
             ~ parser.m_help => parsed.argument = ReadAs(parser.argv, n + 1)
      PROVE  CInv'
  <2>1. answers' = Append(answers, parsed.argument) /\ phase' = "parsing"
    BY <1>1, <1>6, Zenon
  <2>2. /\ answers' \in Seq(S \cup {parsed.argument}) /\ Len(answers') = n + 1
        /\ answers'[n + 1] = parsed.argument /\ \A k \in 1 .. n : answers'[k] = answers[k]
    BY <1>3, <2>1
  <2>3. Parsed(parser', n + 1)
    BY <1>2, <1>4, <1>6, OneMoreParsed DEF o
  <2>4. parser'.argv = parser.argv /\ parser'.m_help = parser.m_help
    BY <1>6 DEF Advanced
  <2>5. ASSUME ~ parser'.m_help, NEW k \in 1 .. n + 1 PROVE answers'[k] = ReadAs(parser'.argv, k)
    <3>1. CASE k = n + 1
      BY <1>6, <2>2, <2>4, <2>5, <3>1, Zenon
    <3>2. CASE k # n + 1
      <4>1. k \in 1 .. n
        BY <1>4, <3>2
      <4>2. answers[k] = ReadAs(parser.argv, k)
        BY <1>2, <2>4, <2>5, <4>1 DEF Answered
      <4> QED
        BY <2>2, <2>4, <4>1, <4>2, Zenon
    <3> QED
      BY <3>1, <3>2
  <2>6. Answered'
    <3>1. n + 1 <= 11
      BY <1>4
    <3> QED
      BY <2>2, <2>5, <3>1 DEF Answered
  <2> QED
    BY <2>1, <2>2, <2>3, <2>6 DEF CInv
<1>7. CASE parser.m_help
  <2>1. /\ parsed.outcome = "parsed"
        /\ parsed.parser = Documented(parser, o)
    <3>1. IsNewOption(parser, o)
      BY <1>2, <1>4, OptionsAreNew DEF o
    <3> QED
      BY <1>7, <3>1 DEF parsed, _parse
  <2>2. Advanced(parser', parser, o, {})
    BY <1>1, <1>2, <2>1, DocumentedOnly
  <2>3. Advanced(parser', parser, o, TakenAt(parser.argv, n + 1))
    BY <1>7, <2>2, Zenon DEF Advanced
  <2> QED
    BY <1>6, <1>7, <2>1, <2>3, Zenon
<1>8. CASE ~ parser.m_help
  <2>1. /\ Advanced(parser', parser, o, TakenAt(parser.argv, n + 1))
        /\ CanTake(parser.argv, n + 1) =>
             parsed.outcome = "parsed" /\ parsed.argument = ReadAs(parser.argv, n + 1)
        /\ ~ CanTake(parser.argv, n + 1) => parsed.outcome \in {"exit 1", "abort"}
    BY <1>1, <1>2, <1>4, <1>8, ParsesAsRead, Zenon DEF parsed, o
  <2>2. CASE CanTake(parser.argv, n + 1)
    BY <1>6, <1>8, <2>1, <2>2, Zenon
  <2>3. CASE ~ CanTake(parser.argv, n + 1)
    <3>1. parsed.outcome \in {"exit 1", "abort"} /\ parsed.outcome # "parsed"
      BY <2>1, <2>3
    <3>2. phase' = "ended" /\ exit' \in {"exit 1", "abort"}
      BY <1>1, <3>1, Zenon
    <3>3. parser'.argv = parser.argv
      BY <2>1, Zenon DEF Advanced
    <3>4. ~ WellFormed(parser.argv) /\ ~ AsksForHelp(parser.argv)
      BY <1>4, <1>5, <1>8, <2>3, EndedByParse
    <3>5. AnswersFollowTheCommandLine'
      BY <3>2, <3>3, <3>4 DEF AnswersFollowTheCommandLine, AsksForHelp
    <3> QED
      BY <3>2, <3>5 DEF CInv
  <2> QED
    BY <2>2, <2>3
<1> QED
  BY <1>7, <1>8

\* What is constructed was asked for by a command line that makes sense.
LEMMA ConstructKeepsCInv ==
    ASSUME CInv, Construct
    PROVE  CInv'
<1>1. /\ phase = "parsing" /\ Len(answers) = 11 /\ UNCHANGED <<parser, answers>>
      /\ IF enableHelp(parser) # "return"
           THEN phase' = "ended" /\ exit' = enableHelp(parser)
           ELSE phase' = "ended" \/ phase' = "between trials"
  <2>1. Len(Options) = 11
    BY DEF Options
  <2> QED
    BY <2>1 DEF Construct, Exit
<1>2. Parsed(parser, 11) /\ Answered
  BY <1>1 DEF CInv
<1>3. parser.argv \in Seq(Word) /\ (parser.m_help <=> AsksForHelp(parser.argv))
  BY <1>2 DEF Parsed
<1>4. CASE parser.m_help
  <2>1. phase' = "ended" /\ exit' = "exit 0"
    BY <1>1, <1>4 DEF enableHelp
  <2>2. AnswersFollowTheCommandLine'
    BY <1>1, <1>3, <1>4, <2>1 DEF AnswersFollowTheCommandLine, AsksForHelp
  <2> QED
    BY <2>1, <2>2 DEF CInv
<1>5. CASE ~ parser.m_help
  <2>1. parser.m_checked = Marked(parser.argv, 11) /\ \A k \in 1 .. 11 : CanTake(parser.argv, k)
    BY <1>2, <1>5 DEF Parsed
  <2>2. (\A i \in DOMAIN parser.argv : parser.m_checked[i]) <=> WellFormed(parser.argv)
    <3>1. \A i \in DOMAIN parser.argv : parser.m_checked[i] <=> \E k \in 1 .. 11 : i \in TakenAt(parser.argv, k)
      BY <2>1 DEF Marked
    <3> QED
      BY <1>3, <2>1, <3>1, SenseIsTaken, TakenIsSense, Zenon
  <2>3. CASE WellFormed(parser.argv)
    <3>1. enableHelp(parser) = "return"
      BY <1>5, <2>2, <2>3 DEF enableHelp
    <3>2. ASSUME NEW k \in 1 .. 11 PROVE answers[k] = Expected(parser.argv, k)
      <4>1. answers[k] = ReadAs(parser.argv, k)
        BY <1>1, <1>2, <1>5 DEF Answered
      <4> QED
        BY <1>3, <2>3, <4>1, SenseIsTaken, Zenon
    <3>3. answers = [k \in DOMAIN Options |-> Expected(parser.argv, k)]
      <4>1. PICK S : answers \in Seq(S)
        BY <1>2 DEF Answered
      <4>2. answers = [k \in 1 .. 11 |-> answers[k]]
        <5>1. Len(answers) = 11
          BY <1>1, Zenon
        <5> QED
          BY <4>1, <5>1
      <4> QED
        BY <3>2, <4>2, OptionsListed
    <3>4. phase' # "parsing"
      BY <1>1, <3>1
    <3>5. ~ AsksForHelp(parser.argv)
      BY <1>3, <1>5
    <3>6. AnswersFollowTheCommandLine'
      BY <1>1, <2>3, <3>1, <3>3, <3>5, Zenon DEF AnswersFollowTheCommandLine, AsksForHelp
    <3> QED
      BY <3>4, <3>6 DEF CInv
  <2>4. CASE ~ WellFormed(parser.argv)
    <3>1. enableHelp(parser) = "exit 1"
      BY <1>5, <2>2, <2>4 DEF enableHelp
    <3>2. phase' = "ended" /\ exit' = "exit 1"
      BY <1>1, <3>1
    <3>3. AnswersFollowTheCommandLine'
      BY <1>1, <1>3, <1>5, <2>4, <3>2 DEF AnswersFollowTheCommandLine, AsksForHelp
    <3> QED
      BY <3>2, <3>3 DEF CInv
  <2> QED
    BY <2>3, <2>4
<1> QED
  BY <1>4, <1>5

\* Nothing after that changes the answers or undoes an end.
LEMMA AnswersKept ==
    ASSUME CInv, UNCHANGED <<parser, answers>>,
           UNCHANGED <<phase, exit>> \/ (phase \notin {"parsing", "ended"} /\ phase' # "parsing")
    PROVE  CInv'
<1>1. CASE UNCHANGED <<phase, exit>>
  BY <1>1 DEF CInv, Answered, AnswersFollowTheCommandLine
<1>2. CASE phase \notin {"parsing", "ended"} /\ phase' # "parsing"
  <2>1. AnswersFollowTheCommandLine
    BY <1>2 DEF CInv
  <2>2. AnswersFollowTheCommandLine'
    BY <1>2, <2>1 DEF AnswersFollowTheCommandLine
  <2> QED
    BY <1>2, <2>2 DEF CInv
<1> QED
  BY <1>1, <1>2

\* Every step of the program and of a worker keeps the invariant.
LEMMA StepKeepsCInv == CInv /\ [Next]_vars => CInv'
<1> SUFFICES ASSUME CInv, [Next]_vars PROVE CInv'
  OBVIOUS
<1>1. CASE Parse
  BY <1>1, ParseKeepsCInv
<1>2. CASE Construct
  BY <1>2, ConstructKeepsCInv
<1>3. CASE StartTrial
  BY <1>3, AnswersKept DEF StartTrial, main_vars
<1>4. CASE Run
  <2>1. UNCHANGED <<parser, answers, exit>>
    BY <1>4 DEF Run, main_vars
  <2>2. phase \notin {"parsing", "ended"} /\ phase' # "parsing"
    BY <1>4 DEF Run, LearnerStep, Search, StopRunning, Select, HoldDistributions, Evaluate, Await,
                Compare, SelectAif, Execute, FinishInstance
  <2> QED
    BY <2>1, <2>2, AnswersKept
<1>5. CASE NoWeight
  BY <1>5, AnswersKept DEF NoWeight, Exit
<1>6. CASE Report
  BY <1>6, AnswersKept DEF Report, Exit
<1>7. CASE Finish
  BY <1>7, AnswersKept DEF Finish, Exit
<1>8. ASSUME NEW t \in Thread, Worker(t) PROVE CInv'
  BY <1>8, AnswersKept DEF Worker, Work, main_vars
<1>9. CASE UNCHANGED vars
  BY <1>9, AnswersKept DEF vars, main_vars
<1> QED
  BY <1>1, <1>2, <1>3, <1>4, <1>5, <1>6, <1>7, <1>8, <1>9 DEF Next, Main, Terminated

\* On every command line, of any words and any length: one that asks for help
\* ends the program well, one that makes sense is answered as it is read as a
\* whole, in any order, and any other never gets past the parser
\* (ArgParser.h:187-262, 146).
THEOREM CommandLineIsAnswered == Spec => []AnswersFollowTheCommandLine
<1>1. CInv => AnswersFollowTheCommandLine
  BY DEF CInv, AnswersFollowTheCommandLine
<1> QED
  BY <1>1, InitHasCInv, StepKeepsCInv, PTL DEF Spec

-----------------------------------------------------------------------------
(***************************************************************************)
(* What the sums over a set add up to.                                     *)
(***************************************************************************)
\* The member a fold over a set takes next.
AnyOf(T) == CHOOSE x \in T : TRUE

\* Induction over the subsets of a finite set, one member taken at a time.
LEMMA MemberByMember ==
    ASSUME NEW S, IsFiniteSet(S), NEW P, {} \in P,
           \A T \in SUBSET S : T # {} /\ T \ {AnyOf(T)} \in P => T \in P
    PROVE  \A T \in SUBSET S : T \in P
<1> DEFINE Missed == {k \in Nat : \E T \in SUBSET S : T \notin P /\ Cardinality(T) = k}
<1> SUFFICES ASSUME NEW T \in SUBSET S, T \notin P PROVE FALSE
  OBVIOUS
<1>1. \A U \in SUBSET S : IsFiniteSet(U) /\ Cardinality(U) \in Nat
  BY FS_Subset, FS_CardinalityType
<1>2. PICK k \in Missed : \A l \in Missed : k <= l
  <2>1. Missed \in SUBSET Nat /\ Missed # {}
    BY <1>1
  <2> HIDE DEF Missed
  <2> QED
    BY <2>1, LeastNumber
<1>3. PICK U \in SUBSET S : U \notin P /\ Cardinality(U) = k
  BY <1>2
<1>4. U # {} /\ AnyOf(U) \in U
  BY <1>3 DEF AnyOf
<1>5. Cardinality(U \ {AnyOf(U)}) = k - 1
  BY <1>1, <1>3, <1>4, FS_RemoveElement
<1>6. U \ {AnyOf(U)} \in SUBSET S /\ U \ {AnyOf(U)} \notin P
  BY <1>3, <1>4
<1>7. k - 1 \in Missed
  BY <1>1, <1>5, <1>6
<1>8. k \in Nat /\ k <= k - 1
  BY <1>2, <1>7
<1> QED
  BY <1>8

\* The sums of the subsets of S, of the numbers v.
SetSums(v, S, g) == g = [T \in SUBSET S |-> IF T = {} THEN 0 ELSE v[AnyOf(T)] + g[T \ {AnyOf(T)}]]

\* The recursion has a solution.
LEMMA SetSumsExist ==
    ASSUME NEW v, NEW S, IsFiniteSet(S)
    PROVE  \E g : SetSums(v, S, g)
<1> DEFINE Sums(g, T) == g[T] = IF T = {} THEN 0 ELSE v[AnyOf(T)] + g[T \ {AnyOf(T)}]
           Solved(l) == \E g : \A T \in SUBSET S : Cardinality(T) <= l => Sums(g, T)
           Missed == {l \in Nat : ~ Solved(l)}
<1>1. \A T \in SUBSET S : IsFiniteSet(T) /\ Cardinality(T) \in Nat /\ (Cardinality(T) = 0 <=> T = {})
  BY FS_Subset, FS_CardinalityType, FS_EmptySet
<1>2. Solved(0)
  <2> DEFINE g == [T \in SUBSET S |-> 0]
  <2>1. \A T \in SUBSET S : Cardinality(T) <= 0 => Sums(g, T)
    BY <1>1
  <2> QED
    BY <2>1
<1>3. ASSUME NEW l \in Nat, Solved(l) PROVE Solved(l + 1)
  <2>1. PICK g : \A T \in SUBSET S : Cardinality(T) <= l => Sums(g, T)
    BY <1>3
  <2> DEFINE h == [T \in SUBSET S |-> IF Cardinality(T) = l + 1 THEN v[AnyOf(T)] + g[T \ {AnyOf(T)}] ELSE g[T]]
  <2>2. ASSUME NEW T \in SUBSET S, Cardinality(T) <= l + 1 PROVE Sums(h, T)
    <3>1. CASE T = {}
      <4>1. Cardinality(T) = 0 /\ h[T] = g[T]
        BY <1>1, <3>1
      <4> QED
        BY <2>1, <3>1, <4>1
    <3>2. CASE T # {}
      <4>1. AnyOf(T) \in T /\ T \ {AnyOf(T)} \in SUBSET S
        BY <3>2 DEF AnyOf
      <4>2. Cardinality(T \ {AnyOf(T)}) = Cardinality(T) - 1 /\ Cardinality(T) \in Nat
        BY <1>1, <4>1, FS_RemoveElement
      <4>3. h[T \ {AnyOf(T)}] = g[T \ {AnyOf(T)}]
        BY <2>2, <4>1, <4>2
      <4>4. h[T] = v[AnyOf(T)] + g[T \ {AnyOf(T)}]
        <5>1. CASE Cardinality(T) = l + 1
          BY <5>1
        <5>2. CASE Cardinality(T) # l + 1
          <6>1. Cardinality(T) <= l /\ h[T] = g[T]
            BY <2>2, <4>2, <5>2
          <6> QED
            BY <2>1, <3>2, <6>1
        <5> QED
          BY <5>1, <5>2
      <4> HIDE DEF h
      <4> QED
        BY <3>2, <4>3, <4>4
    <3> QED
      BY <3>1, <3>2
  <2> HIDE DEF h, Sums
  <2> QED
    BY <2>2
<1>4. Missed = {}
  <2> SUFFICES ASSUME Missed # {} PROVE FALSE
    OBVIOUS
  <2>1. PICK l \in Missed : \A k \in Missed : l <= k
    <3>1. Missed \in SUBSET Nat
      OBVIOUS
    <3> HIDE DEF Missed
    <3> QED
      BY <3>1, LeastNumber
  <2>2. l \in Nat /\ ~ Solved(l)
    BY <2>1
  <2> HIDE DEF Solved
  <2>3. l # 0
    BY <1>2, <2>2
  <2>4. l - 1 \in Nat /\ (l - 1) + 1 = l /\ ~ (l <= l - 1)
    BY <2>2, <2>3
  <2>5. Solved(l - 1)
    BY <2>1, <2>4
  <2>6. Solved((l - 1) + 1)
    BY <1>3, <2>4, <2>5
  <2> QED
    BY <2>2, <2>4, <2>6
<1>5. PICK g : \A T \in SUBSET S : Sums(g, T)
  <2>1. Cardinality(S) \in Nat /\ \A T \in SUBSET S : Cardinality(T) <= Cardinality(S)
    BY FS_Subset, FS_CardinalityType
  <2>2. Solved(Cardinality(S))
    BY <1>4, <2>1
  <2> QED
    BY <2>1, <2>2
<1> DEFINE h == [T \in SUBSET S |-> g[T]]
<1>6. ASSUME NEW T \in SUBSET S PROVE h[T] = IF T = {} THEN 0 ELSE v[AnyOf(T)] + h[T \ {AnyOf(T)}]
  <2>1. T \ {AnyOf(T)} \in SUBSET S
    OBVIOUS
  <2> QED
    BY <1>5, <2>1
<1>7. SetSums(v, S, h)
  <2>1. h = [T \in SUBSET S |-> h[T]]
    OBVIOUS
  <2> HIDE DEF h
  <2> QED
    BY <1>6, <2>1 DEF SetSums
<1> QED
  BY <1>7

\* The sums are numbers.
LEMMA SetSumsAreNumbers ==
    ASSUME NEW S, IsFiniteSet(S), NEW v \in [S -> Int], NEW g, SetSums(v, S, g)
    PROVE  \A T \in SUBSET S : g[T] \in Int
<1> DEFINE P == {T \in SUBSET S : g[T] \in Int}
<1>1. {} \in P
  BY DEF SetSums
<1>2. ASSUME NEW T \in SUBSET S, T # {}, T \ {AnyOf(T)} \in P PROVE T \in P
  <2>1. AnyOf(T) \in S
    BY <1>2 DEF AnyOf
  <2>2. g[T] = v[AnyOf(T)] + g[T \ {AnyOf(T)}]
    BY <1>2 DEF SetSums
  <2> QED
    BY <1>2, <2>1, <2>2
<1> HIDE DEF P
<1>3. \A T \in SUBSET S : T \in P
  BY <1>1, <1>2, MemberByMember
<1> QED
  BY <1>3 DEF P

\* Of nothing but zeros the sums are zero.
LEMMA SetSumsOfZeros ==
    ASSUME NEW S, IsFiniteSet(S), NEW v, \A x \in S : v[x] = 0, NEW g, SetSums(v, S, g)
    PROVE  g[S] = 0
<1> DEFINE P == {T \in SUBSET S : g[T] = 0}
<1>1. {} \in P
  BY DEF SetSums
<1>2. ASSUME NEW T \in SUBSET S, T # {}, T \ {AnyOf(T)} \in P PROVE T \in P
  <2>1. AnyOf(T) \in S
    BY <1>2 DEF AnyOf
  <2>2. g[T] = v[AnyOf(T)] + g[T \ {AnyOf(T)}]
    BY <1>2 DEF SetSums
  <2> QED
    BY <1>2, <2>1, <2>2
<1> HIDE DEF P
<1>3. \A T \in SUBSET S : T \in P
  BY <1>1, <1>2, MemberByMember
<1> QED
  BY <1>3 DEF P

\* What is added to one number is added to the sum.
LEMMA OneAdded ==
    ASSUME NEW S, IsFiniteSet(S), NEW v \in [S -> Int], NEW w, NEW y \in S, NEW delta \in Int,
           w[y] = v[y] + delta, \A x \in S : x # y => w[x] = v[x],
           NEW g, SetSums(v, S, g), NEW h, SetSums(w, S, h)
    PROVE  h[S] = g[S] + delta
<1> DEFINE P == {T \in SUBSET S : h[T] = IF y \in T THEN g[T] + delta ELSE g[T]}
<1>1. {} \in P
  BY DEF SetSums
<1>2. ASSUME NEW T \in SUBSET S, T # {}, T \ {AnyOf(T)} \in P PROVE T \in P
  <2> DEFINE x == AnyOf(T)
             U == T \ {x}
  <2>1. x \in T /\ x \in S /\ U \in SUBSET S /\ v[x] \in Int
    BY <1>2 DEF AnyOf
  <2>2. g[T] = v[x] + g[U] /\ h[T] = w[x] + h[U]
    BY <1>2 DEF SetSums
  <2>3. g[U] \in Int
    <3> HIDE DEF U
    <3> QED
      BY <2>1, SetSumsAreNumbers
  <2>4. h[U] = IF y \in U THEN g[U] + delta ELSE g[U]
    BY <1>2
  <2>5. CASE x = y
    <3>1. y \notin U /\ y \in T
      BY <2>1, <2>5
    <3>2. h[U] = g[U]
      <4> HIDE DEF U
      <4> QED
        BY <2>4, <3>1
    <3>3. w[x] = v[x] + delta
      BY <2>5
    <3> HIDE DEF x, U
    <3>4. h[T] = g[T] + delta
      BY <2>1, <2>2, <2>3, <3>2, <3>3
    <3> QED
      BY <3>1, <3>4
  <2>6. CASE x # y
    <3>1. (y \in U <=> y \in T) /\ w[x] = v[x]
      BY <2>1, <2>6
    <3> HIDE DEF x, U
    <3>2. h[T] = IF y \in T THEN g[T] + delta ELSE g[T]
      BY <2>1, <2>2, <2>3, <2>4, <3>1
    <3> QED
      BY <3>2
  <2> QED
    BY <2>5, <2>6
<1> HIDE DEF P
<1>3. \A T \in SUBSET S : T \in P
  BY <1>1, <1>2, MemberByMember
<1>4. S \in P
  BY <1>3
<1> QED
  BY <1>4 DEF P

-----------------------------------------------------------------------------
(***************************************************************************)
(* What a fold keeps.                                                      *)
(***************************************************************************)
\* What a fold's values are on the prefixes: whatever holds of the base and is
\* kept from one element to the next holds of them all.
LEMMA FoldsWithin ==
    ASSUME NEW n \in Nat, NEW M, NEW h,
           h[{}] \in M,
           \A T \in SUBSET (1 .. n) : T # {} /\ h[T \ {Max(T)}] \in M => h[T] \in M
    PROVE  \A T \in SUBSET (1 .. n) : h[T] \in M
<1> DEFINE Below(k) == \A T \in SUBSET (1 .. k) : h[T] \in M
           Missed == {k \in 0 .. n : ~ Below(k)}
<1> SUFFICES ASSUME Missed # {} PROVE FALSE
  <2>1. n \in 0 .. n
    OBVIOUS
  <2> QED
    BY <2>1
<1>1. PICK k \in Missed : \A l \in Missed : k <= l
  <2>1. Missed \in SUBSET Nat
    OBVIOUS
  <2> HIDE DEF Missed
  <2> QED
    BY <2>1, LeastNumber
<1>2. k \in 0 .. n /\ k \in Nat
  BY <1>1
<1>3. PICK T \in SUBSET (1 .. k) : h[T] \notin M
  BY <1>1
<1>4. T # {}
  BY <1>3
<1>5. Max(T) \in T /\ \A y \in T : Max(T) >= y
  BY <1>2, <1>3, <1>4, GreatestNumber
<1> DEFINE m == Max(T)
           U == T \ {m}
<1>6. m \in 1 .. k /\ \A y \in U : y \in Nat /\ 1 <= y /\ y <= m /\ y # m
  <2>1. m \in 1 .. k /\ \A y \in T : y \in 1 .. k /\ m >= y
    BY <1>3, <1>5
  <2>2. \A y \in U : y \in T /\ y # m
    OBVIOUS
  <2> HIDE DEF m, U
  <2>3. ASSUME NEW y \in U PROVE y \in Nat /\ 1 <= y /\ y <= m /\ y # m
    <3>1. y \in 1 .. k /\ m >= y /\ y # m /\ m \in 1 .. k
      BY <2>1, <2>2
    <3> QED
      BY <1>2, <3>1
  <2> QED
    BY <2>1, <2>3
<1> HIDE DEF m
<1>7. U \in SUBSET (1 .. m - 1) /\ m - 1 \in 0 .. n /\ ~ (k <= m - 1)
  <2>1. m - 1 \in 0 .. n /\ ~ (k <= m - 1)
    BY <1>2, <1>6
  <2>2. \A y \in U : y \in 1 .. m - 1
    BY <1>2, <1>6
  <2> HIDE DEF U
  <2> QED
    BY <2>1, <2>2
<1>8. Below(m - 1)
  BY <1>1, <1>7
<1>9. h[U] \in M
  BY <1>7, <1>8
<1>10. T \in SUBSET (1 .. n)
  BY <1>2, <1>3
<1> QED
  BY <1>3, <1>4, <1>9, <1>10 DEF m

\* A fold's recursion has a solution: step says what is made of a value and an
\* element.
FoldSteps(step_of, base, v, n, g) ==
    g = [T \in SUBSET (1 .. n) |-> IF T = {} THEN base ELSE step_of[<<g[T \ {Max(T)}], v[Max(T)]>>]]

\* There is one for every sequence.
LEMMA FoldStepsExist ==
    ASSUME NEW n \in Nat, NEW step_of, NEW base, NEW v
    PROVE  \E g : FoldSteps(step_of, base, v, n, g)
<1> DEFINE Fold(g, T) == IF T = {} THEN base ELSE step_of[<<g[T \ {Max(T)}], v[Max(T)]>>]
           Solved(l) == \E g : g = [T \in SUBSET (1 .. l) |-> Fold(g, T)]
           Missed == {l \in Nat : ~ Solved(l)}
<1>1. Solved(0)
  <2> DEFINE g == [T \in SUBSET (1 .. 0) |-> base]
  <2>1. \A T \in SUBSET (1 .. 0) : T = {}
    OBVIOUS
  <2>2. g = [T \in SUBSET (1 .. 0) |-> Fold(g, T)]
    BY <2>1
  <2> QED
    BY <2>2
<1>2. ASSUME NEW l \in Nat, Solved(l) PROVE Solved(l + 1)
  <2>1. PICK g : g = [T \in SUBSET (1 .. l) |-> Fold(g, T)]
    BY <1>2
  <2> DEFINE h == [T \in SUBSET (1 .. l + 1) |->
                      IF l + 1 \in T THEN step_of[<<g[T \ {l + 1}], v[l + 1]>>] ELSE g[T]]
  <2>2. ASSUME NEW T \in SUBSET (1 .. l + 1) PROVE h[T] = Fold(h, T)
    <3>1. CASE l + 1 \in T
      <4>1. Max(T) = l + 1
        <5>1. l + 1 \in Nat /\ T # {}
          BY <3>1
        <5>2. Max(T) \in T /\ \A y \in T : Max(T) >= y
          BY <5>1, GreatestNumber
        <5>3. Max(T) \in 1 .. l + 1 /\ Max(T) >= l + 1
          BY <3>1, <5>2
        <5> QED
          BY <5>3
      <4>2. T \ {l + 1} \in SUBSET (1 .. l + 1) /\ l + 1 \notin T \ {l + 1}
        OBVIOUS
      <4>3. h[T \ {l + 1}] = g[T \ {l + 1}]
        BY <4>2
      <4>4. h[T] = step_of[<<g[T \ {l + 1}], v[l + 1]>>]
        BY <3>1
      <4> QED
        BY <3>1, <4>1, <4>3, <4>4
    <3>2. CASE l + 1 \notin T
      <4>1. T \in SUBSET (1 .. l)
        BY <3>2
      <4>2. h[T] = g[T] /\ g[T] = Fold(g, T)
        BY <2>1, <3>2, <4>1
      <4>3. CASE T = {}
        BY <4>2, <4>3
      <4>4. CASE T # {}
        <5>1. T \ {Max(T)} \in SUBSET (1 .. l + 1) /\ l + 1 \notin T \ {Max(T)}
          BY <3>2
        <5>2. h[T \ {Max(T)}] = g[T \ {Max(T)}]
          BY <5>1
        <5> QED
          BY <4>2, <4>4, <5>2
      <4> QED
        BY <4>3, <4>4
    <3> QED
      BY <3>1, <3>2
  <2>3. h = [T \in SUBSET (1 .. l + 1) |-> Fold(h, T)]
    <3> HIDE DEF Fold
    <3> QED
      BY <2>2
  <2> QED
    BY <2>3
<1>3. Missed = {}
  <2> SUFFICES ASSUME Missed # {} PROVE FALSE
    OBVIOUS
  <2>1. PICK l \in Missed : \A k \in Missed : l <= k
    <3>1. Missed \in SUBSET Nat
      OBVIOUS
    <3> HIDE DEF Missed
    <3> QED
      BY <3>1, LeastNumber
  <2>2. l \in Nat /\ ~ Solved(l)
    BY <2>1
  <2> HIDE DEF Solved
  <2>3. l # 0
    BY <1>1, <2>2
  <2>4. l - 1 \in Nat /\ (l - 1) + 1 = l /\ ~ (l <= l - 1)
    BY <2>2, <2>3
  <2>5. Solved(l - 1)
    BY <2>1, <2>4
  <2>6. Solved((l - 1) + 1)
    BY <1>2, <2>4, <2>5
  <2> QED
    BY <2>2, <2>4, <2>6
<1> QED
  BY <1>3 DEF FoldSteps

\* The solution stays in M if every step does.
LEMMA FoldStepsWithin ==
    ASSUME NEW n \in Nat, NEW M, NEW base \in M, NEW v, NEW step_of,
           \A m \in M, k \in 1 .. n : step_of[<<m, v[k]>>] \in M
    PROVE  \E g : FoldSteps(step_of, base, v, n, g) /\ \A T \in SUBSET (1 .. n) : g[T] \in M
<1>1. PICK g : FoldSteps(step_of, base, v, n, g)
  BY FoldStepsExist
<1>2. g[{}] \in M
  BY <1>1 DEF FoldSteps
<1>3. ASSUME NEW T \in SUBSET (1 .. n), T # {}, g[T \ {Max(T)}] \in M PROVE g[T] \in M
  <2>1. Max(T) \in 1 .. n
    BY <1>3, GreatestNumber
  <2>2. g[T] = step_of[<<g[T \ {Max(T)}], v[Max(T)]>>]
    BY <1>1, <1>3 DEF FoldSteps
  <2> QED
    BY <1>3, <2>1, <2>2
<1>4. \A T \in SUBSET (1 .. n) : g[T] \in M
  BY <1>2, <1>3, FoldsWithin
<1> QED
  BY <1>1, <1>4

-----------------------------------------------------------------------------
(***************************************************************************)
(* The product the learner moves on.                                       *)
(***************************************************************************)
\* What is proved of the product does not depend on which products there are, nor
\* on the state of a search over one.
Symbolic == INSTANCE SymbolicProductProofs WITH
    Products <- {}, CacheSizes <- {}, Uses <- {},
    product <- 0, max_size <- 0, uses <- 0, m_cache <- 0, status <- 0, last <- 0

\* The product of those theorems numbers its nodes as the learner's does.
LEMMA SameNumbering ==
    ASSUME NEW p
    PROVE  /\ Symbolic!IsProduct(p) <=> IsProduct(p)
           /\ Symbolic!WideNode(p) = WideNode(p)
           /\ \A node : Symbolic!unwrap(p, node) = unwrap(p, node)
           /\ \A inds : Symbolic!wrap(p, inds) = wrap(p, inds)
<1>1. ASSUME NEW v PROVE Symbolic!Times(v) = Times(v) /\ Symbolic!Plus(v) = Plus(v)
  <2>1. Symbolic!Times(v) = Times(v)
    BY DEF Symbolic!Times, Times, Symbolic!FoldLeft, FoldLeft, Symbolic!MapThenFoldSet, MapThenFoldSet, Symbolic!Max, Max
  <2>2. Symbolic!Plus(v) = Plus(v)
    BY DEF Symbolic!Plus, Plus, Symbolic!FoldLeft, FoldLeft, Symbolic!MapThenFoldSet, MapThenFoldSet, Symbolic!Max, Max
  <2> QED
    BY <2>1, <2>2
<1>2. \A sizes, k : Symbolic!temp(sizes, k) = temp(sizes, k)
  BY <1>1 DEF Symbolic!temp, temp
<1>3. Symbolic!graphs(p) = graphs(p)
  BY DEF Symbolic!graphs, graphs
<1>4. Symbolic!m_graph_sizes(p) = m_graph_sizes(p)
  BY <1>3 DEF Symbolic!m_graph_sizes, m_graph_sizes
<1>5. \A g : Symbolic!Node(g) = Node(g)
  BY DEF Symbolic!Node, Node
<1>6. \A f : Symbolic!Range(f) = Range(f)
  BY DEF Symbolic!Range, Range
<1>7. Symbolic!IsProduct(p) <=> IsProduct(p)
  BY <1>1, <1>3, <1>4, <1>5, <1>6 DEF Symbolic!IsProduct, IsProduct
<1>8. Symbolic!WideNode(p) = WideNode(p)
  BY <1>1, <1>4 DEF Symbolic!WideNode, WideNode
<1>9. ASSUME NEW node PROVE Symbolic!unwrap(p, node) = unwrap(p, node)
  BY <1>2, <1>4 DEF Symbolic!unwrap, unwrap
<1>10. ASSUME NEW inds PROVE Symbolic!wrap(p, inds) = wrap(p, inds)
  BY <1>1, <1>2, <1>3, <1>4 DEF Symbolic!wrap, wrap
<1> QED
  BY <1>7, <1>8, <1>9, <1>10

\* And it has the same connections.
LEMMA SameSteps ==
    ASSUME NEW p, NEW node
    PROVE  /\ Symbolic!Outward(p, node, Symbolic!post(p, node)) = Outward(p, node, post(p, node))
           /\ \A g, n : Symbolic!outgoing(g, n) = outgoing(g, n)
<1>1. ASSUME NEW v, NEW S PROVE Symbolic!Among(v, S) = Among(v, S)
  BY DEF Symbolic!Among, Among, Symbolic!FoldLeft, FoldLeft, Symbolic!MapThenFoldSet, MapThenFoldSet, Symbolic!Max, Max
<1>2. \A f : Symbolic!Range(f) = Range(f)
  BY DEF Symbolic!Range, Range
<1>3. ASSUME NEW g, NEW n PROVE Symbolic!outgoing(g, n) = outgoing(g, n)
  BY <1>1, <1>2 DEF Symbolic!outgoing, outgoing
<1>4. \A sp, cs : Symbolic!OptionsInto(p, sp, cs) = OptionsInto(p, sp, cs)
  <2>1. \A sp, o : Symbolic!observe(p, sp, o) <=> observe(p, sp, o)
    BY DEF Symbolic!observe, observe
  <2> SUFFICES ASSUME NEW sp, NEW cs PROVE Symbolic!OptionsInto(p, sp, cs) = OptionsInto(p, sp, cs)
    OBVIOUS
  <2> QED
    BY <1>1, <2>1 DEF Symbolic!OptionsInto, OptionsInto
<1>5. Symbolic!unwrap(p, node) = unwrap(p, node)
  BY SameNumbering
<1>6. Symbolic!post(p, node) = post(p, node)
  BY <1>1, <1>2, <1>3, <1>4, <1>5 DEF Symbolic!post, post
<1>7. ASSUME NEW options PROVE Symbolic!Picks(options) = Picks(options)
  <2>1. ASSUME NEW v PROVE Symbolic!Times(v) = Times(v)
    BY DEF Symbolic!Times, Times, Symbolic!FoldLeft, FoldLeft, Symbolic!MapThenFoldSet, MapThenFoldSet, Symbolic!Max, Max
  <2>2. \A sizes, k : Symbolic!temp(sizes, k) = temp(sizes, k)
    BY <2>1 DEF Symbolic!temp, temp
  <2>3. \A o : Symbolic!permutations(o) = permutations(o)
    BY <2>1, <2>2 DEF Symbolic!permutations, permutations
  <2> QED
    BY <2>3 DEF Symbolic!Picks, Picks
<1>8. \A m, ch, au : Symbolic!Combine(m, ch, au) = Combine(m, ch, au)
  BY DEF Symbolic!Combine, Combine
<1>9. ASSUME NEW seqs PROVE Symbolic!FlattenSeq(seqs) = FlattenSeq(seqs)
  BY DEF Symbolic!FlattenSeq, FlattenSeq
<1>10. ASSUME NEW array PROVE Symbolic!Outward(p, node, array) = Outward(p, node, array)
  BY <1>3, <1>5, <1>7, <1>8, <1>9 DEF Symbolic!Outward, Outward
<1> QED
  BY <1>3, <1>6, <1>10

\* The connections that leave a node, worked out from what enables them.
Connected(p, node) == Outward(p, node, post(p, node))

\* What leaves a node: connections of a sequence, each of whose ends is a node,
\* and whose action the behavior handler keeps an element for.
LEMMA ConnectionsLeave ==
    ASSUME NEW p, IsProduct(p), NEW node \in WideNode(p)
    PROVE  /\ Connected(p, node) \in Seq(Range(Connected(p, node)))
           /\ \A x \in Range(Connected(p, node)) :
                 /\ Destination(p, x) \in WideNode(p)
                 /\ <<ts_node(p, node), Inherited(x).model_edge>> \in NodeActionPair(p)
<1> DEFINE u == unwrap(p, node)
           listed == Range(Connected(p, node))
<1>1. Symbolic!IsProduct(p)
  BY SameNumbering
<1>2. \A f : Symbolic!Range(f) = Range(f)
  BY DEF Symbolic!Range, Range
<1>3. /\ Symbolic!Outward(p, node, Symbolic!post(p, node)) = Connected(p, node)
      /\ \A g, n : Symbolic!outgoing(g, n) = outgoing(g, n)
      /\ Symbolic!unwrap(p, node) = u
  BY SameSteps, SameNumbering DEF Connected
<1>4. LET su == Symbolic!unwrap(p, node)
          sl == Symbolic!Range(Symbolic!Outward(p, node, Symbolic!post(p, node)))
      IN  /\ \A x \in sl : DOMAIN x.automata = DOMAIN p.automata /\ Symbolic!Leads(p, su, x.model, x.automata)
          /\ Symbolic!Outward(p, node, Symbolic!post(p, node)) \in Seq(sl)
  BY <1>1, Symbolic!OutwardElements
<1>5. /\ \A x \in listed : DOMAIN x.automata = DOMAIN p.automata /\ Symbolic!Leads(p, u, x.model, x.automata)
      /\ Connected(p, node) \in Seq(listed)
  BY <1>2, <1>3, <1>4
<1> HIDE DEF u, listed
<1>6. ASSUME NEW g, g.connections \in Seq(Range(g.connections)), NEW n
      PROVE  Range(outgoing(g, n)) = {x \in Range(g.connections) : x.src = n}
  <2>1. Symbolic!Range(Symbolic!outgoing(g, n)) = {x \in Symbolic!Range(g.connections) : x.src = n}
    BY <1>2, <1>6, Symbolic!Connections
  <2> QED
    BY <1>2, <1>3, <2>1
<1>7. /\ p.model.connections \in Seq(Range(p.model.connections))
      /\ \A a \in DOMAIN p.automata : p.automata[a].connections \in Seq(Range(p.automata[a].connections))
  BY <1>1, <1>2, Symbolic!ProductGraphs
<1>8. ASSUME NEW x \in listed
      PROVE  /\ Destination(p, x) \in WideNode(p)
             /\ <<ts_node(p, node), Inherited(x).model_edge>> \in NodeActionPair(p)
  <2>1. /\ DOMAIN x.automata = DOMAIN p.automata
        /\ x.model \in Range(outgoing(p.model, u[1]))
        /\ \A a \in DOMAIN p.automata : x.automata[a] \in Range(outgoing(p.automata[a], u[a + 1]))
    BY <1>2, <1>3, <1>5 DEF Symbolic!Leads
  <2>2. x.model \in Range(p.model.connections) /\ x.model.src = u[1]
    BY <1>6, <1>7, <2>1
  <2>3. \A a \in DOMAIN p.automata : x.automata[a] \in Range(p.automata[a].connections)
    BY <1>6, <1>7, <2>1
  <2>4. Symbolic!Destination(p, x) \in Symbolic!WideNode(p)
    BY <1>1, <1>2, <2>1, <2>2, <2>3, Symbolic!Ends
  <2>5. Symbolic!Destination(p, x) = Destination(p, x)
    BY SameNumbering DEF Symbolic!Destination, Destination
  <2>6. Destination(p, x) \in WideNode(p)
    BY <2>4, <2>5, SameNumbering
  <2>7. Inherited(x).model_edge = x.model.edge
    BY DEF Inherited, inherit
  <2>8. ts_node(p, node) = u[1]
    BY DEF ts_node, u
  <2> QED
    BY <2>2, <2>6, <2>7, <2>8 DEF NodeActionPair
<1> QED
  BY <1>5, <1>8 DEF listed

\* What the searches see of a node.
LEMMA ExpansionsLeave ==
    ASSUME NEW p \in Products, NEW node \in WideNode(p)
    PROVE  /\ \E n \in Nat : /\ DOMAIN Expansions[p][node].children = 1 .. n
                             /\ DOMAIN Expansions[p][node].edges = 1 .. n
           /\ \A k \in DOMAIN Expansions[p][node].children :
                 /\ Expansions[p][node].children[k] \in WideNode(p)
                 /\ <<ts_node(p, node), Expansions[p][node].edges[k].model_edge>> \in NodeActionPair(p)
<1>1. IsProduct(p)
  BY ProductAssumption
<1>2. /\ Expansions[p][node].children = Mapped(Connected(p, node), LAMBDA x : Destination(p, x))
      /\ Expansions[p][node].edges = Mapped(Connected(p, node), Inherited)
  BY DEF Expansions, children, outgoingEdges, Connected
<1> DEFINE v == Connected(p, node)
<1>3. /\ v \in Seq(Range(v))
      /\ \A x \in Range(v) : /\ Destination(p, x) \in WideNode(p)
                             /\ <<ts_node(p, node), Inherited(x).model_edge>> \in NodeActionPair(p)
  BY <1>1, ConnectionsLeave
<1>4. /\ Expansions[p][node].children = [k \in DOMAIN v |-> Destination(p, v[k])]
      /\ Expansions[p][node].edges = [k \in DOMAIN v |-> Inherited(v[k])]
  BY <1>2 DEF Mapped
<1> HIDE DEF v
<1>5. \E n \in Nat : DOMAIN v = 1 .. n
  BY <1>3
<1>6. \A k \in DOMAIN v : v[k] \in Range(v)
  BY DEF Range
<1>7. DOMAIN Expansions[p][node].children = DOMAIN v /\ DOMAIN Expansions[p][node].edges = DOMAIN v
  BY <1>4
<1>8. \A k \in DOMAIN v : /\ Expansions[p][node].children[k] = Destination(p, v[k])
                          /\ Expansions[p][node].edges[k] = Inherited(v[k])
  BY <1>4
<1> QED
  BY <1>3, <1>5, <1>6, <1>7, <1>8

\* The learner starts at a node of the product.
LEMMA StartIsANode ==
    ASSUME NEW p, IsProduct(p), NEW n \in Node(p.model)
    PROVE  init_product_node(p, n) \in WideNode(p)
<1> DEFINE init_of == [a \in DOMAIN p.automata |-> p.automata[a].init[1]]
<1>1. init_product_node(p, n) = wrap(p, <<n>> \o init_of)
  BY DEF init_product_node
<1>2. \A a \in DOMAIN p.automata : init_of[a] \in Node(p.automata[a])
  <2>1. ASSUME NEW a \in DOMAIN p.automata PROVE p.automata[a].init[1] \in Node(p.automata[a])
    <3>1. /\ p.automata[a].init # <<>> /\ p.automata[a].init \in Seq(Range(p.automata[a].init))
          /\ Range(p.automata[a].init) \subseteq Node(p.automata[a])
      BY DEF IsProduct
    <3> DEFINE v == p.automata[a].init
    <3>2. 1 \in DOMAIN v
      BY <3>1
    <3> QED
      BY <3>1, <3>2 DEF Range
  <2> QED
    BY <2>1
<1>3. init_of = [a \in DOMAIN p.automata |-> init_of[a]]
  OBVIOUS
<1> HIDE DEF init_of
<1>4. \A g : Symbolic!Node(g) = Node(g)
  BY DEF Symbolic!Node, Node
<1>5. Symbolic!HasParts(p, Symbolic!wrap(p, <<n>> \o init_of), n, init_of)
  BY <1>2, <1>3, <1>4, SameNumbering, Symbolic!PutTogether
<1> QED
  BY <1>1, <1>5, SameNumbering DEF Symbolic!HasParts

-----------------------------------------------------------------------------
(***************************************************************************)
(* The paths the searches find.                                            *)
(***************************************************************************)
\* Finitely many elements have finitely many images.
LEMMA FiniteImage ==
    ASSUME NEW S, IsFiniteSet(S), NEW f
    PROVE  IsFiniteSet({f[x] : x \in S})
<1> DEFINE T == {f[x] : x \in S}
           g == [x \in S |-> f[x]]
<1>1. g \in Surjection(S, T)
  BY DEF Surjection
<1> HIDE DEF g, T
<1>2. IsFiniteSet(T)
  BY <1>1, FS_Surjection
<1> QED
  BY <1>2 DEF T

\* The handler keeps finitely many elements.
LEMMA FinitelyManyElements ==
    ASSUME NEW p, IsProduct(p)
    PROVE  IsFiniteSet(NodeActionPair(p))
<1> DEFINE v == p.model.connections
           f == [k \in DOMAIN v |-> <<v[k].src, v[k].edge>>]
<1>1. /\ 1 \in DOMAIN graphs(p) /\ graphs(p)[1] = p.model
  BY DEF graphs, IsProduct
<1>2. v \in Seq(Range(v))
  BY <1>1 DEF IsProduct
<1>3. IsFiniteSet(DOMAIN v)
  <2>1. \E n \in Nat : DOMAIN v = 1 .. n
    BY <1>2
  <2> QED
    BY <2>1, FS_Interval
<1>4. NodeActionPair(p) = {f[k] : k \in DOMAIN v}
  BY DEF NodeActionPair, Range
<1> HIDE DEF v, f
<1> QED
  BY <1>3, <1>4, FiniteImage

\* The nodes of the search: a node of the product and a count of eight bits.
HistoryNode(p) == [base_node : WideNode(p), n_completed_tasks : 0 .. 255]

\* The actions of the model.
Action(p) == {x.edge : x \in Range(p.model.connections)}

\* A step of a path: an action of the model, that counts the tasks it completes.
IsStep(p, src, action, dst) ==
    /\ <<ts_node(p, src.base_node), action>> \in NodeActionPair(p)
    /\ dst.n_completed_tasks =
         (src.n_completed_tasks + TasksCompleted(p, src.base_node, dst.base_node)) % 256

\* A step completes at most one task per automaton.
LEMMA TasksAreCounted ==
    ASSUME NEW p, IsProduct(p), NEW src, NEW dst
    PROVE  TasksCompleted(p, src, dst) \in 0 .. Len(p.automata)
<1>1. Len(p.automata) \in Nat /\ DOMAIN p.automata = 1 .. Len(p.automata)
  BY DEF IsProduct
<1>2. IsFiniteSet(1 .. Len(p.automata)) /\ Cardinality(1 .. Len(p.automata)) = Len(p.automata)
  BY <1>1, FS_Interval
<1> DEFINE T == {a \in DOMAIN p.automata : ~ acc(p, src, a) /\ acc(p, dst, a)}
<1>3. T \in SUBSET (1 .. Len(p.automata))
  BY <1>1
<1> HIDE DEF T
<1>4. Cardinality(T) \in Nat /\ Cardinality(T) <= Len(p.automata)
  BY <1>2, <1>3, FS_Subset, FS_CardinalityType
<1>5. TasksCompleted(p, src, dst) = Cardinality(T)
  BY DEF TasksCompleted, T
<1> QED
  BY <1>1, <1>4, <1>5

\* What the search finds at a node: finitely many steps, each to a node.
LEMMA StepsLeave ==
    ASSUME NEW p \in Products, NEW node \in HistoryNode(p)
    PROVE  /\ IsFiniteSet(StepsFrom(p, node))
           /\ \A y \in StepsFrom(p, node) :
                 y.node \in HistoryNode(p) /\ y.edge \in Action(p) /\ IsStep(p, node, y.edge, y.node)
<1> DEFINE x == Expansions[p][node.base_node]
           dst_of == [j \in DOMAIN x.children |->
                     TaskHistoryNode(x.children[j],
                         node.n_completed_tasks + TasksCompleted(p, node.base_node, x.children[j]))]
           edge_of == [j \in DOMAIN x.edges |-> x.edges[j].model_edge]
           both == [j \in DOMAIN x.children |-> [node |-> dst_of[j], edge |-> edge_of[j]]]
<1>1. neighbors(p, node) = dst_of /\ neighborEdges(p, node) = edge_of
  BY DEF neighbors, neighborEdges, Mapped
<1>2. node.base_node \in WideNode(p) /\ node.n_completed_tasks \in 0 .. 255
  BY DEF HistoryNode
<1>3. /\ \E n \in Nat : DOMAIN x.children = 1 .. n /\ DOMAIN x.edges = 1 .. n
      /\ \A k \in DOMAIN x.children :
            /\ x.children[k] \in WideNode(p)
            /\ <<ts_node(p, node.base_node), x.edges[k].model_edge>> \in NodeActionPair(p)
  BY <1>2, ExpansionsLeave
<1> HIDE DEF x
<1>4. StepsFrom(p, node) = {both[j] : j \in DOMAIN x.children}
  BY <1>1, <1>3 DEF StepsFrom, Steps
<1>5. IsFiniteSet(StepsFrom(p, node))
  <2>1. IsFiniteSet(DOMAIN x.children)
    <3>1. PICK n \in Nat : DOMAIN x.children = 1 .. n
      BY <1>3
    <3> QED
      BY <3>1, FS_Interval
  <2> HIDE DEF both
  <2> QED
    BY <1>4, <2>1, FiniteImage
<1>6. ASSUME NEW j \in DOMAIN x.children
      PROVE  /\ dst_of[j] \in HistoryNode(p) /\ edge_of[j] \in Action(p)
             /\ IsStep(p, node, edge_of[j], dst_of[j])
  <2> DEFINE count == node.n_completed_tasks + TasksCompleted(p, node.base_node, x.children[j])
  <2>1. count \in Nat
    <3>1. TasksCompleted(p, node.base_node, x.children[j]) \in Nat
      <4>1. Len(p.automata) \in Nat
        BY ProductAssumption DEF IsProduct
      <4> QED
        BY <4>1, TasksAreCounted, ProductAssumption
    <3> QED
      BY <1>2, <3>1
  <2>2. dst_of[j] = [base_node |-> x.children[j], n_completed_tasks |-> count % 256]
    BY DEF TaskHistoryNode
  <2>3. count % 256 \in 0 .. 255
    <3> HIDE DEF count
    <3> QED
      BY <2>1
  <2>4. dst_of[j] \in HistoryNode(p)
    <3> DEFINE rest == count % 256
    <3>1. rest \in 0 .. 255 /\ x.children[j] \in WideNode(p)
      BY <1>3, <2>3
    <3>2. dst_of[j] = [base_node |-> x.children[j], n_completed_tasks |-> rest]
      BY <2>2
    <3> HIDE DEF rest, dst_of
    <3> QED
      BY <3>1, <3>2 DEF HistoryNode
  <2>5. edge_of[j] = x.edges[j].model_edge
    BY <1>3
  <2>6. <<ts_node(p, node.base_node), edge_of[j]>> \in NodeActionPair(p)
    BY <1>3, <2>5
  <2>7. edge_of[j] \in Action(p)
    <3> HIDE DEF edge_of
    <3> QED
      BY <2>6 DEF NodeActionPair, Action
  <2>8. /\ dst_of[j].base_node = x.children[j]
        /\ dst_of[j].n_completed_tasks = (node.n_completed_tasks + TasksCompleted(p, node.base_node, dst_of[j].base_node)) % 256
    <3>1. dst_of[j].base_node = x.children[j] /\ dst_of[j].n_completed_tasks = count % 256
      <4> HIDE DEF count, dst_of
      <4> QED
        BY <2>2
    <3> HIDE DEF dst_of
    <3> QED
      BY <3>1
  <2> HIDE DEF edge_of, dst_of
  <2> QED
    BY <2>4, <2>6, <2>7, <2>8 DEF IsStep
<1>7. \A j \in DOMAIN x.children : both[j].node = dst_of[j] /\ both[j].edge = edge_of[j]
  <2> HIDE DEF dst_of, edge_of
  <2> QED
    OBVIOUS
<1> HIDE DEF both, dst_of, edge_of
<1> QED
  BY <1>4, <1>5, <1>6, <1>7

\* A path the searches follow: it starts at a node with no task completed, takes
\* steps, goes on from no goal, and comes by no node twice.
IsTaskWalk(p, n, horizon, x) ==
    /\ Len(x.node_path) = Len(x.edge_path) + 1
    /\ x.node_path[1] = initial_node(n)
    /\ \A k \in DOMAIN x.edge_path :
          /\ IsStep(p, x.node_path[k], x.edge_path[k], x.node_path[k + 1])
          /\ ~ goal(x.node_path[k], horizon)
    /\ \A i, j \in DOMAIN x.node_path : x.node_path[i] = x.node_path[j] => i = j

\* A sequence of nodes and the actions between them.
Path(p) == [node_path : Seq(HistoryNode(p)), edge_path : Seq(Action(p))]

\* The paths the searches follow.
TaskWalk(p, n, horizon) == {x \in Path(p) : IsTaskWalk(p, n, horizon, x)}

\* A path that has not reached the goal goes on along every step to a new node.
LEMMA LongerWalks ==
    ASSUME NEW p \in Products, NEW n, NEW horizon, NEW x \in TaskWalk(p, n, horizon),
           ~ goal(Last(x.node_path), horizon)
    PROVE  /\ IsFiniteSet(Longer(p, x))
           /\ \A y \in Longer(p, x) :
                 y \in TaskWalk(p, n, horizon) /\ Len(y.node_path) = Len(x.node_path) + 1
<1> DEFINE nodes_of == x.node_path
           edges_of == x.edge_path
           l == Len(nodes_of)
           end == nodes_of[l]
           new == {y \in StepsFrom(p, end) : y.node \notin Range(nodes_of)}
           on == [y \in new |-> [node_path |-> Append(nodes_of, y.node), edge_path |-> Append(edges_of, y.edge)]]
<1>1. /\ nodes_of \in Seq(HistoryNode(p)) /\ edges_of \in Seq(Action(p))
      /\ l = Len(edges_of) + 1 /\ IsTaskWalk(p, n, horizon, x)
  BY DEF TaskWalk, IsTaskWalk, Path
<1>2. l \in Nat /\ l > 0 /\ DOMAIN nodes_of = 1 .. l /\ DOMAIN edges_of = 1 .. l - 1 /\ l \in DOMAIN nodes_of
  BY <1>1
<1>3. end \in HistoryNode(p) /\ ~ goal(end, horizon)
  BY <1>1, <1>2 DEF Last
<1>4. /\ IsFiniteSet(new)
      /\ \A y \in new : /\ y.node \in HistoryNode(p) /\ y.edge \in Action(p) /\ IsStep(p, end, y.edge, y.node)
                        /\ y.node \notin Range(nodes_of)
  <2>1. new \in SUBSET StepsFrom(p, end)
    OBVIOUS
  <2> HIDE DEF end
  <2>2. \A y \in new : y \in StepsFrom(p, end) /\ y.node \notin Range(nodes_of)
    OBVIOUS
  <2> HIDE DEF new, nodes_of
  <2> QED
    BY <1>3, <2>1, <2>2, StepsLeave, FS_Subset
<1>5. Longer(p, x) = {on[y] : y \in new}
  BY DEF Longer, Last
<1>6. IsFiniteSet(Longer(p, x))
  <2> HIDE DEF on, new
  <2> QED
    BY <1>4, <1>5, FiniteImage
<1>7. ASSUME NEW y \in new
      PROVE  on[y] \in TaskWalk(p, n, horizon) /\ Len(on[y].node_path) = l + 1
  <2> DEFINE z == on[y]
             ns == Append(nodes_of, y.node)
             es == Append(edges_of, y.edge)
  <2>1. z = [node_path |-> ns, edge_path |-> es]
    OBVIOUS
  <2>2. /\ y.node \in HistoryNode(p) /\ y.edge \in Action(p) /\ IsStep(p, end, y.edge, y.node)
        /\ y.node \notin Range(nodes_of)
    BY <1>4
  <2> HIDE DEF z, new
  <2>3. /\ ns \in Seq(HistoryNode(p)) /\ es \in Seq(Action(p))
        /\ Len(ns) = l + 1 /\ Len(es) = l /\ DOMAIN ns = 1 .. l + 1 /\ DOMAIN es = 1 .. l
        /\ ns[l + 1] = y.node /\ es[l] = y.edge
        /\ \A k \in 1 .. l : ns[k] = nodes_of[k]
        /\ \A k \in 1 .. l - 1 : es[k] = edges_of[k]
    <3> HIDE DEF nodes_of, edges_of
    <3> QED
      BY <1>1, <1>2, <2>2
  <2>4. z.node_path = ns /\ z.edge_path = es /\ z \in Path(p)
    <3> HIDE DEF ns, es
    <3> QED
      BY <2>1, <2>3 DEF Path
  <2>5. /\ nodes_of[1] = initial_node(n)
        /\ \A k \in 1 .. l - 1 : IsStep(p, nodes_of[k], edges_of[k], nodes_of[k + 1]) /\ ~ goal(nodes_of[k], horizon)
        /\ \A i, j \in 1 .. l : nodes_of[i] = nodes_of[j] => i = j
    BY <1>1, <1>2 DEF IsTaskWalk
  <2>6. \A i \in 1 .. l : nodes_of[i] # y.node
    BY <1>2, <2>2 DEF Range
  <2> HIDE DEF ns, es, nodes_of, edges_of, l
  <2>7. ns[1] = initial_node(n)
    BY <1>2, <2>3, <2>5
  <2>8. ASSUME NEW k \in 1 .. l PROVE IsStep(p, ns[k], es[k], ns[k + 1]) /\ ~ goal(ns[k], horizon)
    <3>1. CASE k = l
      BY <1>2, <1>3, <2>2, <2>3, <3>1
    <3>2. CASE k # l
      <4>1. k \in 1 .. l - 1 /\ k + 1 \in 1 .. l
        BY <1>2, <3>2
      <4> QED
        BY <2>3, <2>5, <4>1
    <3> QED
      BY <3>1, <3>2
  <2>9. ASSUME NEW i \in 1 .. l + 1, NEW j \in 1 .. l + 1, ns[i] = ns[j] PROVE i = j
    <3>1. (i \in 1 .. l \/ i = l + 1) /\ (j \in 1 .. l \/ j = l + 1)
      BY <1>2
    <3> QED
      BY <2>3, <2>5, <2>6, <2>9, <3>1
  <2>10. IsTaskWalk(p, n, horizon, z)
    <3>1. Len(z.node_path) = Len(z.edge_path) + 1
      BY <2>3, <2>4
    <3> QED
      BY <2>3, <2>4, <2>7, <2>8, <2>9, <3>1 DEF IsTaskWalk
  <2> QED
    BY <2>3, <2>4, <2>10 DEF TaskWalk, z
<1> HIDE DEF on, new
<1> QED
  BY <1>5, <1>6, <1>7

\* One round of the search for the paths.
Round(p, horizon, paths) ==
    UNION {IF goal(Last(x.node_path), horizon) THEN {x} ELSE Longer(p, x) : x \in paths}

\* A round makes finitely many longer walks of finitely many.
LEMMA RoundOfWalks ==
    ASSUME NEW p \in Products, NEW n, NEW horizon, NEW paths \in SUBSET TaskWalk(p, n, horizon),
           IsFiniteSet(paths)
    PROVE  /\ Round(p, horizon, paths) \in SUBSET TaskWalk(p, n, horizon)
           /\ IsFiniteSet(Round(p, horizon, paths))
           /\ \A y \in Round(p, horizon, paths) : \E x \in paths :
                 \/ goal(Last(x.node_path), horizon) /\ y = x
                 \/ ~ goal(Last(x.node_path), horizon) /\ Len(y.node_path) = Len(x.node_path) + 1
<1> DEFINE next == [x \in paths |-> IF goal(Last(x.node_path), horizon) THEN {x} ELSE Longer(p, x)]
<1>1. Round(p, horizon, paths) = UNION {next[x] : x \in paths}
  BY DEF Round
<1>2. ASSUME NEW x \in paths
      PROVE  /\ IsFiniteSet(next[x])
             /\ \A y \in next[x] :
                  /\ y \in TaskWalk(p, n, horizon)
                  /\ \/ goal(Last(x.node_path), horizon) /\ y = x
                     \/ ~ goal(Last(x.node_path), horizon) /\ Len(y.node_path) = Len(x.node_path) + 1
  <2>1. CASE goal(Last(x.node_path), horizon)
    <3>1. next[x] = {x}
      BY <2>1
    <3> HIDE DEF next
    <3> QED
      BY <2>1, <3>1, FS_Singleton
  <2>2. CASE ~ goal(Last(x.node_path), horizon)
    <3>1. next[x] = Longer(p, x)
      BY <2>2
    <3> HIDE DEF next
    <3> QED
      BY <2>2, <3>1, LongerWalks
  <2> QED
    BY <2>1, <2>2
<1> HIDE DEF next
<1>3. IsFiniteSet({next[x] : x \in paths})
  BY FiniteImage
<1>4. IsFiniteSet(UNION {next[x] : x \in paths})
  BY <1>2, <1>3, FS_UNION
<1> QED
  BY <1>1, <1>2, <1>4

\* A path that has not reached the goal has come by no more nodes than there are
\* with too few tasks completed.
LEMMA ShortWalks ==
    ASSUME NEW p \in Products, NEW n, NEW horizon \in Nat \ {0}, NEW x \in TaskWalk(p, n, horizon),
           ~ goal(Last(x.node_path), horizon)
    PROVE  Len(x.node_path) <= Cardinality(WideNode(p)) * horizon
<1> DEFINE nodes_of == x.node_path
           l == Len(nodes_of)
           Early == WideNode(p) \X (0 .. horizon - 1)
           f == [k \in 1 .. l |-> <<nodes_of[k].base_node, nodes_of[k].n_completed_tasks>>]
<1>1. /\ nodes_of \in Seq(HistoryNode(p)) /\ x.edge_path \in Seq(Action(p))
      /\ l = Len(x.edge_path) + 1 /\ IsTaskWalk(p, n, horizon, x)
  BY DEF TaskWalk, IsTaskWalk, Path
<1>2. l \in Nat /\ l > 0 /\ DOMAIN nodes_of = 1 .. l /\ DOMAIN x.edge_path = 1 .. l - 1
  BY <1>1
<1>3. ASSUME NEW k \in 1 .. l PROVE f[k] \in Early
  <2>1. nodes_of[k] \in HistoryNode(p)
    BY <1>1, <1>2
  <2>2. ~ goal(nodes_of[k], horizon)
    <3>1. CASE k = l
      BY <3>1 DEF Last
    <3>2. CASE k # l
      <4>1. k \in 1 .. l - 1
        BY <1>2, <3>2
      <4> QED
        BY <1>1, <1>2, <4>1 DEF IsTaskWalk
    <3> QED
      BY <3>1, <3>2
  <2> HIDE DEF nodes_of, l
  <2>3. nodes_of[k].base_node \in WideNode(p) /\ nodes_of[k].n_completed_tasks \in 0 .. 255
    BY <2>1 DEF HistoryNode
  <2>4. nodes_of[k].n_completed_tasks \in 0 .. horizon - 1
    BY <2>2, <2>3 DEF goal
  <2>5. f[k] = <<nodes_of[k].base_node, nodes_of[k].n_completed_tasks>>
    OBVIOUS
  <2> HIDE DEF f
  <2> QED
    BY <2>3, <2>4, <2>5
<1>4. ASSUME NEW i \in 1 .. l, NEW j \in 1 .. l, f[i] = f[j] PROVE i = j
  <2>1. nodes_of[i] \in HistoryNode(p) /\ nodes_of[j] \in HistoryNode(p)
    BY <1>1, <1>2
  <2>2. /\ nodes_of[i].base_node = nodes_of[j].base_node
        /\ nodes_of[i].n_completed_tasks = nodes_of[j].n_completed_tasks
    <3> HIDE DEF nodes_of, l
    <3>1. /\ <<nodes_of[i].base_node, nodes_of[i].n_completed_tasks>> = f[i]
          /\ <<nodes_of[j].base_node, nodes_of[j].n_completed_tasks>> = f[j]
      OBVIOUS
    <3>2. <<nodes_of[i].base_node, nodes_of[i].n_completed_tasks>> = <<nodes_of[j].base_node, nodes_of[j].n_completed_tasks>>
      BY <1>4, <3>1
    <3> QED
      BY <3>2
  <2>3. nodes_of[i] = nodes_of[j]
    <3> HIDE DEF nodes_of, l
    <3> QED
      BY <2>1, <2>2 DEF HistoryNode
  <2> QED
    BY <1>1, <1>2, <2>3 DEF IsTaskWalk
<1>5. IsFiniteSet(WideNode(p)) /\ Cardinality(WideNode(p)) \in Nat
  <2>1. Times(m_graph_sizes(p)) \in Nat
    BY ProductAssumption DEF IsProduct
  <2>2. IsFiniteSet(WideNode(p))
    BY <2>1, FS_Interval DEF WideNode
  <2> QED
    BY <2>2, FS_CardinalityType
<1>6. IsFiniteSet(0 .. horizon - 1) /\ Cardinality(0 .. horizon - 1) = horizon
  BY FS_Interval
<1>7. IsFiniteSet(Early) /\ Cardinality(Early) = Cardinality(WideNode(p)) * horizon
  BY <1>5, <1>6, FS_Product
<1>8. IsFiniteSet(1 .. l) /\ Cardinality(1 .. l) = l
  <2> HIDE DEF l
  <2> QED
    BY <1>2, FS_Interval
<1>9. f \in [1 .. l -> Early]
  <2> HIDE DEF nodes_of, l, Early
  <2>1. DOMAIN f = 1 .. l /\ f = [k \in 1 .. l |-> f[k]]
    OBVIOUS
  <2> HIDE DEF f
  <2> QED
    BY <1>3, <2>1
<1> HIDE DEF f, Early, l
<1>10. Cardinality(1 .. l) <= Cardinality(Early)
  <2>1. \A i, j \in DOMAIN f : f[i] = f[j] => i = j
    BY <1>4, <1>9
  <2>2. f \in Injection(1 .. l, Early)
    BY <1>9, <2>1 DEF Injection, IsInjective
  <2> QED
    BY <1>7, <2>2, FS_Injection
<1>11. Cardinality(WideNode(p)) * horizon \in Nat
  BY <1>5
<1> DEFINE bound == Cardinality(WideNode(p)) * horizon
<1>12. l <= bound
  BY <1>7, <1>8, <1>10, <1>11
<1> HIDE DEF bound
<1>13. l <= bound
  BY <1>12
<1> QED
  BY <1>13 DEF l, bound

\* Where a search is after some rounds: on finitely many paths, and those that
\* have not reached the goal have come by one node more than there were rounds.
Frontier(p, n, horizon, rounds) ==
    {P \in SUBSET TaskWalk(p, n, horizon) :
        /\ IsFiniteSet(P)
        /\ \A x \in P : goal(Last(x.node_path), horizon) \/ Len(x.node_path) = rounds + 1}

\* Each round is one step further.
LEMMA NextFrontier ==
    ASSUME NEW p \in Products, NEW n, NEW horizon, NEW k \in Nat, NEW P \in Frontier(p, n, horizon, k)
    PROVE  Round(p, horizon, P) \in Frontier(p, n, horizon, k + 1)
<1>1. /\ P \in SUBSET TaskWalk(p, n, horizon) /\ IsFiniteSet(P)
      /\ \A x \in P : goal(Last(x.node_path), horizon) \/ Len(x.node_path) = k + 1
  BY DEF Frontier
<1>2. /\ Round(p, horizon, P) \in SUBSET TaskWalk(p, n, horizon)
      /\ IsFiniteSet(Round(p, horizon, P))
      /\ \A y \in Round(p, horizon, P) : \E x \in P :
            \/ goal(Last(x.node_path), horizon) /\ y = x
            \/ ~ goal(Last(x.node_path), horizon) /\ Len(y.node_path) = Len(x.node_path) + 1
  BY <1>1, RoundOfWalks
<1>3. ASSUME NEW y \in Round(p, horizon, P)
      PROVE  goal(Last(y.node_path), horizon) \/ Len(y.node_path) = (k + 1) + 1
  BY <1>1, <1>2
<1> QED
  BY <1>2, <1>3 DEF Frontier

\* Before the first round there is the path of one node.
LEMMA FirstFrontier ==
    ASSUME NEW p \in Products, NEW n \in WideNode(p), NEW horizon
    PROVE  {[node_path |-> <<initial_node(n)>>, edge_path |-> <<>>]} \in Frontier(p, n, horizon, 0)
<1> DEFINE x == [node_path |-> <<initial_node(n)>>, edge_path |-> <<>>]
<1>1. initial_node(n) = [base_node |-> n, n_completed_tasks |-> 0]
  BY DEF initial_node, TaskHistoryNode
<1>2. initial_node(n) \in HistoryNode(p)
  BY <1>1 DEF HistoryNode
<1>3. <<initial_node(n)>> \in Seq(HistoryNode(p)) /\ <<>> \in Seq(Action(p)) /\ Len(<<initial_node(n)>>) = 1
  BY <1>2
<1>4. x \in Path(p) /\ x.node_path = <<initial_node(n)>> /\ x.edge_path = <<>>
  BY <1>3 DEF Path
<1> HIDE DEF x
<1>5. x \in TaskWalk(p, n, horizon)
  <2>1. /\ DOMAIN x.edge_path = {} /\ DOMAIN x.node_path = {1} /\ x.node_path[1] = initial_node(n)
        /\ Len(x.node_path) = Len(x.edge_path) + 1
    <3>1. DOMAIN <<>> = {} /\ DOMAIN <<initial_node(n)>> = 1 .. 1 /\ <<initial_node(n)>>[1] = initial_node(n)
          /\ Len(<<>>) = 0
      OBVIOUS
    <3> QED
      BY <1>3, <1>4, <3>1
  <2>2. IsTaskWalk(p, n, horizon, x)
    BY <2>1 DEF IsTaskWalk
  <2> QED
    BY <1>4, <2>2 DEF TaskWalk
<1>6. IsFiniteSet({x})
  BY FS_Singleton
<1>7. Len(x.node_path) = 0 + 1
  BY <1>4
<1>8. {x} \in Frontier(p, n, horizon, 0)
  BY <1>5, <1>6, <1>7 DEF Frontier
<1> QED
  BY <1>8 DEF x

\* The paths the searches find are finitely many, none comes by a node twice, and
\* each ends at the first node where enough tasks are completed.
LEMMA GoalPathsAreWalks ==
    ASSUME NEW p \in Products, NEW n \in WideNode(p), NEW horizon \in Nat \ {0}
    PROVE  /\ GoalPaths(p, n, horizon) \in SUBSET TaskWalk(p, n, horizon)
           /\ IsFiniteSet(GoalPaths(p, n, horizon))
           /\ \A x \in GoalPaths(p, n, horizon) : goal(Last(x.node_path), horizon)
<1> DEFINE N == Cardinality(WideNode(p)) * horizon
           v == [k \in 1 .. N |-> k]
           start == [node_path |-> <<initial_node(n)>>, edge_path |-> <<>>]
           M == {P \in SUBSET TaskWalk(p, n, horizon) : IsFiniteSet(P)}
           step_of == [x \in M \X (1 .. N) |-> Round(p, horizon, x[1])]
           Grown(h, T) == IF T = {} THEN {start} ELSE Round(p, horizon, h[T \ {Max(T)}])
<1>1. N \in Nat
  <2>1. Times(m_graph_sizes(p)) \in Nat
    BY ProductAssumption DEF IsProduct
  <2>2. IsFiniteSet(WideNode(p))
    BY <2>1, FS_Interval DEF WideNode
  <2>3. Cardinality(WideNode(p)) \in Nat
    BY <2>2, FS_CardinalityType
  <2> QED
    BY <2>3
<1>2. {start} \in Frontier(p, n, horizon, 0)
  BY FirstFrontier
<1>3. {start} \in M
  BY <1>2 DEF Frontier
<1>4. DOMAIN v = 1 .. N /\ Len(v) = N /\ \A k \in 1 .. N : v[k] = k
  <2> HIDE DEF N
  <2> QED
    BY <1>1
<1>5. ASSUME NEW P \in M, NEW k \in 1 .. N PROVE step_of[<<P, v[k]>>] = Round(p, horizon, P)
  <2> HIDE DEF N, M, v
  <2>1. <<P, v[k]>> \in M \X (1 .. N)
    BY <1>4
  <2> QED
    BY <2>1
<1>6. ASSUME NEW P \in M, NEW k \in 1 .. N PROVE step_of[<<P, v[k]>>] \in M
  <2>1. Round(p, horizon, P) \in M
    BY RoundOfWalks
  <2> HIDE DEF M, step_of
  <2> QED
    BY <1>5, <2>1
<1>7. PICK g : FoldSteps(step_of, {start}, v, N, g) /\ \A T \in SUBSET (1 .. N) : g[T] \in M
  <2> HIDE DEF N, M, v, step_of, start
  <2> QED
    BY <1>1, <1>3, <1>6, FoldStepsWithin
<1>8. g = [T \in SUBSET (1 .. N) |-> Grown(g, T)]
  <2> HIDE DEF N, M, v, start
  <2>1. ASSUME NEW T \in SUBSET (1 .. N), T # {}
        PROVE  step_of[<<g[T \ {Max(T)}], v[Max(T)]>>] = Round(p, horizon, g[T \ {Max(T)}])
    <3> HIDE DEF step_of
    <3>1. Max(T) \in 1 .. N
      BY <1>1, <2>1, GreatestNumber
    <3>2. g[T \ {Max(T)}] \in M
      BY <1>7
    <3> QED
      BY <1>5, <3>1, <3>2
  <2> HIDE DEF step_of
  <2> QED
    BY <1>7, <2>1 DEF FoldSteps
<1>9. PICK h : /\ h = [T \in SUBSET (1 .. N) |-> Grown(h, T)]
               /\ GoalPaths(p, n, horizon) = h[1 .. N]
  <2> DEFINE Extended(paths, k) ==
               UNION {IF goal(Last(x.node_path), horizon) THEN {x} ELSE Longer(p, x) : x \in paths}
  <2>1. GoalPaths(p, n, horizon) = FoldLeft(Extended, {start}, v)
    BY DEF GoalPaths
  <2> HIDE DEF start
  <2>2. g = [T \in SUBSET DOMAIN v |-> IF T = {} THEN {start} ELSE Extended(g[T \ {Max(T)}], v[Max(T)])]
    <3>1. DOMAIN v = 1 .. N
      BY <1>4
    <3> HIDE DEF N, v
    <3> QED
      BY <1>8, <3>1 DEF Round
  <2>3. DOMAIN v = 1 .. N
    BY <1>4
  <2> HIDE DEF N, v
  <2>4. PICK h : /\ h = [T \in SUBSET DOMAIN v |-> IF T = {} THEN {start} ELSE Extended(h[T \ {Max(T)}], v[Max(T)])]
                 /\ FoldLeft(Extended, {start}, v) = h[DOMAIN v]
    BY <2>2 DEF FoldLeft, MapThenFoldSet
  <2> QED
    BY <2>1, <2>3, <2>4 DEF Round
<1> DEFINE F == {x \in (SUBSET (1 .. N)) \X SUBSET TaskWalk(p, n, horizon) :
                    x[2] \in Frontier(p, n, horizon, Cardinality(x[1]))}
           hh == [T \in SUBSET (1 .. N) |-> <<T, h[T]>>]
<1> HIDE DEF N, v, step_of, start
<1>10. hh[{}] \in F
  <2>1. h[{}] = {start} /\ hh[{}] = <<{}, h[{}]>>
    BY <1>9
  <2>2. Cardinality({}) = 0
    BY FS_EmptySet
  <2>3. h[{}] \in SUBSET TaskWalk(p, n, horizon)
    BY <1>3, <2>1
  <2> HIDE DEF hh
  <2> QED
    BY <1>2, <2>1, <2>2, <2>3
<1>11. ASSUME NEW T \in SUBSET (1 .. N), T # {}, hh[T \ {Max(T)}] \in F PROVE hh[T] \in F
  <2> DEFINE U == T \ {Max(T)}
  <2>1. Max(T) \in T /\ IsFiniteSet(T)
    <3>1. IsFiniteSet(1 .. N)
      BY <1>1, FS_Interval
    <3>2. IsFiniteSet(T)
      BY <3>1, FS_Subset
    <3> QED
      BY <1>1, <1>11, <3>2, GreatestNumber
  <2>2. IsFiniteSet(U) /\ Cardinality(U) = Cardinality(T) - 1 /\ Cardinality(U) \in Nat /\ Cardinality(T) \in Nat
    <3>1. IsFiniteSet(U) /\ Cardinality(U) = Cardinality(T) - 1
      BY <2>1, FS_RemoveElement
    <3> QED
      BY <2>1, <3>1, FS_CardinalityType
  <2>3. U \in SUBSET (1 .. N) /\ hh[U] = <<U, h[U]>> /\ hh[T] = <<T, h[T]>> /\ h[T] = Round(p, horizon, h[U])
    BY <1>9, <1>11
  <2>4. <<U, h[U]>> \in F
    BY <1>11, <2>3
  <2> HIDE DEF U, hh
  <2>5. h[U] \in Frontier(p, n, horizon, Cardinality(U))
    BY <2>4
  <2>6. h[T] \in Frontier(p, n, horizon, Cardinality(U) + 1)
    BY <2>2, <2>3, <2>5, NextFrontier
  <2>7. Cardinality(U) + 1 = Cardinality(T)
    BY <2>2
  <2>8. h[T] \in Frontier(p, n, horizon, Cardinality(T))
    BY <2>6, <2>7
  <2>9. h[T] \in SUBSET TaskWalk(p, n, horizon)
    BY <2>8 DEF Frontier
  <2>10. T \in SUBSET (1 .. N)
    OBVIOUS
  <2> DEFINE value == h[T]
  <2>11. <<T, value>> \in (SUBSET (1 .. N)) \X SUBSET TaskWalk(p, n, horizon) /\ value \in Frontier(p, n, horizon, Cardinality(T))
    BY <2>8, <2>9, <2>10
  <2> HIDE DEF value
  <2>12. <<T, value>> \in F
    <3>1. <<T, value>>[1] = T /\ <<T, value>>[2] = value
      OBVIOUS
    <3> QED
      BY <2>11, <3>1
  <2> QED
    BY <2>3, <2>12 DEF value
<1>12. hh[1 .. N] \in F
  <2>1. 1 .. N \in SUBSET (1 .. N)
    OBVIOUS
  <2> HIDE DEF hh, F
  <2> QED
    BY <1>1, <1>10, <1>11, <2>1, FoldsWithin
<1>13. h[1 .. N] \in Frontier(p, n, horizon, Cardinality(1 .. N))
  <2>1. hh[1 .. N] = <<1 .. N, h[1 .. N]>>
    OBVIOUS
  <2> HIDE DEF hh
  <2> QED
    BY <1>12, <2>1
<1>14. Cardinality(1 .. N) = N
  BY <1>1, FS_Interval
<1>15. h[1 .. N] \in Frontier(p, n, horizon, N)
  BY <1>13, <1>14
<1>16. ASSUME NEW x \in h[1 .. N] PROVE goal(Last(x.node_path), horizon)
  <2>1. x \in TaskWalk(p, n, horizon) /\ (goal(Last(x.node_path), horizon) \/ Len(x.node_path) = N + 1)
    BY <1>15, <1>16 DEF Frontier
  <2> SUFFICES ASSUME ~ goal(Last(x.node_path), horizon) PROVE FALSE
    OBVIOUS
  <2>2. Len(x.node_path) <= N
    BY <2>1, ShortWalks DEF N
  <2> QED
    BY <1>1, <2>1, <2>2
<1> QED
  BY <1>9, <1>15, <1>16 DEF Frontier

\* What is picked for a front are paths it was made of.
LEMMA WaysAreLists ==
    ASSUME NEW cost, NEW pf, NEW n \in Nat, DOMAIN pf = 1 .. n
    PROVE  Ways(cost, pf) \in SUBSET Seq(DOMAIN cost)
<1> DEFINE D == DOMAIN cost
           M == SUBSET Seq(D)
           V == {pf[k] : k \in 1 .. n}
           More(picked, c) == {Append(t, x) : t \in picked, x \in {y \in D : cost[y] = c}}
           step_of == [x \in M \X V |-> More(x[1], x[2])]
<1>1. {<<>>} \in M
  OBVIOUS
<1>2. ASSUME NEW picked \in M, NEW c PROVE More(picked, c) \in M
  OBVIOUS
<1>3. ASSUME NEW picked \in M, NEW k \in 1 .. n PROVE step_of[<<picked, pf[k]>>] = More(picked, pf[k])
  <2> HIDE DEF M, More
  <2>1. <<picked, pf[k]>> \in M \X V
    OBVIOUS
  <2> QED
    BY <2>1
<1>4. ASSUME NEW picked \in M, NEW k \in 1 .. n PROVE step_of[<<picked, pf[k]>>] \in M
  <2> HIDE DEF M, More, step_of
  <2> QED
    BY <1>2, <1>3
<1>5. PICK g : FoldSteps(step_of, {<<>>}, pf, n, g) /\ \A T \in SUBSET (1 .. n) : g[T] \in M
  <2> HIDE DEF M, More, step_of
  <2> QED
    BY <1>1, <1>4, FoldStepsWithin
<1>6. g = [T \in SUBSET (1 .. n) |-> IF T = {} THEN {<<>>} ELSE More(g[T \ {Max(T)}], pf[Max(T)])]
  <2> HIDE DEF M, More, step_of
  <2>1. ASSUME NEW T \in SUBSET (1 .. n), T # {}
        PROVE  step_of[<<g[T \ {Max(T)}], pf[Max(T)]>>] = More(g[T \ {Max(T)}], pf[Max(T)])
    <3>1. Max(T) \in 1 .. n
      BY <2>1, GreatestNumber
    <3> QED
      BY <1>3, <1>5, <3>1
  <2> QED
    BY <1>5, <2>1 DEF FoldSteps
<1>7. PICK h : /\ h = [T \in SUBSET (1 .. n) |-> IF T = {} THEN {<<>>} ELSE More(h[T \ {Max(T)}], pf[Max(T)])]
               /\ Ways(cost, pf) = h[1 .. n]
  <2>1. g = [T \in SUBSET DOMAIN pf |-> IF T = {} THEN {<<>>} ELSE More(g[T \ {Max(T)}], pf[Max(T)])]
    <3> HIDE DEF More
    <3> QED
      BY <1>6
  <2>3. Ways(cost, pf) = FoldLeft(More, {<<>>}, pf)
    BY DEF Ways, FoldLeft, MapThenFoldSet
  <2> HIDE DEF More
  <2>2. PICK h : /\ h = [T \in SUBSET DOMAIN pf |-> IF T = {} THEN {<<>>} ELSE More(h[T \ {Max(T)}], pf[Max(T)])]
                 /\ Ways(cost, pf) = h[DOMAIN pf]
    BY <2>1, <2>3 DEF FoldLeft, MapThenFoldSet
  <2> HIDE DEF More
  <2> QED
    BY <2>2
<1> HIDE DEF step_of, V
<1>8. h[{}] \in M
  <2> HIDE DEF M, More
  <2> QED
    BY <1>1, <1>7
<1>9. ASSUME NEW T \in SUBSET (1 .. n), T # {}, h[T \ {Max(T)}] \in M PROVE h[T] \in M
  <2> HIDE DEF M, More
  <2>1. h[T] = More(h[T \ {Max(T)}], pf[Max(T)])
    BY <1>7, <1>9
  <2> QED
    BY <1>2, <1>9, <2>1
<1>10. h[1 .. n] \in M
  <2>1. 1 .. n \in SUBSET (1 .. n)
    OBVIOUS
  <2> HIDE DEF M, More
  <2> QED
    BY <1>8, <1>9, <2>1, FoldsWithin
<1> QED
  BY <1>7, <1>10

\* What a search answers: paths to the goal, at least one.
LEMMA AnswersAreGoalPaths ==
    ASSUME NEW p \in Products, NEW n \in WideNode(p), NEW horizon \in Nat \ {0}, NEW handler,
           NEW r \in SearchResults(p, handler, n, horizon)
    PROVE  /\ r.solution_set \in Seq(GoalPaths(p, n, horizon))
           /\ r.solution_set # <<>>
           /\ Len(r.pf) = Len(r.solution_set)
           /\ DOMAIN r = {"pf", "solution_set"}
<1> DEFINE cost == [x \in GoalPaths(p, n, horizon) |-> PathCost(p, handler, x)]
           pf == ParetoFrontOf(Range(cost))
           front == Costs!NonDominated(Range(cost))
<1>1. /\ r \in AnswersWith(cost, pf)
      /\ IsSearchResult(p, n, r)
  <2>1. r \in AnswersAmong(cost) /\ IsSearchResult(p, n, r)
    BY DEF SearchResults, Answers
  <2> HIDE DEF cost
  <2> QED
    BY <2>1 DEF AnswersAmong
<1>2. DOMAIN cost = GoalPaths(p, n, horizon) /\ Range(cost) = {cost[x] : x \in GoalPaths(p, n, horizon)}
  BY DEF Range
<1>3. IsFiniteSet(Range(cost))
  <2>1. IsFiniteSet(GoalPaths(p, n, horizon))
    BY GoalPathsAreWalks
  <2> HIDE DEF cost
  <2> QED
    BY <1>2, <2>1, FiniteImage
<1> HIDE DEF cost
<1>4. front \in SUBSET Range(cost)
  BY DEF Costs!NonDominated
<1>5. Cardinality(front) \in Nat
  <2> HIDE DEF front
  <2> QED
    BY <1>3, <1>4, FS_Subset, FS_CardinalityType
<1>6. DOMAIN pf = 1 .. Cardinality(front)
  BY DEF ParetoFrontOf
<1> HIDE DEF pf, front
<1>7. Ways(cost, pf) \in SUBSET Seq(GoalPaths(p, n, horizon))
  BY <1>2, <1>5, <1>6, WaysAreLists
<1>8. PICK t \in Ways(cost, pf) : r = [pf |-> pf, solution_set |-> t]
  BY <1>1 DEF AnswersWith
<1> QED
  BY <1>1, <1>7, <1>8 DEF IsSearchResult

-----------------------------------------------------------------------------
(***************************************************************************)
(* What a true behavior says, and what a selector answers.                 *)
(***************************************************************************)
\* A mean per action: what a true behavior says.
Means(p) == [NodeActionPair(p) -> [Costs!Objectives -> Int]]

\* What is added to one of them is a mean again.
LEMMA MeansMoved ==
    ASSUME NEW p, NEW m \in Means(p), NEW pair, NEW mean \in [Costs!Objectives -> Int]
    PROVE  [m EXCEPT ![pair] = Costs!Plus(@, mean)] \in Means(p)
<1> DEFINE w == [m EXCEPT ![pair] = Costs!Plus(@, mean)]
<1>1. m \in [NodeActionPair(p) -> [Costs!Objectives -> Int]]
  BY DEF Means
<1>2. ASSUME pair \in NodeActionPair(p) PROVE Costs!Plus(m[pair], mean) \in [Costs!Objectives -> Int]
  <2>1. m[pair] \in [Costs!Objectives -> Int]
    BY <1>1, <1>2
  <2> DEFINE old == m[pair]
  <2> HIDE DEF old
  <2>2. Costs!Plus(old, mean) \in [Costs!Objectives -> Int]
    BY <2>1 DEF Costs!Plus, old
  <2> QED
    BY <2>2 DEF old
<1>3. w \in [NodeActionPair(p) -> [Costs!Objectives -> Int]]
  BY <1>1, <1>2
<1> QED
  BY <1>3 DEF Means

\* A region's mean is added to every action that leaves a cell.
LEMMA ConvolvedLeaves ==
    ASSUME NEW p, IsProduct(p), NEW true_mean \in Means(p), NEW cell, NEW mean \in [Costs!Objectives -> Int]
    PROVE  Convolved(p, true_mean, cell, mean) \in Means(p)
<1> DEFINE M == Means(p)
           vec == outgoing(p.model, cell)
           V == {vec[k] : k \in DOMAIN vec}
           Op(m, x) == [m EXCEPT ![<<cell, x.edge>>] = Costs!Plus(@, mean)]
           step_of == [y \in M \X V |-> Op(y[1], y[2])]
<1>1. PICK n \in Nat : DOMAIN vec = 1 .. n
  <2>1. Symbolic!outgoing(p.model, cell) = outgoing(p.model, cell)
    BY SameSteps
  <2>2. Symbolic!IsProduct(p)
    BY SameNumbering
  <2>3. p.model.connections \in Seq(Symbolic!Range(p.model.connections))
    BY <2>2, Symbolic!ProductGraphs
  <2>4. Symbolic!outgoing(p.model, cell) \in Seq(Symbolic!Range(p.model.connections))
    BY <2>3, Symbolic!Connections
  <2> QED
    BY <2>1, <2>4
<1>2. ASSUME NEW m \in M, NEW x \in V PROVE Op(m, x) \in M
  BY MeansMoved DEF M
<1>3. true_mean \in M
  BY DEF M
<1>4. Convolved(p, true_mean, cell, mean) = FoldLeft(Op, true_mean, vec)
  BY DEF Convolved, FoldLeft, MapThenFoldSet
<1> HIDE DEF Op, M, vec
<1>5. ASSUME NEW m \in M, NEW k \in 1 .. n PROVE step_of[<<m, vec[k]>>] = Op(m, vec[k]) /\ vec[k] \in V
  <2>1. <<m, vec[k]>> \in M \X V /\ vec[k] \in V
    BY <1>1
  <2> HIDE DEF V
  <2> QED
    BY <2>1
<1>6. ASSUME NEW m \in M, NEW k \in 1 .. n PROVE step_of[<<m, vec[k]>>] \in M
  <2> HIDE DEF step_of, V
  <2> QED
    BY <1>2, <1>5
<1> HIDE DEF V
<1>7. PICK g : FoldSteps(step_of, true_mean, vec, n, g) /\ \A T \in SUBSET (1 .. n) : g[T] \in M
  <2> HIDE DEF step_of
  <2> QED
    BY <1>3, <1>6, FoldStepsWithin
<1>8. g = [T \in SUBSET DOMAIN vec |-> IF T = {} THEN true_mean ELSE Op(g[T \ {Max(T)}], vec[Max(T)])]
  <2> HIDE DEF step_of
  <2>1. ASSUME NEW T \in SUBSET (1 .. n), T # {}
        PROVE  step_of[<<g[T \ {Max(T)}], vec[Max(T)]>>] = Op(g[T \ {Max(T)}], vec[Max(T)])
    <3>1. Max(T) \in 1 .. n
      BY <2>1, GreatestNumber
    <3> QED
      BY <1>5, <1>7, <3>1
  <2> QED
    BY <1>1, <1>7, <2>1 DEF FoldSteps
<1>9. PICK h : /\ h = [T \in SUBSET DOMAIN vec |-> IF T = {} THEN true_mean ELSE Op(h[T \ {Max(T)}], vec[Max(T)])]
               /\ FoldLeft(Op, true_mean, vec) = h[DOMAIN vec]
  BY <1>8 DEF FoldLeft, MapThenFoldSet
<1>10. h[{}] \in M
  BY <1>3, <1>9
<1>11. ASSUME NEW T \in SUBSET (1 .. n), T # {}, h[T \ {Max(T)}] \in M PROVE h[T] \in M
  <2>1. Max(T) \in 1 .. n
    BY <1>11, GreatestNumber
  <2>2. h[T] = Op(h[T \ {Max(T)}], vec[Max(T)])
    BY <1>1, <1>9, <1>11
  <2>3. vec[Max(T)] \in V
    BY <1>5, <1>11, <2>1
  <2> QED
    BY <1>2, <1>11, <2>2, <2>3
<1>12. h[1 .. n] \in M
  <2>1. 1 .. n \in SUBSET (1 .. n)
    OBVIOUS
  <2> QED
    BY <1>10, <1>11, <2>1, FoldsWithin
<1> QED
  BY <1>1, <1>4, <1>9, <1>12 DEF M

\* A region's mean is added in every one of its cells.
RegionAdded(p, true_mean, region) ==
    FoldLeft(LAMBDA m, cell : Convolved(p, m, cell, region.mean), true_mean, region.cells)

\* What a region adds leaves a mean per action.
LEMMA RegionsLeave ==
    ASSUME NEW p, IsProduct(p), NEW before \in Means(p), NEW region,
           region.mean \in [Costs!Objectives -> Int], NEW l \in Nat, DOMAIN region.cells = 1 .. l
    PROVE  RegionAdded(p, before, region) \in Means(p)
<1> DEFINE M == Means(p)
           vec == region.cells
           V == {vec[k] : k \in DOMAIN vec}
           Op(m, x) == Convolved(p, m, x, region.mean)
           step_of == [y \in M \X V |-> Op(y[1], y[2])]
<1>1. PICK n \in Nat : DOMAIN vec = 1 .. n
  OBVIOUS
<1>2. ASSUME NEW m \in M, NEW x \in V PROVE Op(m, x) \in M
  BY ConvolvedLeaves DEF M
<1>3. before \in M
  BY DEF M
<1>4. RegionAdded(p, before, region) = FoldLeft(Op, before, vec)
  BY DEF RegionAdded, FoldLeft, MapThenFoldSet
<1> HIDE DEF Op, M, vec
<1>5. ASSUME NEW m \in M, NEW k \in 1 .. n PROVE step_of[<<m, vec[k]>>] = Op(m, vec[k]) /\ vec[k] \in V
  <2>1. <<m, vec[k]>> \in M \X V /\ vec[k] \in V
    BY <1>1
  <2> HIDE DEF V
  <2> QED
    BY <2>1
<1>6. ASSUME NEW m \in M, NEW k \in 1 .. n PROVE step_of[<<m, vec[k]>>] \in M
  <2> HIDE DEF step_of, V
  <2> QED
    BY <1>2, <1>5
<1> HIDE DEF V
<1>7. PICK g : FoldSteps(step_of, before, vec, n, g) /\ \A T \in SUBSET (1 .. n) : g[T] \in M
  <2> HIDE DEF step_of
  <2> QED
    BY <1>3, <1>6, FoldStepsWithin
<1>8. g = [T \in SUBSET DOMAIN vec |-> IF T = {} THEN before ELSE Op(g[T \ {Max(T)}], vec[Max(T)])]
  <2> HIDE DEF step_of
  <2>1. ASSUME NEW T \in SUBSET (1 .. n), T # {}
        PROVE  step_of[<<g[T \ {Max(T)}], vec[Max(T)]>>] = Op(g[T \ {Max(T)}], vec[Max(T)])
    <3>1. Max(T) \in 1 .. n
      BY <2>1, GreatestNumber
    <3> QED
      BY <1>5, <1>7, <3>1
  <2> QED
    BY <1>1, <1>7, <2>1 DEF FoldSteps
<1>9. PICK h : /\ h = [T \in SUBSET DOMAIN vec |-> IF T = {} THEN before ELSE Op(h[T \ {Max(T)}], vec[Max(T)])]
               /\ FoldLeft(Op, before, vec) = h[DOMAIN vec]
  BY <1>8 DEF FoldLeft, MapThenFoldSet
<1>10. h[{}] \in M
  BY <1>3, <1>9
<1>11. ASSUME NEW T \in SUBSET (1 .. n), T # {}, h[T \ {Max(T)}] \in M PROVE h[T] \in M
  <2>1. Max(T) \in 1 .. n
    BY <1>11, GreatestNumber
  <2>2. h[T] = Op(h[T \ {Max(T)}], vec[Max(T)])
    BY <1>1, <1>9, <1>11
  <2>3. vec[Max(T)] \in V
    BY <1>5, <1>11, <2>1
  <2> QED
    BY <1>2, <1>11, <2>2, <2>3
<1>12. h[1 .. n] \in M
  <2>1. 1 .. n \in SUBSET (1 .. n)
    OBVIOUS
  <2> QED
    BY <1>10, <1>11, <2>1, FoldsWithin
<1> QED
  BY <1>1, <1>4, <1>9, <1>12 DEF M

\* The true behavior's means are those of the configuration file.
LEMMA ConfiguredMeans ==
    ASSUME NEW p, IsProduct(p), NEW config, IsConfig(p, config)
    PROVE  deserializeConfig(p, config) \in Means(p)
<1> DEFINE M == Means(p)
           base == [pair \in NodeActionPair(p) |-> config.default]
           vec == config.regions
           V == {vec[k] : k \in DOMAIN vec}
           Op(m, x) == IF x.mean = <<>> THEN m ELSE RegionAdded(p, m, x)
           step_of == [y \in M \X V |-> Op(y[1], y[2])]
<1>1. PICK n \in Nat : DOMAIN vec = 1 .. n
  BY DEF IsConfig
<1>2. ASSUME NEW m \in M, NEW x \in V PROVE Op(m, x) \in M
  <2>1. x.mean = <<>> \/ x.mean \in [Costs!Objectives -> Int]
    BY DEF IsConfig
  <2>2. \E l \in Nat : DOMAIN x.cells = 1 .. l
    BY DEF IsConfig
  <2>3. CASE x.mean = <<>>
    BY <2>3
  <2>4. CASE x.mean # <<>>
    <3>1. RegionAdded(p, m, x) \in Means(p)
      BY <2>1, <2>2, <2>4, RegionsLeave
    <3> QED
      BY <2>4, <3>1
  <2> QED
    BY <2>3, <2>4
<1>3. base \in M
  BY DEF IsConfig, Means
<1>4. deserializeConfig(p, config) = FoldLeft(Op, base, vec)
  BY DEF deserializeConfig, RegionAdded, FoldLeft, MapThenFoldSet
<1> HIDE DEF Op, M, vec, base
<1>5. ASSUME NEW m \in M, NEW k \in 1 .. n PROVE step_of[<<m, vec[k]>>] = Op(m, vec[k]) /\ vec[k] \in V
  <2>1. <<m, vec[k]>> \in M \X V /\ vec[k] \in V
    BY <1>1
  <2> HIDE DEF V
  <2> QED
    BY <2>1
<1>6. ASSUME NEW m \in M, NEW k \in 1 .. n PROVE step_of[<<m, vec[k]>>] \in M
  <2> HIDE DEF step_of, V
  <2> QED
    BY <1>2, <1>5
<1> HIDE DEF V
<1>7. PICK g : FoldSteps(step_of, base, vec, n, g) /\ \A T \in SUBSET (1 .. n) : g[T] \in M
  <2> HIDE DEF step_of
  <2> QED
    BY <1>3, <1>6, FoldStepsWithin
<1>8. g = [T \in SUBSET DOMAIN vec |-> IF T = {} THEN base ELSE Op(g[T \ {Max(T)}], vec[Max(T)])]
  <2> HIDE DEF step_of
  <2>1. ASSUME NEW T \in SUBSET (1 .. n), T # {}
        PROVE  step_of[<<g[T \ {Max(T)}], vec[Max(T)]>>] = Op(g[T \ {Max(T)}], vec[Max(T)])
    <3>1. Max(T) \in 1 .. n
      BY <2>1, GreatestNumber
    <3> QED
      BY <1>5, <1>7, <3>1
  <2> QED
    BY <1>1, <1>7, <2>1 DEF FoldSteps
<1>9. PICK h : /\ h = [T \in SUBSET DOMAIN vec |-> IF T = {} THEN base ELSE Op(h[T \ {Max(T)}], vec[Max(T)])]
               /\ FoldLeft(Op, base, vec) = h[DOMAIN vec]
  BY <1>8 DEF FoldLeft, MapThenFoldSet
<1>10. h[{}] \in M
  BY <1>3, <1>9
<1>11. ASSUME NEW T \in SUBSET (1 .. n), T # {}, h[T \ {Max(T)}] \in M PROVE h[T] \in M
  <2>1. Max(T) \in 1 .. n
    BY <1>11, GreatestNumber
  <2>2. h[T] = Op(h[T \ {Max(T)}], vec[Max(T)])
    BY <1>1, <1>9, <1>11
  <2>3. vec[Max(T)] \in V
    BY <1>5, <1>11, <2>1
  <2> QED
    BY <1>2, <1>11, <2>2, <2>3
<1>12. h[1 .. n] \in M
  <2>1. 1 .. n \in SUBSET (1 .. n)
    OBVIOUS
  <2> QED
    BY <1>10, <1>11, <2>1, FoldsWithin
<1> QED
  BY <1>1, <1>4, <1>9, <1>12 DEF M

\* The index with the greatest weighted sum is one of the front.
LEMMA WeightedChoice ==
    ASSUME NEW pf, NEW weights, NEW n \in Nat \ {0}, DOMAIN pf = 1 .. n
    PROVE  scalarWeights(pf, weights) \subseteq 1 .. n
<1> DEFINE M == [sum_is_0 : BOOLEAN, max_ind : 1 .. n]
           first == [sum_is_0 |-> TRUE, max_ind |-> 1]
           vec == [k \in DOMAIN pf |-> k]
           V == {vec[k] : k \in DOMAIN vec}
           Op(m, x) ==
               IF m.sum_is_0
                 THEN IF weighted_sum(weights, pf[x]) > 0 THEN [sum_is_0 |-> FALSE, max_ind |-> x] ELSE m
                 ELSE IF Above(weights, pf[x], pf[m.max_ind]) THEN [m EXCEPT !.max_ind = x] ELSE m
           step_of == [y \in M \X V |-> Op(y[1], y[2])]
<1>1. DOMAIN vec = 1 .. n /\ n \in Nat
  OBVIOUS
<1>2. ASSUME NEW m \in M, NEW x \in V PROVE Op(m, x) \in M
  <2>1. x \in 1 .. n
    OBVIOUS
  <2> DEFINE up == weighted_sum(weights, pf[x]) > 0
             above == Above(weights, pf[x], pf[m.max_ind])
  <2>2. Op(m, x) = IF m.sum_is_0 THEN IF up THEN [sum_is_0 |-> FALSE, max_ind |-> x] ELSE m
                                 ELSE IF above THEN [m EXCEPT !.max_ind = x] ELSE m
    OBVIOUS
  <2> HIDE DEF Op, V, vec, up, above
  <2>3. [m EXCEPT !.max_ind = x] \in M /\ [sum_is_0 |-> FALSE, max_ind |-> x] \in M
    BY <2>1
  <2> QED
    BY <2>2, <2>3
<1>3. first \in M
  OBVIOUS
<1>4. scalarWeights(pf, weights) = {FoldLeft(Op, first, vec).max_ind}
  BY DEF scalarWeights, FoldLeft, MapThenFoldSet
<1> HIDE DEF Op, M, vec, first
<1>5. ASSUME NEW m \in M, NEW k \in 1 .. n PROVE step_of[<<m, vec[k]>>] = Op(m, vec[k]) /\ vec[k] \in V
  <2>1. <<m, vec[k]>> \in M \X V /\ vec[k] \in V
    BY <1>1
  <2> HIDE DEF V
  <2> QED
    BY <2>1
<1>6. ASSUME NEW m \in M, NEW k \in 1 .. n PROVE step_of[<<m, vec[k]>>] \in M
  <2> HIDE DEF step_of, V
  <2> QED
    BY <1>2, <1>5
<1> HIDE DEF V
<1>7. PICK g : FoldSteps(step_of, first, vec, n, g) /\ \A T \in SUBSET (1 .. n) : g[T] \in M
  <2> HIDE DEF step_of
  <2> QED
    BY <1>3, <1>6, FoldStepsWithin
<1>8. g = [T \in SUBSET DOMAIN vec |-> IF T = {} THEN first ELSE Op(g[T \ {Max(T)}], vec[Max(T)])]
  <2> HIDE DEF step_of
  <2>1. ASSUME NEW T \in SUBSET (1 .. n), T # {}
        PROVE  step_of[<<g[T \ {Max(T)}], vec[Max(T)]>>] = Op(g[T \ {Max(T)}], vec[Max(T)])
    <3>1. Max(T) \in 1 .. n
      BY <2>1, GreatestNumber
    <3> QED
      BY <1>5, <1>7, <3>1
  <2> QED
    BY <1>1, <1>7, <2>1 DEF FoldSteps
<1>9. PICK h : /\ h = [T \in SUBSET DOMAIN vec |-> IF T = {} THEN first ELSE Op(h[T \ {Max(T)}], vec[Max(T)])]
               /\ FoldLeft(Op, first, vec) = h[DOMAIN vec]
  BY <1>8 DEF FoldLeft, MapThenFoldSet
<1>10. h[{}] \in M
  BY <1>3, <1>9
<1>11. ASSUME NEW T \in SUBSET (1 .. n), T # {}, h[T \ {Max(T)}] \in M PROVE h[T] \in M
  <2>1. Max(T) \in 1 .. n
    BY <1>11, GreatestNumber
  <2>2. h[T] = Op(h[T \ {Max(T)}], vec[Max(T)])
    BY <1>1, <1>9, <1>11
  <2>3. vec[Max(T)] \in V
    BY <1>5, <1>11, <2>1
  <2> QED
    BY <1>2, <1>11, <2>2, <2>3
<1>12. h[1 .. n] \in M
  <2>1. 1 .. n \in SUBSET (1 .. n)
    OBVIOUS
  <2> QED
    BY <1>10, <1>11, <2>1, FoldsWithin
<1> QED
  BY <1>1, <1>4, <1>9, <1>12 DEF M

\* A selector answers the index of a candidate.
LEMMA SelectorsAnswer ==
    ASSUME NEW pf, NEW n \in Nat \ {0}, DOMAIN pf = 1 .. n, Len(pf) = n
    PROVE  /\ uniformRandom(pf) \subseteq 1 .. n /\ TOPSIS(pf) \subseteq 1 .. n
           /\ \A weights : scalarWeights(pf, weights) \subseteq 1 .. n
<1>1. uniformRandom(pf) \subseteq 1 .. n
  BY DEF uniformRandom, randi
<1>2. TOPSIS(pf) \subseteq 1 .. n
  BY DEF TOPSIS
<1> QED
  BY <1>1, <1>2, WeightedChoice

-----------------------------------------------------------------------------
(***************************************************************************)
(* The books of the behavior handler.                                      *)
(***************************************************************************)
\* The sum over the elements is one by the recursion.
LEMMA ElementsAreSummed ==
    ASSUME NEW v, IsFiniteSet(DOMAIN v)
    PROVE  \E g : SetSums(v, DOMAIN v, g) /\ SumFunction(v) = g[DOMAIN v]
<1>1. PICK g : SetSums(v, DOMAIN v, g)
  BY SetSumsExist
<1>2. SumFunction(v) = (CHOOSE h : SetSums(v, DOMAIN v, h))[DOMAIN v]
  BY DEF SumFunction, SumFunctionOnSet, FoldFunctionOnSet, MapThenFoldSet, SetSums, AnyOf
<1> QED
  BY <1>1, <1>2

\* Of nothing but zeros it is zero.
LEMMA ElementsOfZero ==
    ASSUME NEW v, IsFiniteSet(DOMAIN v), \A x \in DOMAIN v : v[x] = 0
    PROVE  SumFunction(v) = 0
<1>1. PICK g : SetSums(v, DOMAIN v, g) /\ SumFunction(v) = g[DOMAIN v]
  BY ElementsAreSummed
<1> QED
  BY <1>1, SetSumsOfZeros

\* What is added to one element is added to the sum.
LEMMA OneElementMore ==
    ASSUME NEW S, IsFiniteSet(S), NEW v \in [S -> Int], NEW w, DOMAIN w = S,
           NEW y \in S, NEW delta \in Int, w[y] = v[y] + delta, \A x \in S : x # y => w[x] = v[x]
    PROVE  SumFunction(w) = SumFunction(v) + delta
<1>1. DOMAIN v = S
  OBVIOUS
<1>2. PICK g : SetSums(v, S, g) /\ SumFunction(v) = g[S]
  BY <1>1, ElementsAreSummed
<1>3. PICK h : SetSums(w, S, h) /\ SumFunction(w) = h[S]
  BY ElementsAreSummed
<1>4. h[S] = g[S] + delta
  BY <1>2, <1>3, OneAdded
<1> QED
  BY <1>2, <1>3, <1>4

\* The visits in a handler's elements.
VisitsIn(handler) == SumFunction([pair \in DOMAIN handler.elements |-> handler.elements[pair].m_n])

\* And the costs.
CostsIn(handler, d) == SumFunction([pair \in DOMAIN handler.elements |-> handler.elements[pair].sum[d]])

\* A new handler has visited nothing.
LEMMA NewHandlerIsEmpty ==
    ASSUME NEW p, IsProduct(p)
    PROVE  /\ NewHandler(p) \in Handler(p) /\ NewHandler(p).m_state_visits = 0
           /\ VisitsIn(NewHandler(p)) = 0
           /\ \A d \in Costs!Objectives : CostsIn(NewHandler(p), d) = 0
<1> DEFINE handler == NewHandler(p)
           S == NodeActionPair(p)
<1>1. IsFiniteSet(S)
  BY FinitelyManyElements
<1>2. Fresh \in JointCostArray /\ Fresh.m_n = 0 /\ \A d \in Costs!Objectives : Fresh.sum[d] = 0
  BY DEF Fresh, JointCostArray, Costs!Zero, Costs!CostVector
<1>3. handler = [elements |-> [pair \in S |-> Fresh], m_state_visits |-> 0]
  BY DEF NewHandler
<1> HIDE DEF S, handler
<1>4. /\ handler.elements = [pair \in S |-> Fresh] /\ handler.m_state_visits = 0
      /\ handler \in [elements : [S -> JointCostArray], m_state_visits : Nat]
  BY <1>2, <1>3
<1>5. DOMAIN handler.elements = S /\ \A pair \in S : handler.elements[pair] = Fresh
  BY <1>4
<1>6. VisitsIn(handler) = 0
  <2> DEFINE v == [pair \in DOMAIN handler.elements |-> handler.elements[pair].m_n]
  <2>1. DOMAIN v = S /\ \A pair \in S : v[pair] = 0
    BY <1>2, <1>5
  <2> HIDE DEF v
  <2>2. SumFunction(v) = 0
    BY <1>1, <2>1, ElementsOfZero
  <2> QED
    BY <2>2 DEF VisitsIn, v
<1>7. ASSUME NEW d \in Costs!Objectives PROVE CostsIn(handler, d) = 0
  <2> DEFINE v == [pair \in DOMAIN handler.elements |-> handler.elements[pair].sum[d]]
  <2>1. DOMAIN v = S /\ \A pair \in S : v[pair] = 0
    BY <1>2, <1>5
  <2> HIDE DEF v
  <2>2. SumFunction(v) = 0
    BY <1>1, <2>1, ElementsOfZero
  <2> QED
    BY <2>2 DEF CostsIn, v
<1> QED
  BY <1>4, <1>6, <1>7 DEF handler, S, Handler

\* A visit adds one to the visits, and its sample to the costs.
LEMMA VisitIsBooked ==
    ASSUME NEW p, IsProduct(p), NEW handler \in Handler(p), NEW node, NEW action,
           <<ts_node(p, node), action>> \in NodeActionPair(p), NEW sample \in Costs!CostVector
    PROVE  LET visited == visit(handler, p, node, action, sample)
           IN  /\ visited \in Handler(p) /\ visited.m_state_visits = handler.m_state_visits + 1
               /\ VisitsIn(visited) = VisitsIn(handler) + 1
               /\ \A d \in Costs!Objectives : CostsIn(visited, d) = CostsIn(handler, d) + sample[d]
<1> DEFINE S == NodeActionPair(p)
           at == <<ts_node(p, node), action>>
           old == handler.elements
           array == old[at]
           pulled == pull(array, sample)
           now == [old EXCEPT ![at] = pulled]
           visited == visit(handler, p, node, action, sample)
<1>1. IsFiniteSet(S)
  BY FinitelyManyElements
<1>2. old \in [S -> JointCostArray] /\ handler.m_state_visits \in Nat
  BY DEF Handler
<1>3. visited = [elements |-> now, m_state_visits |-> handler.m_state_visits + 1]
  BY DEF visit
<1>4. at \in S
  OBVIOUS
<1> HIDE DEF S, at, old, visited
<1>5. array \in JointCostArray
  BY <1>2, <1>4
<1>6. pulled = [m_n |-> array.m_n + 1, sum |-> Costs!Plus(array.sum, sample)]
  BY DEF pull
<1> HIDE DEF array, pulled
<1>7. Costs!Plus(array.sum, sample) \in Costs!CostVector /\ array.m_n \in Nat
      /\ \A d \in Costs!Objectives : Costs!Plus(array.sum, sample)[d] = array.sum[d] + sample[d]
  <2>1. array.sum \in Costs!CostVector /\ array.m_n \in Nat
    BY <1>5 DEF JointCostArray
  <2> DEFINE total == array.sum
  <2> HIDE DEF total
  <2>2. total \in Costs!CostVector
    BY <2>1 DEF total
  <2>3. Costs!Plus(total, sample) \in Costs!CostVector
        /\ \A d \in Costs!Objectives : Costs!Plus(total, sample)[d] = total[d] + sample[d]
    BY <2>2 DEF Costs!Plus, Costs!CostVector
  <2> QED
    BY <2>1, <2>3 DEF total
<1>8. /\ pulled \in JointCostArray /\ pulled.m_n = array.m_n + 1
      /\ \A d \in Costs!Objectives : pulled.sum[d] = array.sum[d] + sample[d]
  <2> DEFINE total == Costs!Plus(array.sum, sample)
             count == array.m_n + 1
  <2>1. total \in Costs!CostVector /\ count \in Nat /\ pulled = [m_n |-> count, sum |-> total]
    BY <1>6, <1>7
  <2> HIDE DEF total, count
  <2>2. pulled \in JointCostArray /\ pulled.m_n = count /\ pulled.sum = total
    BY <2>1 DEF JointCostArray
  <2> QED
    BY <1>7, <2>2 DEF total, count
<1>9. /\ now \in [S -> JointCostArray] /\ DOMAIN now = S /\ now[at] = pulled
      /\ \A pair \in S : pair # at => now[pair] = old[pair]
  BY <1>2, <1>4, <1>8
<1> HIDE DEF now
<1>10. /\ visited.elements = now /\ visited.m_state_visits = handler.m_state_visits + 1 /\ visited \in Handler(p)
  <2> DEFINE count == handler.m_state_visits + 1
  <2>1. count \in Nat
    BY <1>2
  <2> HIDE DEF count
  <2>2. visited = [elements |-> now, m_state_visits |-> count]
    BY <1>3 DEF count
  <2>3. visited \in [elements : [S -> JointCostArray], m_state_visits : Nat]
    BY <1>9, <2>1, <2>2
  <2> QED
    BY <2>2, <2>3 DEF S, Handler, count
<1>11. VisitsIn(visited) = VisitsIn(handler) + 1
  <2> DEFINE v == [pair \in DOMAIN old |-> old[pair].m_n]
             w == [pair \in DOMAIN now |-> now[pair].m_n]
  <2>1. VisitsIn(handler) = SumFunction(v) /\ VisitsIn(visited) = SumFunction(w)
    BY <1>10 DEF VisitsIn, old
  <2>2. DOMAIN old = S /\ \A pair \in S : old[pair] \in JointCostArray
    BY <1>2
  <2>3. v = [pair \in S |-> old[pair].m_n] /\ w = [pair \in S |-> now[pair].m_n]
    BY <1>9, <2>2
  <2>4. \A pair \in S : old[pair].m_n \in Nat
    BY <2>2 DEF JointCostArray
  <2> HIDE DEF v, w
  <2>5. v \in [S -> Int] /\ DOMAIN w = S /\ w[at] = v[at] + 1 /\ \A pair \in S : pair # at => w[pair] = v[pair]
    BY <1>4, <1>8, <1>9, <2>3, <2>4 DEF array
  <2>6. SumFunction(w) = SumFunction(v) + 1
    BY <1>1, <1>4, <2>5, OneElementMore
  <2> QED
    BY <2>1, <2>6
<1>12. ASSUME NEW d \in Costs!Objectives PROVE CostsIn(visited, d) = CostsIn(handler, d) + sample[d]
  <2> DEFINE v == [pair \in DOMAIN old |-> old[pair].sum[d]]
             w == [pair \in DOMAIN now |-> now[pair].sum[d]]
  <2>1. CostsIn(handler, d) = SumFunction(v) /\ CostsIn(visited, d) = SumFunction(w)
    BY <1>10 DEF CostsIn, old
  <2>2. DOMAIN old = S /\ \A pair \in S : old[pair] \in JointCostArray
    BY <1>2
  <2>3. v = [pair \in S |-> old[pair].sum[d]] /\ w = [pair \in S |-> now[pair].sum[d]]
    BY <1>9, <2>2
  <2>4. ASSUME NEW pair \in S PROVE old[pair].sum[d] \in Int
    <3> DEFINE total == old[pair].sum
    <3>1. total \in [Costs!Objectives -> Nat]
      BY <2>2 DEF JointCostArray, Costs!CostVector
    <3> HIDE DEF total
    <3>2. total[d] \in Nat
      BY <3>1
    <3> QED
      BY <3>2 DEF total
  <2>5. sample[d] \in Int
    BY DEF Costs!CostVector
  <2> HIDE DEF v, w
  <2>6. v \in [S -> Int] /\ DOMAIN w = S
    BY <2>3, <2>4
  <2>7. w[at] = v[at] + sample[d] /\ \A pair \in S : pair # at => w[pair] = v[pair]
    BY <1>4, <1>8, <1>9, <2>3 DEF array
  <2>8. SumFunction(w) = SumFunction(v) + sample[d]
    BY <1>1, <1>4, <2>5, <2>6, <2>7, OneElementMore
  <2> QED
    BY <2>1, <2>8
<1> QED
  BY <1>10, <1>11, <1>12 DEF visited

-----------------------------------------------------------------------------
(***************************************************************************)
(* The invariant of the books.                                             *)
(***************************************************************************)
\* What a trial does not change.
Settings ==
    /\ m_product \in Products /\ init_node \in Node(m_product.model)
    /\ m_true_behavior \in Means(m_product)

\* The handler and the learner are about the product.
Learned ==
    /\ m_behavior_handler \in Handler(m_product)
    /\ m_current_product_node \in WideNode(m_product)

\* While there is a search result, it holds paths to the goal, and what was
\* picked of it, so far or for good, is one of them.
Planned ==
    phase \in Searched =>
        /\ result.solution_set \in Seq(GoalPaths(m_product, m_current_product_node, CompletedTasksHorizon))
        /\ result.solution_set # <<>>
        /\ phase \in {"evaluating", "compared"} => candidate \in DOMAIN result.solution_set
        /\ phase = "compared" \/ (phase = "evaluating" /\ candidate # 1) =>
              best.min_ind \in DOMAIN result.solution_set
        /\ phase = "executing" => selected_ind \in DOMAIN result.solution_set

\* The collector counts its instances, and every cost is one.
Collected ==
    /\ m_num_instances = Len(m_instances)
    /\ m_cumulative_cost \in Costs!CostVector
    /\ "cost_sample" \in DOMAIN m_buffer_instance /\ m_buffer_instance.cost_sample \in Costs!CostVector
    /\ \A i \in DOMAIN m_instances : m_instances[i].cost_sample \in Costs!CostVector

\* The plan of a finished instance is a path to the goal.
Achieved ==
    \A i \in DOMAIN m_instances : \E n \in WideNode(m_product) :
        chosen(m_instances[i]) \in GoalPaths(m_product, n, CompletedTasksHorizon)

\* Where the program is, and how it ended.
Flow ==
    /\ phase \in {"parsing", "between trials", "planning", "selecting", "evaluating", "compared",
                  "executing", "reporting", "ended"}
    /\ trial \in Nat
    /\ exit \in {"running", "exit 0", "exit 1", "abort"}

\* What is kept with the books.
BInv == Settings /\ Learned /\ Planned /\ Collected /\ Achieved /\ Flow /\ BooksBalance

\* What these parts but Planned and Flow are about.
Known ==
    <<m_product, init_node, m_true_behavior, m_behavior_handler, m_current_product_node,
      m_num_instances, m_instances, m_cumulative_cost, m_buffer_instance.cost_sample, DOMAIN m_buffer_instance>>

\* The books, of what they are about.
Balance(handler, cumulative, sample, instances) ==
    /\ VisitsIn(handler) = handler.m_state_visits
    /\ \A d \in Costs!Objectives :
         /\ CostsIn(handler, d) = cumulative[d] + sample[d]
         /\ cumulative[d] = SumOver([i \in DOMAIN instances |-> instances[i].cost_sample[d]])

\* The books are those, now and after a step.
LEMMA BooksAreBalance ==
    /\ BooksBalance <=> Balance(m_behavior_handler, m_cumulative_cost, m_buffer_instance.cost_sample, m_instances)
    /\ BooksBalance' <=>
          Balance(m_behavior_handler', m_cumulative_cost', m_buffer_instance'.cost_sample, m_instances')
  BY DEF BooksBalance, Balance, VisitsIn, CostsIn

\* A step that changes nothing they are about keeps them.
LEMMA KnownKept ==
    ASSUME BInv, UNCHANGED Known
    PROVE  Settings' /\ Learned' /\ Collected' /\ Achieved' /\ BooksBalance'
<1> USE DEF BInv, Known
<1>1. Settings'
  BY DEF Settings
<1>2. Learned'
  BY DEF Learned
<1>3. Collected'
  BY DEF Collected
<1>4. Achieved'
  BY DEF Achieved, chosen
<1>5. BooksBalance'
  BY BooksAreBalance
<1> QED
  BY <1>1, <1>2, <1>3, <1>4, <1>5

\* A step outside of the phases with a search result, into no such phase.
LEMMA NothingPlanned ==
    ASSUME BInv, UNCHANGED Known, phase' \notin Searched, Flow'
    PROVE  BInv'
<1>1. Planned'
  BY DEF Planned
<1> QED
  BY <1>1, KnownKept DEF BInv

\* A step that keeps the search result and what was picked of it.
LEMMA NothingPicked ==
    ASSUME BInv, UNCHANGED Known, UNCHANGED <<phase, result, candidate, best, selected_ind>>, Flow'
    PROVE  BInv'
<1>1. Planned'
  BY DEF BInv, Known, Planned
<1> QED
  BY <1>1, KnownKept DEF BInv

\* A search answers paths to the goal from where the learner is.
LEMMA SearchKeepsBInv ==
    ASSUME BInv, NEW max_instances, Search(max_instances), UNCHANGED main_vars
    PROVE  BInv'
<1>1. /\ UNCHANGED Known /\ phase' = "selecting" /\ UNCHANGED <<trial, exit>>
      /\ result' \in SearchResults(m_product, m_behavior_handler, m_current_product_node, CompletedTasksHorizon)
  BY DEF Search, Known, data_vars, main_vars
<1>2. CompletedTasksHorizon \in Nat \ {0}
  BY LearnerAssumption
<1>3. m_product \in Products /\ m_current_product_node \in WideNode(m_product)
  BY DEF BInv, Settings, Learned
<1>4. /\ result'.solution_set \in Seq(GoalPaths(m_product, m_current_product_node, CompletedTasksHorizon))
      /\ result'.solution_set # <<>>
  BY <1>1, <1>2, <1>3, AnswersAreGoalPaths
<1>5. Planned'
  BY <1>1, <1>4 DEF Planned, Known
<1>6. Flow'
  BY <1>1 DEF BInv, Flow
<1> QED
  BY <1>1, <1>5, <1>6, KnownKept DEF BInv

\* Selecting a candidate changes nothing that was learned.
LEMMA HoldKeepsBInv ==
    ASSUME BInv, phase \in Searched, NEW ind \in DOMAIN result.solution_set, HoldDistributions(ind),
           UNCHANGED <<m_product, m_true_behavior, m_behavior_handler, m_current_product_node,
                       m_num_instances, result, m_instances, m_cumulative_cost, main_vars>>
    PROVE  BInv'
<1>1. /\ phase' = "executing" /\ selected_ind' = ind
      /\ m_buffer_instance' = [m_buffer_instance EXCEPT !.trajectory_distributions = convertParetoFrontUCBToMean(result)]
  BY DEF HoldDistributions
<1>2. DOMAIN m_buffer_instance' = DOMAIN m_buffer_instance /\ m_buffer_instance'.cost_sample = m_buffer_instance.cost_sample
  <2>1. "cost_sample" \in DOMAIN m_buffer_instance
    BY DEF BInv, Collected
  <2> QED
    BY <1>1, <2>1
<1>3. UNCHANGED Known /\ UNCHANGED <<trial, exit>>
  BY <1>2 DEF Known, main_vars
<1>4. Planned'
  BY <1>1, <1>3 DEF BInv, Planned, Known
<1>5. Flow'
  BY <1>1, <1>3 DEF BInv, Flow
<1> QED
  BY <1>3, <1>4, <1>5, KnownKept DEF BInv

\* Every selector picks a candidate.
LEMMA SelectKeepsBInv ==
    ASSUME BInv, NEW selector, Select(selector), UNCHANGED main_vars
    PROVE  BInv'
<1> DEFINE pf == convertParetoFrontUCBToMean(result)
           listed == result.solution_set
<1>1. phase = "selecting" /\ phase \in Searched
  BY DEF Select, Searched
<1>2. PICK n \in Nat \ {0} : DOMAIN listed = 1 .. n /\ Len(listed) = n
  <2>1. listed \in Seq(GoalPaths(m_product, m_current_product_node, CompletedTasksHorizon)) /\ listed # <<>>
    BY <1>1 DEF BInv, Planned
  <2> HIDE DEF listed
  <2>2. Len(listed) \in Nat \ {0} /\ DOMAIN listed = 1 .. Len(listed)
    BY <2>1
  <2> QED
    BY <2>2
<1>3. DOMAIN pf = 1 .. n /\ Len(pf) = n
  <2>1. pf = [k \in 1 .. n |-> MeanCost(m_product, m_behavior_handler, listed[k])]
    BY <1>2 DEF convertParetoFrontUCBToMean, Mapped
  <2> HIDE DEF pf
  <2> QED
    BY <2>1
<1>4. \E ind \in DOMAIN listed : HoldDistributions(ind)
  <2> HIDE DEF pf, listed
  <2>1. /\ uniformRandom(pf) \subseteq 1 .. n /\ TOPSIS(pf) \subseteq 1 .. n
        /\ scalarWeights(pf, m_preference) \subseteq 1 .. n
    BY <1>3, SelectorsAnswer
  <2>2. \/ \E ind \in uniformRandom(pf) : HoldDistributions(ind)
        \/ \E ind \in TOPSIS(pf) : HoldDistributions(ind)
        \/ \E ind \in scalarWeights(pf, m_preference) : HoldDistributions(ind)
    BY DEF Select, pf
  <2> QED
    BY <1>2, <2>1, <2>2
<1>5. UNCHANGED <<m_product, m_true_behavior, m_behavior_handler, m_current_product_node,
                  m_num_instances, result, m_instances, m_cumulative_cost, main_vars>>
  BY DEF Select
<1> HIDE DEF pf
<1> QED
  BY <1>1, <1>4, <1>5, HoldKeepsBInv

\* The candidates are evaluated one after the other.
LEMMA EvaluateKeepsBInv ==
    ASSUME BInv, NEW selector, NEW n_samples, Evaluate(selector, n_samples), UNCHANGED main_vars
    PROVE  BInv'
<1> DEFINE listed == result.solution_set
<1>1. /\ phase' = "evaluating" /\ UNCHANGED Known /\ UNCHANGED <<result, selected_ind, best, trial, exit>>
      /\ \/ phase = "selecting" /\ candidate' = 1
         \/ phase = "compared" /\ candidate < Len(listed) /\ candidate' = candidate + 1
  BY DEF Evaluate, Known, data_vars, main_vars
<1>2. phase \in Searched
  BY <1>1 DEF Searched
<1>3. listed \in Seq(GoalPaths(m_product, m_current_product_node, CompletedTasksHorizon)) /\ listed # <<>>
  BY <1>2 DEF BInv, Planned
<1>4. phase = "compared" => candidate \in DOMAIN listed /\ best.min_ind \in DOMAIN listed
  BY <1>2 DEF BInv, Planned
<1>5. candidate' \in DOMAIN listed /\ (candidate' # 1 => best.min_ind \in DOMAIN listed)
  <2> HIDE DEF listed
  <2>1. Len(listed) \in Nat \ {0} /\ DOMAIN listed = 1 .. Len(listed)
    BY <1>3
  <2> QED
    BY <1>1, <1>4, <2>1
<1>6. Planned'
  BY <1>1, <1>3, <1>5 DEF Planned, Known
<1>7. Flow'
  BY <1>1 DEF BInv, Flow
<1> QED
  BY <1>1, <1>6, <1>7, KnownKept DEF BInv

\* The best candidate so far is one of those evaluated.
LEMMA CompareKeepsBInv ==
    ASSUME BInv, NEW n_samples, Compare(n_samples), UNCHANGED main_vars
    PROVE  BInv'
<1>1. /\ phase = "evaluating" /\ phase' = "compared" /\ UNCHANGED Known
      /\ UNCHANGED <<result, selected_ind, candidate, trial, exit>>
      /\ best'.min_ind = candidate \/ (candidate # 1 /\ best' = best)
  <2>1. /\ phase = "evaluating" /\ phase' = "compared" /\ UNCHANGED Known
        /\ UNCHANGED <<result, selected_ind, candidate, trial, exit>>
    BY DEF Compare, Known, data_vars, main_vars
  <2>2. best'.min_ind = candidate \/ (candidate # 1 /\ best' = best)
    BY DEF Compare
  <2> QED
    BY <2>1, <2>2
<1>2. Planned'
  BY <1>1 DEF BInv, Planned, Known, Searched
<1>3. Flow'
  BY <1>1 DEF BInv, Flow
<1> QED
  BY <1>1, <1>2, <1>3, KnownKept DEF BInv

\* The best candidate is selected.
LEMMA SelectAifKeepsBInv ==
    ASSUME BInv, SelectAif, UNCHANGED main_vars
    PROVE  BInv'
<1>1. phase = "compared" /\ HoldDistributions(best.min_ind) /\ phase \in Searched
  BY DEF SelectAif, Searched
<1>2. best.min_ind \in DOMAIN result.solution_set
  BY <1>1 DEF BInv, Planned
<1>3. UNCHANGED <<m_product, m_true_behavior, m_behavior_handler, m_current_product_node,
                  m_num_instances, result, m_instances, m_cumulative_cost, main_vars>>
  BY DEF SelectAif
<1> QED
  BY <1>1, <1>2, <1>3, HoldKeepsBInv

\* The plan being executed is a path to the goal.
LEMMA PlanIsAWalk ==
    ASSUME BInv, phase = "executing"
    PROVE  /\ plan \in GoalPaths(m_product, m_current_product_node, CompletedTasksHorizon)
           /\ plan \in TaskWalk(m_product, m_current_product_node, CompletedTasksHorizon)
           /\ m_product \in Products /\ m_current_product_node \in WideNode(m_product)
<1>1. m_product \in Products /\ m_current_product_node \in WideNode(m_product)
  BY DEF BInv, Settings, Learned
<1>2. CompletedTasksHorizon \in Nat \ {0}
  BY LearnerAssumption
<1>3. /\ result.solution_set \in Seq(GoalPaths(m_product, m_current_product_node, CompletedTasksHorizon))
      /\ selected_ind \in DOMAIN result.solution_set
  BY DEF BInv, Planned, Searched
<1>4. plan \in GoalPaths(m_product, m_current_product_node, CompletedTasksHorizon)
  BY <1>3 DEF plan
<1> QED
  BY <1>1, <1>2, <1>4, GoalPathsAreWalks

\* A sample has two costs, which are not negative.
LEMMA SamplesAreCosts ==
    ASSUME m_true_behavior \in Means(m_product), NEW node, NEW action,
           <<ts_node(m_product, node), action>> \in NodeActionPair(m_product)
    PROVE  Samples(node, action) \subseteq Costs!CostVector
<1> DEFINE mean == getElement(m_true_behavior, m_product, node, action)
<1>1. mean \in [Costs!Objectives -> Int]
  BY DEF Means, getElement
<1> HIDE DEF mean
<1>2. ASSUME NEW z \in Noise
      PROVE  [d \in Costs!Objectives |-> IF mean[d] + z[d] > 0 THEN mean[d] + z[d] ELSE 0] \in Costs!CostVector
  <2>1. z \in [Costs!Objectives -> Int]
    BY LearnerAssumption
  <2>2. \A d \in Costs!Objectives : (IF mean[d] + z[d] > 0 THEN mean[d] + z[d] ELSE 0) \in Nat
    BY <1>1, <2>1
  <2> QED
    BY <2>2 DEF Costs!CostVector
<1> QED
  BY <1>2 DEF Samples, mean

\* Two costs together are a cost.
LEMMA CostsAreAdded ==
    ASSUME NEW v \in Costs!CostVector, NEW w \in Costs!CostVector
    PROVE  /\ Costs!Plus(v, w) \in Costs!CostVector
           /\ \A d \in Costs!Objectives : Costs!Plus(v, w)[d] = v[d] + w[d] /\ v[d] \in Nat /\ w[d] \in Nat
  BY DEF Costs!Plus, Costs!CostVector

\* An action is a visit of its element, and costs what was sampled.
LEMMA ExecuteKeepsBInv ==
    ASSUME IInv, BInv, Execute, UNCHANGED main_vars
    PROVE  BInv'
<1> DEFINE src_node == plan.node_path[step + 1].base_node
           action == plan.edge_path[step + 1]
           spent == m_buffer_instance.cost_sample
<1>1. PICK sample \in Samples(src_node, action) :
         /\ m_buffer_instance' = [m_buffer_instance EXCEPT !.cost_sample = Costs!Plus(@, sample)]
         /\ m_behavior_handler' = visit(m_behavior_handler, m_product, src_node, action, sample)
  BY DEF Execute
<1>2. /\ phase = "executing" /\ step < Len(plan.edge_path)
      /\ UNCHANGED <<phase, m_product, m_true_behavior, m_current_product_node, m_num_instances, result,
                     selected_ind, candidate, best, m_instances, m_cumulative_cost, init_node, trial, exit>>
  BY DEF Execute, main_vars
<1>3. step \in Nat
  BY DEF IInv, Counts
<1>4. plan \in TaskWalk(m_product, m_current_product_node, CompletedTasksHorizon)
      /\ m_product \in Products /\ IsProduct(m_product)
  BY <1>2, PlanIsAWalk, ProductAssumption
<1>5. step + 1 \in DOMAIN plan.edge_path
  <2>1. plan.edge_path \in Seq(Action(m_product))
    BY <1>4 DEF TaskWalk, Path
  <2>2. Len(plan.edge_path) \in Nat /\ DOMAIN plan.edge_path = 1 .. Len(plan.edge_path)
    BY <2>1
  <2> QED
    BY <1>2, <1>3, <2>2
<1>6. <<ts_node(m_product, src_node), action>> \in NodeActionPair(m_product)
  BY <1>4, <1>5 DEF TaskWalk, IsTaskWalk, IsStep
<1> HIDE DEF src_node, action
<1>7. sample \in Costs!CostVector
  BY <1>6, SamplesAreCosts DEF BInv, Settings
<1>8. /\ m_behavior_handler' \in Handler(m_product)
      /\ m_behavior_handler'.m_state_visits = m_behavior_handler.m_state_visits + 1
      /\ VisitsIn(m_behavior_handler') = VisitsIn(m_behavior_handler) + 1
      /\ \A d \in Costs!Objectives : CostsIn(m_behavior_handler', d) = CostsIn(m_behavior_handler, d) + sample[d]
  <2>1. m_behavior_handler \in Handler(m_product)
    BY DEF BInv, Learned
  <2> DEFINE visited == visit(m_behavior_handler, m_product, src_node, action, sample)
  <2>2. /\ visited \in Handler(m_product) /\ visited.m_state_visits = m_behavior_handler.m_state_visits + 1
        /\ VisitsIn(visited) = VisitsIn(m_behavior_handler) + 1
        /\ \A d \in Costs!Objectives : CostsIn(visited, d) = CostsIn(m_behavior_handler, d) + sample[d]
    BY <1>4, <1>6, <1>7, <2>1, VisitIsBooked
  <2> HIDE DEF visited
  <2> QED
    BY <1>1, <2>2 DEF visited
<1>9. /\ "cost_sample" \in DOMAIN m_buffer_instance' /\ m_buffer_instance'.cost_sample = Costs!Plus(spent, sample)
      /\ spent \in Costs!CostVector
  BY <1>1 DEF BInv, Collected
<1> HIDE DEF spent
<1>10. /\ m_buffer_instance'.cost_sample \in Costs!CostVector
       /\ \A d \in Costs!Objectives :
             m_buffer_instance'.cost_sample[d] = spent[d] + sample[d] /\ spent[d] \in Nat /\ sample[d] \in Nat
  BY <1>7, <1>9, CostsAreAdded
<1>11. Settings' /\ Learned' /\ Achieved' /\ Flow' /\ Planned'
  <2>1. Settings' /\ Learned'
    BY <1>2, <1>8 DEF BInv, Settings, Learned
  <2>2. Achieved'
    BY <1>2 DEF BInv, Achieved, chosen
  <2>3. Flow' /\ Planned'
    BY <1>2 DEF BInv, Flow, Planned
  <2> QED
    BY <2>1, <2>2, <2>3
<1>12. Collected'
  BY <1>2, <1>9, <1>10 DEF BInv, Collected
<1>13. BooksBalance'
  <2>1. Balance(m_behavior_handler, m_cumulative_cost, spent, m_instances)
    BY BooksAreBalance DEF BInv, spent
  <2>2. VisitsIn(m_behavior_handler') = m_behavior_handler'.m_state_visits
    BY <1>8, <2>1 DEF Balance
  <2>3. ASSUME NEW d \in Costs!Objectives
        PROVE  /\ CostsIn(m_behavior_handler', d) = m_cumulative_cost'[d] + m_buffer_instance'.cost_sample[d]
               /\ m_cumulative_cost'[d] = SumOver([i \in DOMAIN m_instances' |-> m_instances'[i].cost_sample[d]])
    <3>1. /\ CostsIn(m_behavior_handler, d) = m_cumulative_cost[d] + spent[d]
          /\ m_cumulative_cost[d] = SumOver([i \in DOMAIN m_instances |-> m_instances[i].cost_sample[d]])
      BY <2>1 DEF Balance
    <3>2. m_cumulative_cost[d] \in Nat
      BY DEF BInv, Collected, Costs!CostVector
    <3>3. CostsIn(m_behavior_handler', d) = m_cumulative_cost[d] + spent[d] + sample[d]
      BY <1>8, <3>1
    <3>4. m_buffer_instance'.cost_sample[d] = spent[d] + sample[d] /\ spent[d] \in Nat /\ sample[d] \in Nat
      BY <1>10
    <3>5. CostsIn(m_behavior_handler', d) = m_cumulative_cost[d] + m_buffer_instance'.cost_sample[d]
      BY <3>2, <3>3, <3>4
    <3> QED
      BY <1>2, <3>1, <3>5
  <2> QED
    BY <2>2, <2>3, BooksAreBalance DEF Balance
<1> QED
  BY <1>11, <1>12, <1>13 DEF BInv

\* A finished instance is added to the books, with its plan.
LEMMA FinishKeepsBInv ==
    ASSUME IInv, BInv, NEW calc_regret, FinishInstance(calc_regret), UNCHANGED main_vars
    PROVE  BInv'
<1> DEFINE data == Finished(calc_regret)
           spent == m_buffer_instance.cost_sample
           n == Len(m_instances)
<1>1. /\ phase = "executing" /\ phase' = "planning"
      /\ m_current_product_node' = PlanBack
      /\ m_cumulative_cost' = Costs!Plus(m_cumulative_cost, data.cost_sample)
      /\ m_instances' = Append(m_instances, data)
      /\ m_buffer_instance' = NewInstance
      /\ m_num_instances' = m_num_instances + 1
      /\ UNCHANGED <<m_product, m_true_behavior, m_behavior_handler, init_node, trial, exit>>
  BY DEF FinishInstance, main_vars
<1>2. data.cost_sample = spent /\ data.paths = result.solution_set /\ data.selected_plan_index = selected_ind
  BY DEF Finished
<1> HIDE DEF data
<1>3. /\ plan \in GoalPaths(m_product, m_current_product_node, CompletedTasksHorizon)
      /\ plan \in TaskWalk(m_product, m_current_product_node, CompletedTasksHorizon)
      /\ m_product \in Products /\ m_current_product_node \in WideNode(m_product)
  BY <1>1, PlanIsAWalk
<1>4. m_current_product_node' \in WideNode(m_product)
  <2>1. plan.node_path \in Seq(HistoryNode(m_product)) /\ Len(plan.node_path) = Len(plan.edge_path) + 1
        /\ plan.edge_path \in Seq(Action(m_product))
    BY <1>3 DEF TaskWalk, Path, IsTaskWalk
  <2>2. Len(plan.node_path) \in DOMAIN plan.node_path
    BY <2>1
  <2>3. plan.node_path[Len(plan.node_path)] \in HistoryNode(m_product)
    BY <2>1, <2>2
  <2> QED
    BY <1>1, <2>3 DEF PlanBack, HistoryNode
<1>5. PICK S : m_instances \in Seq(S)
  BY DEF IInv, InstancesAreListed
<1>6. /\ n \in Nat /\ DOMAIN m_instances = 1 .. n /\ DOMAIN m_instances' = 1 .. n + 1 /\ Len(m_instances') = n + 1
      /\ m_instances'[n + 1] = data /\ \A i \in 1 .. n : m_instances'[i] = m_instances[i]
  BY <1>1, <1>5
<1>7. /\ m_cumulative_cost \in Costs!CostVector /\ spent \in Costs!CostVector /\ m_num_instances = n
      /\ \A i \in 1 .. n : m_instances[i].cost_sample \in Costs!CostVector
  BY <1>6 DEF BInv, Collected
<1>8. /\ m_buffer_instance'.cost_sample = Costs!Zero /\ "cost_sample" \in DOMAIN m_buffer_instance'
      /\ Costs!Zero \in Costs!CostVector /\ \A d \in Costs!Objectives : Costs!Zero[d] = 0
  BY <1>1 DEF NewInstance, Costs!Zero, Costs!CostVector
<1> HIDE DEF spent, n
<1>9. Settings' /\ Learned' /\ Flow' /\ Planned'
  <2>1. Settings' /\ Flow'
    BY <1>1 DEF BInv, Settings, Flow
  <2>2. Learned'
    BY <1>1, <1>4 DEF BInv, Learned
  <2>3. Planned'
    BY <1>1 DEF Planned, Searched
  <2> QED
    BY <2>1, <2>2, <2>3
<1>10. ASSUME NEW i \in 1 .. n + 1 PROVE i \in 1 .. n \/ i = n + 1
  BY <1>6
<1>11. Collected'
  <2>1. m_cumulative_cost' \in Costs!CostVector
    BY <1>1, <1>2, <1>7, CostsAreAdded
  <2>2. \A i \in 1 .. n + 1 : m_instances'[i].cost_sample \in Costs!CostVector
    BY <1>2, <1>6, <1>7, <1>10
  <2> QED
    BY <1>1, <1>6, <1>7, <1>8, <2>1, <2>2 DEF Collected
<1>12. Achieved'
  <2>1. chosen(data) = plan
    BY <1>2 DEF chosen, plan
  <2>2. ASSUME NEW i \in 1 .. n + 1
        PROVE  \E m \in WideNode(m_product) :
                  chosen(m_instances'[i]) \in GoalPaths(m_product, m, CompletedTasksHorizon)
    <3>1. CASE i = n + 1
      BY <1>3, <1>6, <2>1, <3>1
    <3>2. CASE i \in 1 .. n
      BY <1>6, <3>2 DEF BInv, Achieved
    <3> QED
      BY <1>10, <3>1, <3>2
  <2> QED
    BY <1>1, <1>6, <2>2 DEF Achieved, chosen
<1>13. BooksBalance'
  <2>1. Balance(m_behavior_handler, m_cumulative_cost, spent, m_instances)
    BY BooksAreBalance DEF BInv, spent
  <2>2. ASSUME NEW d \in Costs!Objectives
        PROVE  /\ CostsIn(m_behavior_handler', d) = m_cumulative_cost'[d] + m_buffer_instance'.cost_sample[d]
               /\ m_cumulative_cost'[d] = SumOver([i \in DOMAIN m_instances' |-> m_instances'[i].cost_sample[d]])
    <3> DEFINE v == [i \in DOMAIN m_instances |-> m_instances[i].cost_sample[d]]
               w == [i \in DOMAIN m_instances' |-> m_instances'[i].cost_sample[d]]
    <3>1. /\ CostsIn(m_behavior_handler, d) = m_cumulative_cost[d] + spent[d]
          /\ m_cumulative_cost[d] = SumOver(v)
      BY <2>1 DEF Balance
    <3>2. m_cumulative_cost'[d] = m_cumulative_cost[d] + spent[d] /\ m_cumulative_cost[d] \in Nat /\ spent[d] \in Nat
      BY <1>1, <1>2, <1>7, CostsAreAdded
    <3>3. v = [i \in 1 .. n |-> m_instances[i].cost_sample[d]] /\ w = [i \in 1 .. n + 1 |-> m_instances'[i].cost_sample[d]]
      BY <1>6
    <3>4. ASSUME NEW i \in 1 .. n PROVE m_instances[i].cost_sample[d] \in Int
      <4> DEFINE cost == m_instances[i].cost_sample
      <4>1. cost \in Costs!CostVector
        BY <1>7
      <4> HIDE DEF cost
      <4>2. cost[d] \in Int
        BY <4>1 DEF Costs!CostVector
      <4> QED
        BY <4>2 DEF cost
    <3> HIDE DEF v, w
    <3>5. v \in [1 .. n -> Int] /\ \A i \in 1 .. n : w[i] = v[i]
      BY <1>6, <3>3, <3>4
    <3>6. w[n + 1] = spent[d]
      BY <1>2, <1>6, <3>3
    <3>7. w \in [1 .. n + 1 -> Int]
      <4>1. \A i \in 1 .. n + 1 : w[i] \in Int
        BY <1>10, <3>2, <3>5, <3>6
      <4> QED
        BY <3>3, <4>1
    <3>8. SumOver(w) = SumOver(v) + w[n + 1]
      BY <1>6, <3>5, <3>7, SumOfOneMore
    <3>9. m_buffer_instance'.cost_sample[d] = 0 /\ CostsIn(m_behavior_handler', d) = CostsIn(m_behavior_handler, d)
      BY <1>1, <1>8
    <3>10. m_cumulative_cost'[d] = SumOver(w)
      BY <3>1, <3>2, <3>6, <3>8
    <3>11. CostsIn(m_behavior_handler', d) = m_cumulative_cost'[d] + m_buffer_instance'.cost_sample[d]
      BY <3>1, <3>2, <3>9
    <3> QED
      BY <3>10, <3>11 DEF w
  <2>3. VisitsIn(m_behavior_handler') = m_behavior_handler'.m_state_visits
    BY <1>1, <2>1 DEF Balance
  <2> QED
    BY <2>2, <2>3, BooksAreBalance DEF Balance
<1> QED
  BY <1>9, <1>11, <1>12, <1>13 DEF BInv

\* A new learner has nothing in its books.
LEMMA NewLearner ==
    ASSUME NEW p \in Products, NEW n \in Node(p.model)
    PROVE  /\ IsProduct(p)
           /\ NewHandler(p) \in Handler(p) /\ init_product_node(p, n) \in WideNode(p)
           /\ "cost_sample" \in DOMAIN NewInstance /\ NewInstance.cost_sample = Costs!Zero
           /\ Costs!Zero \in Costs!CostVector
           /\ Balance(NewHandler(p), Costs!Zero, Costs!Zero, <<>>)
<1>1. IsProduct(p)
  BY ProductAssumption
<1>2. \A d \in Costs!Objectives : Costs!Zero[d] = 0
  BY DEF Costs!Zero
<1>3. Costs!Zero \in Costs!CostVector
  BY DEF Costs!Zero, Costs!CostVector
<1>4. "cost_sample" \in DOMAIN NewInstance /\ NewInstance.cost_sample = Costs!Zero
  BY DEF NewInstance
<1>5. /\ NewHandler(p) \in Handler(p) /\ NewHandler(p).m_state_visits = 0
      /\ VisitsIn(NewHandler(p)) = 0
      /\ \A d \in Costs!Objectives : CostsIn(NewHandler(p), d) = 0
  BY <1>1, NewHandlerIsEmpty
<1>6. ASSUME NEW d \in Costs!Objectives
      PROVE  SumOver([i \in DOMAIN <<>> |-> <<>>[i].cost_sample[d]]) = 0
  <2> DEFINE v == [i \in DOMAIN <<>> |-> <<>>[i].cost_sample[d]]
  <2>1. v = <<>>
    OBVIOUS
  <2> HIDE DEF v
  <2>2. SumOver(v) = 0
    BY <2>1, SumOfNone
  <2> QED
    BY <2>2 DEF v
<1>7. Balance(NewHandler(p), Costs!Zero, Costs!Zero, <<>>)
  BY <1>2, <1>5, <1>6 DEF Balance
<1> QED
  BY <1>1, <1>3, <1>4, <1>5, <1>7, StartIsANode

\* The books are in order at the start.
LEMMA InitHasBInv == Init => BInv
<1> SUFFICES ASSUME Init PROVE BInv
  OBVIOUS
<1>1. PICK w \in Worlds :
         /\ m_product = w.product /\ init_node = w.init_node
         /\ m_true_behavior = deserializeConfig(w.product, w.config)
         /\ m_current_product_node = init_product_node(w.product, w.init_node)
         /\ m_behavior_handler = NewHandler(w.product)
  BY DEF Init
<1>2. w.product \in Products /\ w.init_node \in Node(w.product.model) /\ IsConfig(w.product, w.config)
  BY WorldsAssumption
<1>3. /\ m_product \in Products /\ init_node \in Node(m_product.model)
      /\ m_behavior_handler = NewHandler(m_product)
      /\ m_current_product_node = init_product_node(m_product, init_node)
  BY <1>1, <1>2
<1>4. m_true_behavior \in Means(m_product)
  <2>1. IsProduct(w.product)
    BY <1>2, ProductAssumption
  <2> QED
    BY <1>1, <1>2, <2>1, ConfiguredMeans
<1>5. /\ phase = "parsing" /\ trial = 0 /\ exit = "running" /\ m_num_instances = 0
      /\ m_buffer_instance = NewInstance /\ m_instances = <<>> /\ m_cumulative_cost = Costs!Zero
  BY DEF Init
<1>6. /\ NewHandler(m_product) \in Handler(m_product)
      /\ init_product_node(m_product, init_node) \in WideNode(m_product)
      /\ "cost_sample" \in DOMAIN NewInstance /\ NewInstance.cost_sample = Costs!Zero
      /\ Costs!Zero \in Costs!CostVector
      /\ Balance(NewHandler(m_product), Costs!Zero, Costs!Zero, <<>>)
  BY <1>3, NewLearner
<1>7. DOMAIN m_instances = {} /\ Len(m_instances) = 0
  BY <1>5
<1>8. Settings /\ Learned
  BY <1>3, <1>4, <1>6 DEF Settings, Learned
<1>9. Planned /\ Flow
  BY <1>5 DEF Planned, Flow, Searched
<1>10. Collected /\ Achieved
  BY <1>5, <1>6, <1>7 DEF Collected, Achieved
<1>11. BooksBalance
  BY <1>3, <1>5, <1>6, BooksAreBalance
<1> QED
  BY <1>8, <1>9, <1>10, <1>11 DEF BInv

\* They are in order for the learner of every trial.
LEMMA StartTrialHasBInv ==
    ASSUME BInv, StartTrial
    PROVE  BInv'
<1>1. /\ phase' = "planning" /\ m_num_instances' = 0
      /\ m_buffer_instance' = NewInstance /\ m_instances' = <<>> /\ m_cumulative_cost' = Costs!Zero
      /\ m_behavior_handler' = NewHandler(m_product)
  BY DEF StartTrial, initialize
<1>2. /\ m_current_product_node' = init_product_node(m_product, init_node)
      /\ UNCHANGED <<m_product, m_true_behavior, init_node, trial, exit>>
  BY DEF StartTrial, initialize, main_vars
<1>3. m_product \in Products /\ init_node \in Node(m_product.model)
  BY DEF BInv, Settings
<1>4. /\ NewHandler(m_product) \in Handler(m_product)
      /\ init_product_node(m_product, init_node) \in WideNode(m_product)
      /\ "cost_sample" \in DOMAIN NewInstance /\ NewInstance.cost_sample = Costs!Zero
      /\ Costs!Zero \in Costs!CostVector
      /\ Balance(NewHandler(m_product), Costs!Zero, Costs!Zero, <<>>)
  BY <1>3, NewLearner
<1>5. DOMAIN m_instances' = {} /\ Len(m_instances') = 0
  BY <1>1
<1>6. Settings' /\ Learned'
  BY <1>1, <1>2, <1>4 DEF BInv, Settings, Learned
<1>7. Planned' /\ Flow'
  BY <1>1, <1>2 DEF BInv, Planned, Flow, Searched
<1>8. Collected' /\ Achieved'
  BY <1>1, <1>4, <1>5 DEF Collected, Achieved
<1>9. BooksBalance'
  BY <1>1, <1>4, BooksAreBalance
<1> QED
  BY <1>6, <1>7, <1>8, <1>9 DEF BInv

\* A parse() that ends the program ends it with one of two codes.
LEMMA ParseEnds ==
    ASSUME NEW p, NEW o
    PROVE  _parse(p, o).outcome \in {"parsed", "exit 1", "abort"}
<1> DEFINE after(i) == Checked(p, Slot(o, i))
           found == {i \in DOMAIN p.argv : ~ p.m_checked[i] /\ Names(o, p.argv[i])}
           first == CHOOSE i \in found : \A j \in found : i <= j
           documented == Documented(p, o)
           answer(argument) == [parser |-> documented, argument |-> argument, outcome |-> "parsed"]
<1>1. _parse(p, o) = IF ~ IsNewOption(p, o) THEN [answer(NotGiven) EXCEPT !.outcome = "exit 1"]
                     ELSE IF p.m_help THEN answer(Indicated)
                     ELSE IF found # {} THEN Taken(documented, o, first)
                     ELSE answer(IF o.default = <<>> THEN NotGiven ELSE Given(o.default[1]))
  BY DEF _parse
<1>2. ASSUME NEW q, NEW i PROVE Taken(q, o, i).outcome \in {"parsed", "exit 1", "abort"}
  BY DEF Taken
<1> HIDE DEF documented, found, first
<1>3. [answer(NotGiven) EXCEPT !.outcome = "exit 1"].outcome = "exit 1"
  OBVIOUS
<1>4. \A argument : answer(argument).outcome = "parsed"
  OBVIOUS
<1> HIDE DEF answer
<1> QED
  BY <1>1, <1>2, <1>3, <1>4

\* Every step of the learner keeps the invariant.
LEMMA LearnerStepKeepsBInv ==
    ASSUME IInv, BInv, Run
    PROVE  BInv'
<1> UNCHANGED main_vars
  BY DEF Run
<1>1. CASE Search(get("instances"))
  BY <1>1, SearchKeepsBInv
<1>2. CASE StopRunning(get("instances"))
  <2>1. UNCHANGED Known /\ UNCHANGED <<trial, exit>> /\ phase' = "reporting"
    BY <1>2 DEF StopRunning, learner_vars, data_vars, main_vars, Known
  <2> QED
    BY <2>1, NothingPlanned DEF BInv, Flow, Searched
<1>3. CASE Select(getSelector(get("selector")))
  BY <1>3, SelectKeepsBInv
<1>4. CASE Evaluate(getSelector(get("selector")), get("efe-samples"))
  BY <1>4, EvaluateKeepsBInv
<1>5. CASE Await
  <2>1. UNCHANGED Known /\ UNCHANGED <<phase, result, candidate, best, selected_ind, trial, exit>>
    BY <1>5 DEF Await, learner_vars, data_vars, main_vars, Known
  <2> QED
    BY <2>1, NothingPicked DEF BInv, Flow
<1>6. CASE Compare(get("efe-samples"))
  BY <1>6, CompareKeepsBInv
<1>7. CASE SelectAif
  BY <1>7, SelectAifKeepsBInv
<1>8. CASE Execute
  BY <1>8, ExecuteKeepsBInv
<1>9. CASE FinishInstance(has("regret"))
  BY <1>9, FinishKeepsBInv
<1> QED
  BY <1>1, <1>2, <1>3, <1>4, <1>5, <1>6, <1>7, <1>8, <1>9 DEF Run, LearnerStep

\* Every step keeps them.
LEMMA StepKeepsBInv == IInv /\ BInv /\ [Next]_vars => BInv'
<1> SUFFICES ASSUME IInv, BInv, [Next]_vars PROVE BInv'
  OBVIOUS
<1> DEFINE Kept == <<learner_vars, data_vars, init_node>>
<1>0. UNCHANGED Kept => UNCHANGED Known /\ UNCHANGED <<result, candidate, best, selected_ind>>
  BY DEF learner_vars, data_vars, Known
<1>1. CASE Parse
  <2>1. UNCHANGED Kept /\ trial' = trial /\ phase = "parsing"
    BY <1>1 DEF Parse
  <2>2. \/ phase' = phase /\ exit' = exit
        \/ phase' = "ended" /\ exit' \in {"parsed", "exit 1", "abort"} /\ exit' # "parsed"
    BY <1>1, ParseEnds DEF Parse, Exit
  <2>3. Flow'
    BY <2>1, <2>2 DEF BInv, Flow
  <2> QED
    BY <1>0, <2>1, <2>2, <2>3, NothingPlanned DEF Searched
<1>2. CASE Construct
  <2>1. UNCHANGED Kept /\ trial' = trial
    BY <1>2 DEF Construct
  <2>2. \/ phase' = "ended" /\ exit' \in {"exit 0", "exit 1", "abort"}
        \/ phase' = "between trials" /\ exit' = exit
    BY <1>2 DEF Construct, Exit, enableHelp
  <2>3. Flow'
    BY <2>1, <2>2 DEF BInv, Flow
  <2> QED
    BY <1>0, <2>1, <2>2, <2>3, NothingPlanned DEF Searched
<1>3. CASE StartTrial
  BY <1>3, StartTrialHasBInv
<1>4. CASE Run
  BY <1>4, LearnerStepKeepsBInv
<1>5. CASE NoWeight
  <2>1. UNCHANGED Kept /\ trial' = trial /\ phase' = "ended" /\ exit' = "exit 1"
    BY <1>5 DEF NoWeight, Exit
  <2>2. Flow'
    BY <2>1 DEF BInv, Flow
  <2> QED
    BY <1>0, <2>1, <2>2, NothingPlanned DEF Searched
<1>6. CASE Report
  <2>1. UNCHANGED Kept
    BY <1>6 DEF Report
  <2>2. \/ phase' = "ended" /\ exit' = "exit 1" /\ trial' = trial
        \/ phase' = "between trials" /\ exit' = exit /\ trial' = trial + 1
    BY <1>6 DEF Report, Exit
  <2>3. Flow'
    <3>1. trial' \in Nat
      <4>1. trial \in Nat
        BY DEF BInv, Flow
      <4>2. trial' = trial \/ trial' = trial + 1
        BY <2>2
      <4> QED
        BY <4>1, <4>2
    <3> QED
      BY <2>2, <3>1 DEF BInv, Flow
  <2> QED
    BY <1>0, <2>1, <2>2, <2>3, NothingPlanned DEF Searched
<1>7. CASE Finish
  <2>1. UNCHANGED Kept /\ trial' = trial /\ phase' = "ended" /\ exit' = "exit 0"
    BY <1>7 DEF Finish, Exit
  <2>2. Flow'
    BY <2>1 DEF BInv, Flow
  <2> QED
    BY <1>0, <2>1, <2>2, NothingPlanned DEF Searched
<1>8. ASSUME NEW t \in Thread, Worker(t) PROVE BInv'
  <2>1. UNCHANGED Kept /\ UNCHANGED <<phase, trial, exit>>
    BY <1>8 DEF Worker, Work, main_vars
  <2>2. Flow'
    BY <2>1 DEF BInv, Flow
  <2> QED
    BY <1>0, <2>1, <2>2, NothingPicked
<1>9. CASE UNCHANGED vars
  <2>1. UNCHANGED Kept /\ UNCHANGED <<phase, trial, exit>>
    BY <1>9 DEF vars, main_vars
  <2>2. Flow'
    BY <2>1 DEF BInv, Flow
  <2> QED
    BY <1>0, <2>1, <2>2, NothingPicked
<1> QED
  BY <1>1, <1>2, <1>3, <1>4, <1>5, <1>6, <1>7, <1>8, <1>9 DEF Next, Main, Terminated

\* They stay in order in every behavior.
LEMMA BooksAreKept == Spec => [](IInv /\ BInv)
<1>1. Init => IInv /\ BInv
  BY InitHasIInv, InitHasBInv
<1>2. IInv /\ BInv /\ [Next]_vars => (IInv /\ BInv)'
  BY StepKeepsIInv, StepKeepsBInv
<1> QED
  BY <1>1, <1>2, PTL DEF Spec

\* In every world, on every command line and for any number of workers, the
\* learner's state stays of its type: the handler keeps one array per action of the
\* product, the current node is a node of the product as wide as its number, the
\* instances are as many as are counted, and no cost is negative (Learner.h:81).
THEOREM TypesAreKept == Spec => []TypeOK
<1>1. IInv /\ BInv => TypeOK
  BY DEF IInv, Counts, BInv, Learned, Collected, Flow, TypeOK
<1> QED
  BY <1>1, BooksAreKept, PTL

\* Every sample the simulator draws is in the estimate of one action and in the
\* cost of one instance: the handler's elements together have as many visits as it
\* counted and the cost of the finished instances with the one under way, over any
\* number of trials and whatever is selected (Learner.h:112, DataCollector.h:84).
THEOREM BooksAlwaysBalance == Spec => []BooksBalance
<1>1. BInv => BooksBalance
  BY DEF BInv
<1> QED
  BY <1>1, BooksAreKept, PTL

-----------------------------------------------------------------------------
(***************************************************************************)
(* The tasks of an instance.                                               *)
(***************************************************************************)
\* The tasks the first steps of a path complete.
TasksOf(p, x, n) ==
    SumOver([k \in 1 .. n - 1 |-> TasksCompleted(p, x.node_path[k].base_node, x.node_path[k + 1].base_node)])

\* A node of a path counts the tasks that were completed on the way, as long as
\* the last step of a path cannot make the counter start over.
LEMMA WalksCountTasks ==
    ASSUME NEW p \in Products, NEW n, NEW horizon \in Nat \ {0}, horizon + Len(p.automata) <= 256,
           NEW x \in TaskWalk(p, n, horizon)
    PROVE  \A m \in 1 .. Len(x.node_path) : TasksOf(p, x, m) = x.node_path[m].n_completed_tasks
<1> DEFINE nodes_of == x.node_path
           l == Len(nodes_of)
           T(k) == TasksCompleted(p, nodes_of[k].base_node, nodes_of[k + 1].base_node)
           count(k) == nodes_of[k].n_completed_tasks
           width == Len(p.automata)
           Wrong == {m \in Nat : m \in 1 .. l /\ TasksOf(p, x, m) # count(m)}
<1>1. /\ nodes_of \in Seq(HistoryNode(p)) /\ x.edge_path \in Seq(Action(p))
      /\ l = Len(x.edge_path) + 1 /\ IsTaskWalk(p, n, horizon, x)
  BY DEF TaskWalk, IsTaskWalk, Path
<1>2. l \in Nat /\ l > 0 /\ DOMAIN nodes_of = 1 .. l /\ DOMAIN x.edge_path = 1 .. l - 1
  BY <1>1
<1>3. IsProduct(p) /\ width \in Nat
  <2>1. IsProduct(p)
    BY ProductAssumption
  <2>2. Len(p.automata) \in Nat
    BY <2>1 DEF IsProduct
  <2> QED
    BY <2>1, <2>2
<1>4. \A k \in 1 .. l - 1 : T(k) \in 0 .. width
  BY <1>3, TasksAreCounted
<1>5. \A k \in 1 .. l : count(k) \in 0 .. 255
  <2>1. \A k \in 1 .. l : nodes_of[k] \in HistoryNode(p)
    BY <1>1, <1>2
  <2> HIDE DEF nodes_of, l
  <2> QED
    BY <2>1 DEF HistoryNode
<1>6. count(1) = 0
  BY <1>1 DEF IsTaskWalk, initial_node, TaskHistoryNode
<1>7. ASSUME NEW k \in 1 .. l - 1 PROVE count(k) < horizon /\ count(k + 1) = (count(k) + T(k)) % 256
  <2>1. ~ goal(nodes_of[k], horizon) /\ IsStep(p, nodes_of[k], x.edge_path[k], nodes_of[k + 1])
    BY <1>1, <1>2 DEF IsTaskWalk
  <2>2. ~ (count(k) >= horizon) /\ count(k + 1) = (count(k) + T(k)) % 256
    BY <2>1 DEF goal, IsStep
  <2>3. k \in 1 .. l
    BY <1>2
  <2>4. count(k) \in 0 .. 255
    BY <1>5, <2>3
  <2> DEFINE now == count(k)
  <2> HIDE DEF now
  <2>5. now \in 0 .. 255 /\ ~ (now >= horizon)
    BY <2>2, <2>4 DEF now
  <2>6. now < horizon
    BY <2>5
  <2> QED
    BY <2>2, <2>6 DEF now
<1>8. \A k : TasksOf(p, x, k) = SumOver([j \in 1 .. k - 1 |-> T(j)])
  BY DEF TasksOf
<1> HIDE DEF T, count, l, width, nodes_of
<1>9. ASSUME NEW k \in 1 .. l - 1 PROVE count(k + 1) = count(k) + T(k)
  <2>1. k \in 1 .. l
    BY <1>2
  <2>2. count(k) \in 0 .. 255 /\ T(k) \in 0 .. width /\ count(k) < horizon /\ horizon + width <= 256
    BY <1>4, <1>5, <1>7, <2>1 DEF width
  <2>3. count(k) + T(k) \in 0 .. 255
    <3> DEFINE a == count(k)
               b == T(k)
    <3>1. a \in 0 .. 255 /\ b \in 0 .. width /\ a < horizon /\ horizon + width <= 256
      BY <2>2
    <3> HIDE DEF a, b
    <3>2. a + b \in 0 .. 255
      BY <1>3, <3>1
    <3> QED
      BY <3>2 DEF a, b
  <2>4. \A y \in 0 .. 255 : y % 256 = y
    OBVIOUS
  <2> QED
    BY <1>7, <2>3, <2>4
<1>10. TasksOf(p, x, 1) = count(1)
  <2> DEFINE v == [j \in 1 .. 1 - 1 |-> T(j)]
  <2>1. TasksOf(p, x, 1) = SumOver(v)
    BY <1>8
  <2>2. DOMAIN v = 1 .. 0 /\ TasksOf(p, x, 1) = SumOver(v)
    <3>1. DOMAIN v = 1 .. 1 - 1 /\ 1 - 1 = 0
      OBVIOUS
    <3> HIDE DEF v
    <3> QED
      BY <2>1, <3>1
  <2> HIDE DEF v
  <2>3. SumOver(v) = 0
    BY <2>2, SumOfNone
  <2> QED
    BY <1>6, <2>2, <2>3 DEF count
<1>11. ASSUME NEW k \in 1 .. l - 1, TasksOf(p, x, k) = count(k) PROVE TasksOf(p, x, k + 1) = count(k + 1)
  <2> DEFINE v == [j \in 1 .. k - 1 |-> T(j)]
             w == [j \in 1 .. (k - 1) + 1 |-> T(j)]
  <2>1. k \in Nat /\ k - 1 \in Nat /\ (k - 1) + 1 = k /\ (k + 1) - 1 = k
    BY <1>2
  <2>2. \A j \in 1 .. k : T(j) \in Int
    BY <1>2, <1>3, <1>4
  <2>3. v \in [1 .. k - 1 -> Int] /\ w \in [1 .. (k - 1) + 1 -> Int] /\ (\A j \in 1 .. k - 1 : w[j] = v[j])
        /\ w[(k - 1) + 1] = T(k)
    BY <2>1, <2>2
  <2>4. TasksOf(p, x, k) = SumOver(v) /\ TasksOf(p, x, k + 1) = SumOver(w)
    BY <1>8, <2>1
  <2> HIDE DEF v, w
  <2>5. SumOver(w) = SumOver(v) + w[(k - 1) + 1]
    BY <2>1, <2>3, SumOfOneMore
  <2> QED
    BY <1>9, <1>11, <2>3, <2>4, <2>5
<1>12. Wrong = {}
  <2> SUFFICES ASSUME Wrong # {} PROVE FALSE
    OBVIOUS
  <2>1. PICK m \in Wrong : \A k \in Wrong : m <= k
    <3>1. Wrong \in SUBSET Nat
      OBVIOUS
    <3> HIDE DEF Wrong
    <3> QED
      BY <3>1, LeastNumber
  <2>2. m \in 1 .. l /\ TasksOf(p, x, m) # count(m)
    OBVIOUS
  <2>3. m # 1
    BY <1>10, <2>2
  <2>4. m - 1 \in 1 .. l - 1 /\ m - 1 \in Nat /\ m - 1 \in 1 .. l /\ (m - 1) + 1 = m /\ ~ (m <= m - 1)
    BY <1>2, <2>2, <2>3
  <2>5. TasksOf(p, x, m - 1) = count(m - 1)
    BY <2>1, <2>4
  <2> QED
    BY <1>11, <2>2, <2>4, <2>5
<1>13. \A m \in 1 .. l : TasksOf(p, x, m) = count(m)
  BY <1>2, <1>12
<1> QED
  BY <1>13 DEF l, count, nodes_of

\* A path to the goal completes enough tasks with its last step, and not before.
LEMMA GoalPathsDoTheirTasks ==
    ASSUME NEW p \in Products, NEW n \in WideNode(p), NEW horizon \in Nat \ {0},
           horizon + Len(p.automata) <= 256, NEW x \in GoalPaths(p, n, horizon)
    PROVE  /\ TasksOf(p, x, Len(x.node_path)) >= horizon
           /\ TasksOf(p, x, Len(x.node_path) - 1) < horizon
<1> DEFINE l == Len(x.node_path)
<1>1. x \in TaskWalk(p, n, horizon) /\ goal(Last(x.node_path), horizon)
  BY GoalPathsAreWalks
<1>2. /\ x.node_path \in Seq(HistoryNode(p)) /\ x.edge_path \in Seq(Action(p))
      /\ l = Len(x.edge_path) + 1 /\ IsTaskWalk(p, n, horizon, x)
  BY <1>1 DEF TaskWalk, IsTaskWalk, Path
<1>3. l \in Nat /\ l > 0 /\ DOMAIN x.node_path = 1 .. l /\ DOMAIN x.edge_path = 1 .. l - 1
  BY <1>2
<1>4. x.node_path[l].n_completed_tasks >= horizon
  BY <1>1 DEF goal, Last
<1>5. x.node_path[1].n_completed_tasks = 0
  BY <1>2 DEF IsTaskWalk, initial_node, TaskHistoryNode
<1> HIDE DEF l
<1>6. l # 1
  BY <1>4, <1>5
<1>7. l - 1 \in 1 .. l - 1 /\ l - 1 \in 1 .. l /\ l \in 1 .. l
  BY <1>3, <1>6
<1>8. ~ goal(x.node_path[l - 1], horizon) /\ x.node_path[l - 1] \in HistoryNode(p)
  BY <1>2, <1>3, <1>7 DEF IsTaskWalk
<1>9. x.node_path[l - 1].n_completed_tasks < horizon
  <2> DEFINE before == x.node_path[l - 1]
  <2>1. before \in HistoryNode(p) /\ ~ goal(before, horizon)
    BY <1>8
  <2> HIDE DEF before
  <2>2. before.n_completed_tasks \in 0 .. 255 /\ ~ (before.n_completed_tasks >= horizon)
    BY <2>1 DEF goal, HistoryNode
  <2>3. before.n_completed_tasks < horizon
    <3> DEFINE num == before.n_completed_tasks
    <3>1. num \in 0 .. 255 /\ ~ (num >= horizon)
      BY <2>2
    <3> HIDE DEF num
    <3>2. num < horizon
      BY <3>1
    <3> QED
      BY <3>2 DEF num
  <2> QED
    BY <2>3 DEF before
<1>10. \A m \in 1 .. l : TasksOf(p, x, m) = x.node_path[m].n_completed_tasks
  BY <1>1, WalksCountTasks DEF l
<1> QED
  BY <1>4, <1>7, <1>9, <1>10 DEF l

\* The plan of a finished instance completes as many tasks as the horizon asks
\* for with its last step and not before (SearchProblem.h:34), if a step cannot
\* complete so many that the counter of tasks, a uint8_t, starts over.
THEOREM InstancesDoTheirTasks ==
    ASSUME \A p \in Products : CompletedTasksHorizon + Len(p.automata) <= 256
    PROVE  Spec => []EveryInstanceDoesItsTasks
<1>1. BInv => EveryInstanceDoesItsTasks
  <2> SUFFICES ASSUME BInv, NEW i \in DOMAIN m_instances
               PROVE  LET nodes_of == chosen(m_instances[i]).node_path
                          entered(k) == {a \in DOMAIN m_product.automata :
                                           /\ acc(m_product, nodes_of[k + 1].base_node, a)
                                           /\ ~ acc(m_product, nodes_of[k].base_node, a)}
                          tasks(n) == SumOver([k \in 1 .. n - 1 |-> Cardinality(entered(k))])
                      IN  /\ tasks(Len(nodes_of)) >= CompletedTasksHorizon
                          /\ tasks(Len(nodes_of) - 1) < CompletedTasksHorizon
    BY DEF EveryInstanceDoesItsTasks
  <2> DEFINE x == chosen(m_instances[i])
             entered(k) == {a \in DOMAIN m_product.automata :
                              /\ acc(m_product, x.node_path[k + 1].base_node, a)
                              /\ ~ acc(m_product, x.node_path[k].base_node, a)}
  <2>1. PICK n \in WideNode(m_product) : x \in GoalPaths(m_product, n, CompletedTasksHorizon)
    BY DEF BInv, Achieved
  <2>2. m_product \in Products /\ CompletedTasksHorizon \in Nat \ {0}
        /\ CompletedTasksHorizon + Len(m_product.automata) <= 256
    BY LearnerAssumption DEF BInv, Settings
  <2>3. \A k : Cardinality(entered(k)) =
                 TasksCompleted(m_product, x.node_path[k].base_node, x.node_path[k + 1].base_node)
    <3>1. ASSUME NEW k
          PROVE  entered(k) = {a \in DOMAIN m_product.automata :
                                 /\ ~ acc(m_product, x.node_path[k].base_node, a)
                                 /\ acc(m_product, x.node_path[k + 1].base_node, a)}
      OBVIOUS
    <3> QED
      BY <3>1 DEF TasksCompleted
  <2> HIDE DEF x, entered
  <2>4. \A l : SumOver([k \in 1 .. l - 1 |-> Cardinality(entered(k))]) = TasksOf(m_product, x, l)
    BY <2>3 DEF TasksOf
  <2>5. /\ TasksOf(m_product, x, Len(x.node_path)) >= CompletedTasksHorizon
        /\ TasksOf(m_product, x, Len(x.node_path) - 1) < CompletedTasksHorizon
    BY <2>1, <2>2, GoalPathsDoTheirTasks
  <2> QED
    BY <2>4, <2>5 DEF x, entered
<1> QED
  BY <1>1, BooksAreKept, PTL

-----------------------------------------------------------------------------
(***************************************************************************)
(* The regret of an instance.                                              *)
(***************************************************************************)
\* Vectors of two numbers: costs and the means they are made of.
Vector == [Costs!Objectives -> Int]

\* The cost of a path under the true behavior is a vector.
LEMMA TrueCostsAreVectors ==
    ASSUME NEW p \in Products, NEW true_mean \in Means(p), NEW node, NEW horizon,
           NEW x \in TaskWalk(p, node, horizon)
    PROVE  TrueCost(p, true_mean, x) \in Vector
<1> DEFINE M == Vector
           vec == [i \in DOMAIN x.edge_path |-> i]
           V == {vec[k] : k \in DOMAIN vec}
           Op(m, k) == Costs!Plus(m, getElement(true_mean, p, x.node_path[k].base_node, x.edge_path[k]))
           step_of == [y \in M \X V |-> Op(y[1], y[2])]
<1>1. PICK n \in Nat : DOMAIN x.edge_path = 1 .. n
  BY DEF TaskWalk, Path
<1>2. DOMAIN vec = 1 .. n
  BY <1>1
<1>3. ASSUME NEW m \in M, NEW k \in V PROVE Op(m, k) \in M
  <2>1. k \in DOMAIN x.edge_path
    OBVIOUS
  <2>2. IsStep(p, x.node_path[k], x.edge_path[k], x.node_path[k + 1])
    BY <2>1 DEF TaskWalk, IsTaskWalk
  <2>3. <<ts_node(p, x.node_path[k].base_node), x.edge_path[k]>> \in NodeActionPair(p)
    BY <2>2 DEF IsStep
  <2> DEFINE mean == getElement(true_mean, p, x.node_path[k].base_node, x.edge_path[k])
  <2>4. mean \in Vector
    BY <2>3 DEF getElement, Means, Vector
  <2> HIDE DEF mean
  <2>5. Costs!Plus(m, mean) \in Vector
    BY <2>4 DEF Costs!Plus, Vector
  <2> QED
    BY <2>5 DEF mean
<1>4. Costs!Zero \in M
  BY DEF Costs!Zero, Vector
<1>5. TrueCost(p, true_mean, x) = FoldLeft(Op, Costs!Zero, vec)
  BY DEF TrueCost, FoldLeftDomain, FoldLeft, MapThenFoldSet
<1> HIDE DEF Op, M, vec
<1>6. ASSUME NEW m \in M, NEW k \in 1 .. n PROVE step_of[<<m, vec[k]>>] = Op(m, vec[k]) /\ vec[k] \in V
  <2>1. <<m, vec[k]>> \in M \X V /\ vec[k] \in V
    BY <1>2
  <2> HIDE DEF V
  <2> QED
    BY <2>1
<1>7. ASSUME NEW m \in M, NEW k \in 1 .. n PROVE step_of[<<m, vec[k]>>] \in M
  <2> HIDE DEF step_of, V
  <2> QED
    BY <1>3, <1>6
<1> HIDE DEF V
<1>8. PICK g : FoldSteps(step_of, Costs!Zero, vec, n, g) /\ \A T \in SUBSET (1 .. n) : g[T] \in M
  <2> HIDE DEF step_of
  <2> QED
    BY <1>4, <1>7, FoldStepsWithin
<1>9. g = [T \in SUBSET DOMAIN vec |-> IF T = {} THEN Costs!Zero ELSE Op(g[T \ {Max(T)}], vec[Max(T)])]
  <2> HIDE DEF step_of
  <2>1. ASSUME NEW T \in SUBSET (1 .. n), T # {}
        PROVE  step_of[<<g[T \ {Max(T)}], vec[Max(T)]>>] = Op(g[T \ {Max(T)}], vec[Max(T)])
    <3>1. Max(T) \in 1 .. n
      BY <2>1, GreatestNumber
    <3> QED
      BY <1>6, <1>8, <3>1
  <2> QED
    BY <1>2, <1>8, <2>1 DEF FoldSteps
<1>10. PICK h : /\ h = [T \in SUBSET DOMAIN vec |-> IF T = {} THEN Costs!Zero ELSE Op(h[T \ {Max(T)}], vec[Max(T)])]
                /\ FoldLeft(Op, Costs!Zero, vec) = h[DOMAIN vec]
  BY <1>9 DEF FoldLeft, MapThenFoldSet
<1>11. h[{}] \in M
  BY <1>4, <1>10
<1>12. ASSUME NEW T \in SUBSET (1 .. n), T # {}, h[T \ {Max(T)}] \in M PROVE h[T] \in M
  <2>1. Max(T) \in 1 .. n
    BY <1>12, GreatestNumber
  <2>2. h[T] = Op(h[T \ {Max(T)}], vec[Max(T)])
    BY <1>2, <1>10, <1>12
  <2>3. vec[Max(T)] \in V
    BY <1>6, <1>12, <2>1
  <2> QED
    BY <1>3, <1>12, <2>2, <2>3
<1>13. h[1 .. n] \in M
  <2>1. 1 .. n \in SUBSET (1 .. n)
    OBVIOUS
  <2> QED
    BY <1>11, <1>12, <2>1, FoldsWithin
<1> QED
  BY <1>2, <1>5, <1>10, <1>13 DEF M

\* The costs of the plans from a node are finitely many vectors.
LEMMA FiniteTrueCosts ==
    ASSUME NEW p \in Products, NEW true_mean \in Means(p), NEW node \in WideNode(p)
    PROVE  LET costs == {TrueCost(p, true_mean, x) : x \in GoalPaths(p, node, 1)}
           IN  IsFiniteSet(costs) /\ costs \in SUBSET Vector
<1> DEFINE S == GoalPaths(p, node, 1)
           f == [x \in S |-> TrueCost(p, true_mean, x)]
<1>1. S \in SUBSET TaskWalk(p, node, 1) /\ IsFiniteSet(S)
  BY GoalPathsAreWalks
<1> HIDE DEF S
<1>2. \A x \in S : TrueCost(p, true_mean, x) \in Vector
  BY <1>1, TrueCostsAreVectors
<1>3. IsFiniteSet({f[x] : x \in S})
  <2> HIDE DEF f
  <2> QED
    BY <1>1, FiniteImage
<1>4. {f[x] : x \in S} = {TrueCost(p, true_mean, x) : x \in S}
  OBVIOUS
<1> QED
  BY <1>2, <1>3, <1>4 DEF S

\* The order of the front: first by the first objective.
LEMMA TwoObjectives ==
    ASSUME NEW a \in Vector, NEW b \in Vector
    PROVE  /\ Costs!LexLess(a, b) <=> a[1] < b[1] \/ (a[1] = b[1] /\ a[2] < b[2])
           /\ Costs!Leq(a, b) <=> a[1] <= b[1] /\ a[2] <= b[2]
           /\ Costs!Dominates(a, b) <=> a[1] <= b[1] /\ a[2] <= b[2] /\ a # b
           /\ a = b <=> a[1] = b[1] /\ a[2] = b[2]
           /\ a[1] \in Int /\ a[2] \in Int
<1>1. Costs!Objectives = 1 .. 2 /\ 1 .. 2 = {1, 2}
  BY DEF Costs!Objectives
<1>2. a \in [{1, 2} -> Int] /\ b \in [{1, 2} -> Int]
  BY <1>1 DEF Vector
<1>3. Costs!Leq(a, b) <=> a[1] <= b[1] /\ a[2] <= b[2]
  BY <1>1 DEF Costs!Leq
<1>4. a = b <=> a[1] = b[1] /\ a[2] = b[2]
  BY <1>2
<1>5. Costs!Dominates(a, b) <=> a[1] <= b[1] /\ a[2] <= b[2] /\ a # b
  BY <1>3 DEF Costs!Dominates, Costs!dominates
<1>6. Costs!LexLess(a, b) <=> a[1] < b[1] \/ (a[1] = b[1] /\ a[2] < b[2])
  <2>1. 1 .. 1 - 1 = {} /\ 1 .. 2 - 1 = {1}
    OBVIOUS
  <2>2. Costs!LexLess(a, b) <=> \E k \in {1, 2} : a[k] < b[k] /\ \A j \in 1 .. k - 1 : a[j] = b[j]
    BY <1>1 DEF Costs!LexLess
  <2> QED
    BY <2>1, <2>2
<1> QED
  BY <1>2, <1>3, <1>4, <1>5, <1>6

\* Of finitely many numbers one is the least.
LEMMA SomeLeast ==
    ASSUME NEW S, IsFiniteSet(S), S # {}, NEW f \in [S -> Int]
    PROVE  \E x \in S : \A y \in S : f[x] <= f[y]
<1> DEFINE P == {T \in SUBSET S : T = {} \/ \E x \in T : \A y \in T : f[x] <= f[y]}
<1>1. {} \in P
  OBVIOUS
<1>2. ASSUME NEW T \in SUBSET S, T # {}, T \ {AnyOf(T)} \in P PROVE T \in P
  <2> DEFINE z == AnyOf(T)
  <2>1. z \in T
    BY <1>2 DEF AnyOf
  <2>2. \A y \in T : y \in S /\ f[y] \in Int
    OBVIOUS
  <2>3. T \ {z} \in P
    BY <1>2
  <2> HIDE DEF z
  <2>4. CASE T \ {z} = {}
    <3>1. \A y \in T : y = z
      BY <2>4
    <3>2. \A y \in T : f[z] <= f[y]
      BY <2>1, <2>2, <3>1
    <3> QED
      BY <2>1, <3>2
  <2>5. CASE T \ {z} # {}
    <3>1. PICK x \in T \ {z} : \A y \in T \ {z} : f[x] <= f[y]
      BY <2>3, <2>5
    <3>2. CASE f[x] <= f[z]
      <4>1. \A y \in T : f[x] <= f[y]
        BY <3>1, <3>2
      <4> QED
        BY <3>1, <4>1
    <3>3. CASE ~ (f[x] <= f[z])
      <4>1. \A y \in T : f[z] <= f[y]
        BY <2>1, <2>2, <3>1, <3>3
      <4> QED
        BY <2>1, <4>1
    <3> QED
      BY <3>2, <3>3
  <2> QED
    BY <2>4, <2>5
<1>3. \A T \in SUBSET S : T \in P
  <2> HIDE DEF P
  <2> QED
    BY <1>1, <1>2, MemberByMember
<1>4. S \in P
  BY <1>3
<1> QED
  BY <1>4

\* Of finitely many costs every one is as bad as one of the front.
LEMMA FrontIsBelow ==
    ASSUME NEW S \in SUBSET Vector, IsFiniteSet(S), NEW c0 \in S
    PROVE  \E d \in Costs!NonDominated(S) : Costs!Leq(d, c0)
<1> DEFINE B == {x \in S : Costs!Leq(x, c0)}
           f == [x \in B |-> x[1] + x[2]]
<1>1. c0 \in B
  BY TwoObjectives
<1>2. IsFiniteSet(B)
  BY FS_Subset
<1>3. \A x \in B : x[1] \in Int /\ x[2] \in Int
  BY TwoObjectives
<1>4. f \in [B -> Int] /\ \A x \in B : f[x] = x[1] + x[2]
  BY <1>3
<1> HIDE DEF f
<1>5. PICK d \in B : \A y \in B : f[d] <= f[y]
  <2>1. B # {}
    BY <1>1
  <2> HIDE DEF B
  <2> QED
    BY <1>2, <1>4, <2>1, SomeLeast
<1>6. ASSUME NEW e \in S, Costs!Dominates(e, d) PROVE FALSE
  <2>1. e[1] <= d[1] /\ e[2] <= d[2] /\ ~ (e[1] = d[1] /\ e[2] = d[2])
    BY <1>6, TwoObjectives
  <2>2. e[1] \in Int /\ e[2] \in Int /\ d[1] \in Int /\ d[2] \in Int /\ c0[1] \in Int /\ c0[2] \in Int
    BY TwoObjectives
  <2>3. d[1] <= c0[1] /\ d[2] <= c0[2]
    BY TwoObjectives
  <2>4. e[1] <= c0[1] /\ e[2] <= c0[2] /\ e[1] + e[2] < d[1] + d[2]
    BY <2>1, <2>2, <2>3
  <2>5. e \in B
    BY <2>4, TwoObjectives
  <2>6. f[d] <= f[e] /\ f[d] = d[1] + d[2] /\ f[e] = e[1] + e[2]
    BY <1>4, <1>5, <2>5
  <2> QED
    BY <2>2, <2>4, <2>6
<1>7. d \in Costs!NonDominated(S)
  BY <1>6 DEF Costs!NonDominated
<1> QED
  BY <1>7

\* The front lists the costs that no other dominates, each once.
LEMMA FrontIsListed ==
    ASSUME NEW S \in SUBSET Vector, IsFiniteSet(S)
    PROVE  \E n \in Nat : /\ DOMAIN ParetoFrontOf(S) = 1 .. n
                          /\ {ParetoFrontOf(S)[k] : k \in 1 .. n} = Costs!NonDominated(S)
<1> DEFINE front == Costs!NonDominated(S)
           n == Cardinality(front)
           before(point) == {d \in front : Costs!LexLess(d, point)}
           rank == [point \in front |-> Cardinality(before(point))]
           pf == ParetoFrontOf(S)
<1>1. front \in SUBSET Vector /\ IsFiniteSet(front)
  <2>1. front \in SUBSET S
    BY DEF Costs!NonDominated
  <2> QED
    BY <2>1, FS_Subset
<1>2. n \in Nat
  BY <1>1, FS_CardinalityType
<1>3. pf = [k \in 1 .. n |-> CHOOSE point \in front : Cardinality(before(point)) = k - 1]
  BY DEF ParetoFrontOf
<1> HIDE DEF front, pf
<1>4. ASSUME NEW a \in front, NEW b \in front, Costs!LexLess(a, b)
      PROVE  rank[a] < rank[b]
  <2>1. before(a) \in SUBSET before(b)
    <3>1. ASSUME NEW d \in front, Costs!LexLess(d, a) PROVE Costs!LexLess(d, b)
      <4>1. /\ d[1] \in Int /\ d[2] \in Int /\ a[1] \in Int /\ a[2] \in Int /\ b[1] \in Int /\ b[2] \in Int
            /\ d[1] < a[1] \/ (d[1] = a[1] /\ d[2] < a[2])
            /\ a[1] < b[1] \/ (a[1] = b[1] /\ a[2] < b[2])
        BY <1>1, <1>4, <3>1, TwoObjectives
      <4>2. d[1] < b[1] \/ (d[1] = b[1] /\ d[2] < b[2])
        BY <4>1
      <4> QED
        BY <1>1, <4>2, TwoObjectives
    <3> QED
      BY <3>1
  <2>2. a \in before(b) /\ a \notin before(a)
    <3>1. ~ Costs!LexLess(a, a)
      <4>1. a[1] \in Int /\ a[2] \in Int
        BY <1>1, TwoObjectives
      <4>2. ~ (a[1] < a[1] \/ (a[1] = a[1] /\ a[2] < a[2]))
        BY <4>1
      <4> QED
        BY <1>1, <4>2, TwoObjectives
    <3> QED
      BY <1>4, <3>1
  <2>3. IsFiniteSet(before(b)) /\ IsFiniteSet(before(a))
    BY <1>1, FS_Subset
  <2> DEFINE A == before(a)
             B == before(b)
  <2>4. A \in SUBSET B /\ A # B /\ IsFiniteSet(B) /\ IsFiniteSet(A)
    BY <2>1, <2>2, <2>3
  <2> HIDE DEF A, B
  <2>5. Cardinality(A) <= Cardinality(B) /\ Cardinality(A) # Cardinality(B)
    BY <2>4, FS_Subset
  <2>6. Cardinality(A) \in Nat /\ Cardinality(B) \in Nat
    BY <2>4, FS_CardinalityType
  <2>7. Cardinality(A) < Cardinality(B)
    BY <2>5, <2>6
  <2> QED
    BY <2>7 DEF A, B
<1>5. \A a \in front : rank[a] \in 0 .. n - 1
  <2> SUFFICES ASSUME NEW a \in front PROVE Cardinality(before(a)) \in 0 .. n - 1
    OBVIOUS
  <2>1. a \notin before(a)
    <3>1. a[1] \in Int /\ a[2] \in Int
      BY <1>1, TwoObjectives
    <3>2. ~ (a[1] < a[1] \/ (a[1] = a[1] /\ a[2] < a[2]))
      BY <3>1
    <3> QED
      BY <1>1, <3>2, TwoObjectives
  <2> DEFINE A == before(a)
  <2>2. A \in SUBSET front /\ A # front
    BY <2>1
  <2> HIDE DEF A
  <2>3. IsFiniteSet(A) /\ Cardinality(A) <= n /\ Cardinality(A) # n
    BY <1>1, <2>2, FS_Subset
  <2>4. Cardinality(A) \in Nat
    BY <2>3, FS_CardinalityType
  <2> HIDE DEF n
  <2>5. Cardinality(A) \in 0 .. n - 1
    BY <1>2, <2>3, <2>4
  <2> QED
    BY <2>5 DEF A
<1>6. \A a, b \in front : rank[a] = rank[b] => a = b
  <2> SUFFICES ASSUME NEW a \in front, NEW b \in front, a # b PROVE rank[a] # rank[b]
    OBVIOUS
  <2>1. Costs!LexLess(a, b) \/ Costs!LexLess(b, a)
    <3>1. /\ a[1] \in Int /\ a[2] \in Int /\ b[1] \in Int /\ b[2] \in Int
          /\ ~ (a[1] = b[1] /\ a[2] = b[2])
      BY <1>1, TwoObjectives
    <3>2. \/ a[1] < b[1] \/ (a[1] = b[1] /\ a[2] < b[2])
          \/ b[1] < a[1] \/ (b[1] = a[1] /\ b[2] < a[2])
      BY <3>1
    <3> QED
      BY <1>1, <3>2, TwoObjectives
  <2>2. rank[a] < rank[b] \/ rank[b] < rank[a]
    BY <1>4, <2>1
  <2>3. rank[a] \in Int /\ rank[b] \in Int
    BY <1>5
  <2> HIDE DEF rank
  <2> QED
    BY <2>2, <2>3
<1>7. IsFiniteSet(0 .. n - 1) /\ Cardinality(0 .. n - 1) = n
  <2>1. 0 \in Int /\ n - 1 \in Int /\ (0 > n - 1 => n = 0) /\ (n - 1) - 0 + 1 = n
    BY <1>2
  <2> HIDE DEF n
  <2> QED
    BY <2>1, FS_Interval
<1>8. ASSUME NEW r \in 0 .. n - 1 PROVE \E point \in front : Cardinality(before(point)) = r
  <2>1. rank \in Injection(front, 0 .. n - 1)
    BY <1>5, <1>6 DEF Injection, IsInjective
  <2>2. rank \in Surjection(front, 0 .. n - 1)
    <3> HIDE DEF rank
    <3> QED
      BY <1>7, <2>1, FS_Injection
  <2>3. \E point \in front : rank[point] = r
    <3> HIDE DEF rank
    <3> QED
      BY <2>2 DEF Surjection
  <2> QED
    BY <2>3
<1> HIDE DEF n
<1>9. ASSUME NEW k \in 1 .. n PROVE pf[k] \in front /\ Cardinality(before(pf[k])) = k - 1
  <2>1. k - 1 \in 0 .. n - 1
    BY <1>2
  <2>2. \E point \in front : Cardinality(before(point)) = k - 1
    BY <1>8, <2>1
  <2>3. pf[k] = CHOOSE point \in front : Cardinality(before(point)) = k - 1
    BY <1>3
  <2> QED
    BY <2>2, <2>3
<1>10. ASSUME NEW point \in front PROVE \E k \in 1 .. n : pf[k] = point
  <2> DEFINE r == rank[point]
  <2>1. r \in 0 .. n - 1
    BY <1>5
  <2> HIDE DEF r
  <2>2. r + 1 \in 1 .. n /\ (r + 1) - 1 = r
    BY <1>2, <2>1
  <2>3. pf[r + 1] \in front /\ Cardinality(before(pf[r + 1])) = r
    BY <1>9, <2>2
  <2>4. rank[pf[r + 1]] = rank[point]
    BY <2>3 DEF r
  <2>5. pf[r + 1] = point
    BY <1>6, <2>3, <2>4
  <2> QED
    BY <2>2, <2>5
<1>11. DOMAIN pf = 1 .. n
  BY <1>3
<1>12. {pf[k] : k \in 1 .. n} = front
  BY <1>9, <1>10
<1> QED
  BY <1>2, <1>11, <1>12 DEF pf, front

\* Moving a point down dominates moving it less.
LEMMA FurtherMoves ==
    ASSUME NEW point \in Vector, NEW a \in Int, NEW b \in Int
    PROVE  Costs!Dominates(Moved(point, a), Moved(point, b)) <=> b < a
<1>1. \A x \in Int : Moved(point, x) \in Vector /\ Moved(point, x)[1] = point[1] - x /\ Moved(point, x)[2] = point[2] - x
  <2>1. Costs!Objectives = {1, 2}
    BY DEF Costs!Objectives
  <2> QED
    BY <2>1 DEF Moved, Vector
<1>2. point[1] \in Int /\ point[2] \in Int
  BY TwoObjectives
<1> DEFINE A == Moved(point, a)
           B == Moved(point, b)
<1>3. A \in Vector /\ B \in Vector /\ A[1] = point[1] - a /\ A[2] = point[2] - a
      /\ B[1] = point[1] - b /\ B[2] = point[2] - b
  BY <1>1
<1> HIDE DEF A, B
<1>4. Costs!Dominates(A, B) <=> A[1] <= B[1] /\ A[2] <= B[2] /\ ~ (A[1] = B[1] /\ A[2] = B[2])
  BY <1>3, TwoObjectives
<1>5. A[1] <= B[1] /\ A[2] <= B[2] /\ ~ (A[1] = B[1] /\ A[2] = B[2]) <=> b < a
  <2> DEFINE u == point[1]
             v == point[2]
  <2>1. u \in Int /\ v \in Int
    BY <1>2
  <2> HIDE DEF u, v
  <2>2. u - a <= u - b /\ v - a <= v - b /\ ~ (u - a = u - b /\ v - a = v - b) <=> b < a
    BY <2>1
  <2> QED
    BY <1>3, <2>2 DEF u, v
<1> QED
  BY <1>4, <1>5 DEF A, B

\* The regret is the greatest of the smallest differences from the points of the
\* front that are no worse, or zero.
LEMMA RegretIsGreatest ==
    ASSUME NEW point \in Vector, NEW pf, NEW n \in Nat, DOMAIN pf = 1 .. n,
           \A k \in 1 .. n : pf[k] \in Vector
    PROVE  LET epsilon == regret(pf, point)
               found == {k \in 1 .. n : Costs!Leq(pf[k], point)}
           IN  /\ epsilon \in Int /\ epsilon >= 0
               /\ \A k \in found : SmallestDifference(point, pf[k]) <= epsilon
               /\ epsilon = 0 \/ \E k \in found : epsilon = SmallestDifference(point, pf[k])
<1> DEFINE V == {pf[k] : k \in 1 .. n}
           diff(x) == SmallestDifference(point, x)
           Op(m, x) == IF ~ Costs!Leq(x, point) THEN m
                       ELSE LET e == diff(x)
                            IN  IF Costs!Dominates(Moved(point, e), Moved(point, m)) THEN e ELSE m
           step_of == [y \in Int \X V |-> Op(y[1], y[2])]
           found(T) == {k \in T : Costs!Leq(pf[k], point)}
           Right(T, e) == /\ e \in Int /\ e >= 0
                          /\ \A k \in found(T) : diff(pf[k]) <= e
                          /\ e = 0 \/ \E k \in found(T) : e = diff(pf[k])
           W == {y \in (SUBSET (1 .. n)) \X Int : Right(y[1], y[2])}
<1>1. V \in SUBSET Vector /\ \A k \in 1 .. n : pf[k] \in V
  OBVIOUS
<1>2. \A x \in Vector : diff(x) \in Int
  <2> SUFFICES ASSUME NEW x \in Vector PROVE diff(x) \in Int
    OBVIOUS
  <2>1. point[1] \in Int /\ point[2] \in Int /\ x[1] \in Int /\ x[2] \in Int
    BY TwoObjectives
  <2> QED
    BY <2>1 DEF SmallestDifference
<1>3. regret(pf, point) = FoldLeft(Op, 0, pf)
  BY DEF regret, FoldLeft, MapThenFoldSet
<1> HIDE DEF diff
<1>4. ASSUME NEW m \in Int, NEW x \in V
      PROVE  Op(m, x) = IF Costs!Leq(x, point) /\ m < diff(x) THEN diff(x) ELSE m
  <2>1. diff(x) \in Int
    BY <1>1, <1>2
  <2>2. Costs!Dominates(Moved(point, diff(x)), Moved(point, m)) <=> m < diff(x)
    BY <2>1, FurtherMoves
  <2> QED
    BY <2>2
<1> HIDE DEF Op
<1>5. ASSUME NEW m \in Int, NEW x \in V PROVE Op(m, x) \in Int
  BY <1>1, <1>2, <1>4
<1>6. ASSUME NEW m \in Int, NEW k \in 1 .. n PROVE step_of[<<m, pf[k]>>] = Op(m, pf[k]) /\ pf[k] \in V
  <2>1. <<m, pf[k]>> \in Int \X V /\ pf[k] \in V
    OBVIOUS
  <2> HIDE DEF V
  <2> QED
    BY <2>1
<1>7. ASSUME NEW m \in Int, NEW k \in 1 .. n PROVE step_of[<<m, pf[k]>>] \in Int
  <2> HIDE DEF step_of, V
  <2> QED
    BY <1>5, <1>6
<1> HIDE DEF V
<1>8. PICK g : FoldSteps(step_of, 0, pf, n, g) /\ \A T \in SUBSET (1 .. n) : g[T] \in Int
  <2> DEFINE M == Int
             zero == 0
  <2>0. 0 \in Int
    OBVIOUS
  <2>1. zero \in M /\ \A m \in M, k \in 1 .. n : step_of[<<m, pf[k]>>] \in M
    <3> HIDE DEF step_of
    <3> QED
      BY <1>7, <2>0
  <2> HIDE DEF step_of, M, zero
  <2>2. \E g : FoldSteps(step_of, zero, pf, n, g) /\ \A T \in SUBSET (1 .. n) : g[T] \in M
    BY <2>1, FoldStepsWithin
  <2> QED
    BY <2>2 DEF M, zero
<1>9. g = [T \in SUBSET DOMAIN pf |-> IF T = {} THEN 0 ELSE Op(g[T \ {Max(T)}], pf[Max(T)])]
  <2> HIDE DEF step_of
  <2>1. ASSUME NEW T \in SUBSET (1 .. n), T # {}
        PROVE  step_of[<<g[T \ {Max(T)}], pf[Max(T)]>>] = Op(g[T \ {Max(T)}], pf[Max(T)])
    <3>1. Max(T) \in 1 .. n
      BY <2>1, GreatestNumber
    <3> QED
      BY <1>6, <1>8, <3>1
  <2> QED
    BY <1>8, <2>1 DEF FoldSteps
<1>10. PICK h : /\ h = [T \in SUBSET DOMAIN pf |-> IF T = {} THEN 0 ELSE Op(h[T \ {Max(T)}], pf[Max(T)])]
                /\ FoldLeft(Op, 0, pf) = h[DOMAIN pf]
  BY <1>9 DEF FoldLeft, MapThenFoldSet
<1> DEFINE hh == [T \in SUBSET (1 .. n) |-> <<T, h[T]>>]
<1>11. hh[{}] \in W
  <2>1. h[{}] = 0
    BY <1>10
  <2>2. Right({}, 0)
    OBVIOUS
  <2> QED
    BY <2>1, <2>2
<1>12. ASSUME NEW T \in SUBSET (1 .. n), T # {}, hh[T \ {Max(T)}] \in W PROVE hh[T] \in W
  <2> DEFINE m == Max(T)
             U == T \ {m}
             e == h[U]
             x == pf[m]
  <2>1. m \in T /\ m \in 1 .. n /\ U \in SUBSET (1 .. n) /\ T = U \cup {m}
    BY <1>12, GreatestNumber
  <2>2. h[T] = Op(e, x)
    BY <1>10, <1>12
  <2>3. Right(U, e)
    BY <1>12, <2>1
  <2>4. x \in V /\ diff(x) \in Int /\ e \in Int
    <3>1. x \in V
      BY <1>1, <2>1
    <3> QED
      BY <1>1, <1>2, <2>3, <3>1
  <2>5. Op(e, x) = IF Costs!Leq(x, point) /\ e < diff(x) THEN diff(x) ELSE e
    BY <1>4, <2>4
  <2>6. \A k \in found(U) : diff(pf[k]) \in Int
    <3> QED
      BY <1>1, <1>2, <2>1
  <2> HIDE DEF e, U, m, Right
  <2>7. CASE Costs!Leq(x, point) /\ e < diff(x)
    <3>1. h[T] = diff(x)
      BY <2>2, <2>5, <2>7
    <3>2. m \in found(T) /\ \A k \in found(T) : k \in found(U) \/ k = m
      BY <2>1, <2>7
    <3>3. \A k \in found(T) : diff(pf[k]) <= diff(x)
      <4>1. \A k \in found(U) : diff(pf[k]) <= e
        BY <2>3 DEF Right
      <4>2. \A k \in found(U) : diff(pf[k]) <= diff(x)
        BY <2>4, <2>6, <2>7, <4>1
      <4>3. diff(x) <= diff(x)
        BY <2>4
      <4> QED
        BY <3>2, <4>2, <4>3
    <3>4. diff(x) >= 0
      <4>1. e >= 0
        BY <2>3 DEF Right
      <4> QED
        BY <2>4, <2>7, <4>1
    <3>5. Right(T, diff(x))
      BY <2>4, <3>2, <3>3, <3>4 DEF Right
    <3> QED
      BY <2>4, <3>1, <3>5
  <2>8. CASE ~ (Costs!Leq(x, point) /\ e < diff(x))
    <3>1. h[T] = e
      BY <2>2, <2>5, <2>8
    <3>2. \A k \in found(U) : k \in found(T)
      BY <2>1
    <3>3. \A k \in found(T) : diff(pf[k]) <= e
      <4>1. \A k \in found(U) : diff(pf[k]) <= e
        BY <2>3 DEF Right
      <4>2. m \in found(T) => diff(pf[m]) <= e
        BY <2>4, <2>8
      <4> QED
        BY <2>1, <4>1, <4>2
    <3>4. e >= 0 /\ (e = 0 \/ \E k \in found(T) : e = diff(pf[k]))
      BY <2>3, <3>2 DEF Right
    <3>5. Right(T, e)
      BY <2>4, <3>3, <3>4 DEF Right
    <3> QED
      BY <2>4, <3>1, <3>5
  <2> QED
    BY <2>7, <2>8
<1>13. hh[1 .. n] \in W
  <2>1. 1 .. n \in SUBSET (1 .. n)
    OBVIOUS
  <2> HIDE DEF hh, W
  <2> QED
    BY <1>11, <1>12, <2>1, FoldsWithin
<1>14. Right(1 .. n, h[1 .. n])
  BY <1>13
<1> HIDE DEF Right
<1>15. Right(1 .. n, regret(pf, point))
  BY <1>3, <1>10, <1>14
<1> QED
  BY <1>15 DEF Right, diff

\* What the regret handler answered of an instance that started at node.
Regretted(p, true_mean, instance, node) ==
    /\ instance.paths[1].node_path[1].base_node = node
    /\ instance.m_regret[1] = regret(TrueFront(p, true_mean, node), instance.cost_sample)

\* The cache holds the fronts of its nodes, and what an instance says of its
\* regret is of the front of the node it started at.
RInv ==
    /\ \A entry \in m_pareto_front_cache : entry.pf = TrueFront(m_product, m_true_behavior, entry.node)
    /\ "m_regret" \in DOMAIN m_buffer_instance /\ ~ m_buffer_instance.m_regret[2]
    /\ \A i \in DOMAIN m_instances :
          m_instances[i].m_regret[2] =>
              \E node \in WideNode(m_product) : Regretted(m_product, m_true_behavior, m_instances[i], node)

\* What the regrets are about.
Gathered ==
    <<m_product, m_true_behavior, m_pareto_front_cache, m_instances, m_buffer_instance.m_regret,
      DOMAIN m_buffer_instance>>

\* A step that changes nothing of it keeps the regrets.
LEMMA GatheredKept ==
    ASSUME RInv, UNCHANGED Gathered
    PROVE  RInv'
  BY DEF RInv, Gathered, Regretted

\* So does one that gives the instance under way a cost or distributions.
LEMMA AnotherCost ==
    ASSUME RInv, UNCHANGED <<m_product, m_true_behavior, m_pareto_front_cache, m_instances>>,
           NEW v, \/ m_buffer_instance' = [m_buffer_instance EXCEPT !.cost_sample = v]
                  \/ m_buffer_instance' = [m_buffer_instance EXCEPT !.trajectory_distributions = v]
    PROVE  RInv'
<1>1. "m_regret" \in DOMAIN m_buffer_instance
  BY DEF RInv
<1>2. m_buffer_instance'.m_regret = m_buffer_instance.m_regret /\ DOMAIN m_buffer_instance' = DOMAIN m_buffer_instance
  BY <1>1
<1> QED
  BY <1>2, GatheredKept DEF Gathered

\* The regret of an instance is that of the node it started at, whatever is in
\* the cache.
LEMMA FinishKeepsRInv ==
    ASSUME IInv, BInv, RInv, NEW calc_regret, FinishInstance(calc_regret)
    PROVE  RInv'
<1> DEFINE data == Finished(calc_regret)
           node == m_current_product_node
           front(n) == TrueFront(m_product, m_true_behavior, n)
<1>1. /\ phase = "executing" /\ m_instances' = Append(m_instances, data)
      /\ m_buffer_instance' = NewInstance /\ UNCHANGED <<m_product, m_true_behavior>>
      /\ m_pareto_front_cache' =
           m_pareto_front_cache \cup
           (IF calc_regret THEN {[node |-> starting_node, pf |-> FrontFrom(starting_node)]} ELSE {})
  BY DEF FinishInstance
<1>2. starting_node = node /\ node \in WideNode(m_product)
  <2>1. result.solution_set \in Seq(GoalPaths(m_product, m_current_product_node, CompletedTasksHorizon))
        /\ result.solution_set # <<>>
    BY <1>1 DEF BInv, Planned, Searched
  <2>2. result.solution_set[1] \in Range(result.solution_set)
    BY <2>1 DEF Range
  <2>3. result.solution_set[1].node_path[1] = initial_node(m_current_product_node)
    BY <1>1, <2>2 DEF IInv, SearchedFromHere, Searched
  <2>4. initial_node(m_current_product_node).base_node = m_current_product_node
    BY DEF initial_node, TaskHistoryNode
  <2> QED
    BY <2>3, <2>4 DEF starting_node, BInv, Learned
<1>3. FrontFrom(starting_node) = front(node)
  <2>1. CASE \E entry \in m_pareto_front_cache : entry.node = node
    BY <1>2, <2>1 DEF FrontFrom, RInv
  <2>2. CASE ~ \E entry \in m_pareto_front_cache : entry.node = node
    BY <1>2, <2>2 DEF FrontFrom
  <2> QED
    BY <2>1, <2>2
<1>4. ASSUME data.m_regret[2] PROVE data.m_regret[1] = regret(front(node), data.cost_sample)
  <2>1. calc_regret
    <3>1. ~ calc_regret => data.m_regret = m_buffer_instance.m_regret
      BY DEF Finished
    <3> HIDE DEF data
    <3> QED
      BY <1>4, <3>1 DEF RInv
  <2>2. data.m_regret = <<regret(FrontFrom(starting_node), m_buffer_instance.cost_sample), TRUE>>
        /\ data.cost_sample = m_buffer_instance.cost_sample
    BY <2>1 DEF Finished
  <2> HIDE DEF data
  <2> QED
    BY <1>3, <2>2
<1>5. data.paths[1].node_path[1].base_node = node
  <2>1. data.paths = result.solution_set
    BY DEF Finished
  <2> QED
    BY <1>2, <2>1 DEF starting_node
<1> HIDE DEF data
<1>6. ASSUME data.m_regret[2] PROVE Regretted(m_product, m_true_behavior, data, node)
  BY <1>4, <1>5, <1>6 DEF Regretted
<1>7. PICK n \in Nat : DOMAIN m_instances = 1 .. n /\ DOMAIN m_instances' = 1 .. n + 1
                       /\ m_instances'[n + 1] = data /\ \A i \in 1 .. n : m_instances'[i] = m_instances[i]
  <2>1. PICK S : m_instances \in Seq(S)
    BY DEF IInv, InstancesAreListed
  <2>2. Len(m_instances) \in Nat /\ DOMAIN m_instances = 1 .. Len(m_instances)
    BY <2>1
  <2>3. m_instances \in Seq(S \cup {data}) /\ data \in S \cup {data}
    BY <2>1
  <2>4. /\ Len(m_instances') = Len(m_instances) + 1 /\ DOMAIN m_instances' = 1 .. Len(m_instances')
        /\ m_instances'[Len(m_instances) + 1] = data
        /\ \A i \in 1 .. Len(m_instances) : m_instances'[i] = m_instances[i]
    BY <1>1, <2>3
  <2> QED
    BY <2>2, <2>4
<1>8. ASSUME NEW i \in DOMAIN m_instances', m_instances'[i].m_regret[2]
      PROVE  \E m \in WideNode(m_product) : Regretted(m_product, m_true_behavior, m_instances'[i], m)
  <2>1. i \in 1 .. n \/ i = n + 1
    BY <1>7
  <2>2. CASE i = n + 1
    BY <1>2, <1>6, <1>7, <1>8, <2>2
  <2>3. CASE i \in 1 .. n
    <3>1. PICK m \in WideNode(m_product) : Regretted(m_product, m_true_behavior, m_instances[i], m)
      BY <1>7, <1>8, <2>3 DEF RInv
    <3> QED
      BY <1>7, <2>3, <3>1
  <2> QED
    BY <2>1, <2>2, <2>3
<1>9. \A entry \in m_pareto_front_cache' : entry.pf = front(entry.node)
  BY <1>1, <1>2, <1>3 DEF RInv
<1>10. "m_regret" \in DOMAIN NewInstance /\ ~ NewInstance.m_regret[2]
  BY DEF NewInstance
<1>11. ASSUME NEW i \in DOMAIN m_instances', m_instances'[i].m_regret[2]
       PROVE  \E m \in WideNode(m_product') : Regretted(m_product', m_true_behavior', m_instances'[i], m)
  BY <1>1, <1>8, <1>11
<1>12. \A entry \in m_pareto_front_cache' : entry.pf = TrueFront(m_product', m_true_behavior', entry.node)
  BY <1>1, <1>9
<1>13. "m_regret" \in DOMAIN m_buffer_instance' /\ ~ m_buffer_instance'.m_regret[2]
  BY <1>1, <1>10
<1> QED
  BY <1>11, <1>12, <1>13 DEF RInv

\* Every step keeps the regrets.
LEMMA StepKeepsRInv == IInv /\ BInv /\ RInv /\ [Next]_vars => RInv'
<1> SUFFICES ASSUME IInv, BInv, RInv, [Next]_vars PROVE RInv'
  OBVIOUS
<1>0. ASSUME UNCHANGED <<m_product, m_true_behavior, data_vars>> PROVE RInv'
  BY <1>0, GatheredKept DEF data_vars, Gathered
<1>1. CASE Parse
  BY <1>0, <1>1 DEF Parse, learner_vars
<1>2. CASE Construct
  BY <1>0, <1>2 DEF Construct, learner_vars
<1>3. CASE StartTrial
  <2>1. /\ m_pareto_front_cache' = {} /\ m_instances' = <<>> /\ m_buffer_instance' = NewInstance
        /\ UNCHANGED <<m_product, m_true_behavior>>
    BY <1>3 DEF StartTrial, initialize
  <2>2. "m_regret" \in DOMAIN NewInstance /\ ~ NewInstance.m_regret[2]
    BY DEF NewInstance
  <2> QED
    BY <2>1, <2>2 DEF RInv
<1>4. CASE Run
  <2>1. CASE Search(get("instances"))
    BY <1>0, <2>1 DEF Search
  <2>2. CASE StopRunning(get("instances"))
    BY <1>0, <2>2 DEF StopRunning, learner_vars
  <2>3. CASE Select(getSelector(get("selector")))
    BY <2>3, AnotherCost DEF Select, HoldDistributions
  <2>4. CASE Evaluate(getSelector(get("selector")), get("efe-samples"))
    BY <1>0, <2>4 DEF Evaluate
  <2>5. CASE Await
    BY <1>0, <2>5 DEF Await, learner_vars
  <2>6. CASE Compare(get("efe-samples"))
    BY <1>0, <2>6 DEF Compare
  <2>7. CASE SelectAif
    BY <2>7, AnotherCost DEF SelectAif, HoldDistributions
  <2>8. CASE Execute
    <3>1. PICK sample : m_buffer_instance' = [m_buffer_instance EXCEPT !.cost_sample = Costs!Plus(@, sample)]
      BY <2>8 DEF Execute
    <3>2. UNCHANGED <<m_product, m_true_behavior, m_pareto_front_cache, m_instances>>
      BY <2>8 DEF Execute
    <3> DEFINE v == Costs!Plus(m_buffer_instance.cost_sample, sample)
    <3>3. m_buffer_instance' = [m_buffer_instance EXCEPT !.cost_sample = v]
      BY <3>1
    <3> HIDE DEF v
    <3> QED
      BY <3>2, <3>3, AnotherCost
  <2>9. CASE FinishInstance(has("regret"))
    BY <2>9, FinishKeepsRInv
  <2> QED
    BY <1>4, <2>1, <2>2, <2>3, <2>4, <2>5, <2>6, <2>7, <2>8, <2>9 DEF Run, LearnerStep
<1>5. CASE NoWeight
  BY <1>0, <1>5 DEF NoWeight, learner_vars
<1>6. CASE Report
  BY <1>0, <1>6 DEF Report, learner_vars
<1>7. CASE Finish
  BY <1>0, <1>7 DEF Finish, learner_vars
<1>8. ASSUME NEW t \in Thread, Worker(t) PROVE RInv'
  BY <1>0, <1>8 DEF Worker, Work, learner_vars
<1>9. CASE UNCHANGED vars
  BY <1>0, <1>9 DEF vars, learner_vars
<1> QED
  BY <1>1, <1>2, <1>3, <1>4, <1>5, <1>6, <1>7, <1>8, <1>9 DEF Next, Main, Terminated

\* The regret of a cost is how far it is from the front: moved down by it, no
\* plan is better in both objectives, and moved less one is.
LEMMA RegretReachesTheFront ==
    ASSUME NEW S \in SUBSET Vector, IsFiniteSet(S), NEW point \in Vector
    PROVE  LET epsilon == regret(ParetoFrontOf(S), point)
               below(e) == \E c0 \in S : \A d \in Costs!Objectives : c0[d] < point[d] - e
           IN  /\ ~ below(epsilon)
               /\ epsilon > 0 => below(epsilon - 1)
<1> DEFINE pf == ParetoFrontOf(S)
           epsilon == regret(pf, point)
           below(e) == \E c0 \in S : \A d \in Costs!Objectives : c0[d] < point[d] - e
           front == Costs!NonDominated(S)
<1>1. PICK n \in Nat : DOMAIN pf = 1 .. n /\ {pf[k] : k \in 1 .. n} = front
  BY FrontIsListed
<1>2. front \in SUBSET S
  BY DEF Costs!NonDominated
<1> HIDE DEF pf, front
<1>3. \A k \in 1 .. n : pf[k] \in Vector /\ pf[k] \in S
  BY <1>1, <1>2
<1> DEFINE found == {k \in 1 .. n : Costs!Leq(pf[k], point)}
<1>4. /\ epsilon \in Int /\ epsilon >= 0
      /\ \A k \in found : SmallestDifference(point, pf[k]) <= epsilon
      /\ epsilon = 0 \/ \E k \in found : epsilon = SmallestDifference(point, pf[k])
  BY <1>1, <1>3, RegretIsGreatest
<1> HIDE DEF epsilon
<1>5. Costs!Objectives = {1, 2}
  BY DEF Costs!Objectives
<1>6. \A x \in Vector : x[1] \in Int /\ x[2] \in Int
  BY TwoObjectives
<1>7. ASSUME NEW x \in Vector
      PROVE  /\ SmallestDifference(point, x) <= point[1] - x[1]
             /\ SmallestDifference(point, x) <= point[2] - x[2]
             /\ SmallestDifference(point, x) \in {point[1] - x[1], point[2] - x[2]}
  <2>1. x[1] \in Int /\ x[2] \in Int /\ point[1] \in Int /\ point[2] \in Int
    BY <1>6
  <2> QED
    BY <2>1 DEF SmallestDifference
<1>8. ~ below(epsilon)
  <2> SUFFICES ASSUME NEW c0 \in S, \A d \in Costs!Objectives : c0[d] < point[d] - epsilon PROVE FALSE
    OBVIOUS
  <2>1. c0[1] < point[1] - epsilon /\ c0[2] < point[2] - epsilon
    BY <1>5
  <2>2. PICK x \in front : Costs!Leq(x, c0)
    BY FrontIsBelow DEF front
  <2>3. PICK k \in 1 .. n : pf[k] = x
    BY <1>1
  <2>4. x \in Vector /\ c0 \in Vector
    BY <1>2
  <2>5. x[1] <= c0[1] /\ x[2] <= c0[2]
    BY <2>2, <2>4, TwoObjectives
  <2>6. x[1] < point[1] - epsilon /\ x[2] < point[2] - epsilon /\ x[1] <= point[1] /\ x[2] <= point[2]
    <3>1. /\ x[1] \in Int /\ x[2] \in Int /\ c0[1] \in Int /\ c0[2] \in Int /\ point[1] \in Int /\ point[2] \in Int
          /\ epsilon \in Int /\ epsilon >= 0
      BY <1>4, <1>6, <2>4
    <3> QED
      BY <2>1, <2>5, <3>1
  <2>7. k \in found
    BY <2>3, <2>4, <2>6, TwoObjectives
  <2>8. SmallestDifference(point, x) <= epsilon
    BY <1>4, <2>3, <2>7
  <2>9. /\ x[1] \in Int /\ x[2] \in Int /\ point[1] \in Int /\ point[2] \in Int /\ epsilon \in Int
        /\ SmallestDifference(point, x) \in {point[1] - x[1], point[2] - x[2]}
    BY <1>4, <1>6, <1>7, <2>4
  <2> QED
    BY <2>6, <2>8, <2>9
<1>9. ASSUME epsilon > 0 PROVE below(epsilon - 1)
  <2>1. epsilon # 0
    BY <1>4, <1>9
  <2>2. PICK k \in found : epsilon = SmallestDifference(point, pf[k])
    BY <1>4, <2>1
  <2> DEFINE x == pf[k]
  <2>3. x \in Vector /\ x \in S
    BY <1>3
  <2>4. epsilon <= point[1] - x[1] /\ epsilon <= point[2] - x[2]
    BY <1>7, <2>2, <2>3
  <2>5. x[1] \in Int /\ x[2] \in Int /\ point[1] \in Int /\ point[2] \in Int
    BY <1>6, <2>3
  <2> HIDE DEF x
  <2>6. x[1] < point[1] - (epsilon - 1) /\ x[2] < point[2] - (epsilon - 1)
    BY <1>4, <2>4, <2>5
  <2>7. \A d \in Costs!Objectives : x[d] < point[d] - (epsilon - 1)
    BY <1>5, <2>6
  <2> QED
    BY <2>3, <2>7
<1> QED
  BY <1>8, <1>9 DEF epsilon, pf

\* The regrets stay right in every behavior.
LEMMA RegretsAreKept == Spec => [](BInv /\ RInv)
<1>1. Init => IInv /\ BInv
  BY InitHasIInv, InitHasBInv
<1>2. Init => RInv
  <2> SUFFICES ASSUME Init PROVE RInv
    OBVIOUS
  <2>1. m_pareto_front_cache = {} /\ m_instances = <<>> /\ m_buffer_instance = NewInstance
    BY DEF Init
  <2>2. "m_regret" \in DOMAIN NewInstance /\ ~ NewInstance.m_regret[2]
    BY DEF NewInstance
  <2> QED
    BY <2>1, <2>2 DEF RInv
<1>3. IInv /\ [Next]_vars => IInv'
  BY StepKeepsIInv
<1> QED
  BY <1>1, <1>2, <1>3, StepKeepsBInv, StepKeepsRInv, PTL DEF Spec

\* In every world and over any number of instances, the regret of a finished
\* instance is the least amount its cost would have to fall by, in both
\* objectives, for no plan from the node it started at to be better in both -
\* whatever earlier instances put into the cache of fronts (Regret.h:26,
\* ParetoFront.h:39).
THEOREM RegretsAreExact == Spec => []RegretIsExact
<1>1. BInv /\ RInv => RegretIsExact
  <2> SUFFICES ASSUME BInv, RInv, NEW i \in DOMAIN m_instances, m_instances[i].m_regret[2]
               PROVE  LET data == m_instances[i]
                          below(e) == \E c0 \in TrueCosts(data.paths[1].node_path[1].base_node) :
                                        \A d \in Costs!Objectives : c0[d] < data.cost_sample[d] - e
                      IN  ~ below(data.m_regret[1]) /\ (data.m_regret[1] > 0 => below(data.m_regret[1] - 1))
    BY DEF RegretIsExact
  <2> DEFINE data == m_instances[i]
             point == data.cost_sample
  <2>1. PICK node \in WideNode(m_product) : Regretted(m_product, m_true_behavior, data, node)
    BY DEF RInv
  <2> DEFINE S == {TrueCost(m_product, m_true_behavior, x) : x \in GoalPaths(m_product, node, 1)}
  <2>2. IsFiniteSet(S) /\ S \in SUBSET Vector
    BY FiniteTrueCosts DEF BInv, Settings
  <2>3. point \in Vector
    <3>1. point \in Costs!CostVector
      BY DEF BInv, Collected
    <3> QED
      BY <3>1 DEF Costs!CostVector, Vector
  <2>4. TrueCosts(data.paths[1].node_path[1].base_node) = S
    BY <2>1 DEF TrueCosts, Regretted
  <2>5. data.m_regret[1] = regret(ParetoFrontOf(S), point)
    BY <2>1 DEF Regretted, TrueFront
  <2> HIDE DEF S, data, point
  <2> DEFINE epsilon == regret(ParetoFrontOf(S), point)
             below(e) == \E c0 \in S : \A d \in Costs!Objectives : c0[d] < point[d] - e
  <2>6. ~ below(epsilon) /\ (epsilon > 0 => below(epsilon - 1))
    BY <2>2, <2>3, RegretReachesTheFront
  <2> QED
    BY <2>4, <2>5, <2>6 DEF data, point
<1> QED
  BY <1>1, RegretsAreKept, PTL
=============================================================================
