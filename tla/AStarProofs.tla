----------------------------- MODULE AStarProofs -----------------------------
(***************************************************************************)
(* AStar keeps its invariants and the promise of OptimalSearch for every   *)
(* graph, every set of initial and goal nodes and every admissible         *)
(* heuristic.  The argument is the one behind A*: every label is waiting,  *)
(* being expanded or fully offered (NoLabelForgotten), so along a cheapest *)
(* walk to a goal some element of the open set costs no more than the walk *)
(* (OpenBelowCostToGo); the element popped first costs no more than that.  *)
(* The path followed back from a goal costs no more than the goal's label  *)
(* and no less than the least cost, so exactly what is returned.           *)
(***************************************************************************)
EXTENDS AStar, TLAPS, WellFoundedInduction

-----------------------------------------------------------------------------
(***************************************************************************)
(* Natural numbers: a nonempty set of them has a least element.            *)
(***************************************************************************)
NatLess == {ss \in Nat \X Nat : ss[1] < ss[2]}

\* Every nonempty set of naturals has a least element (used to pick the node
\* of a walk that is nearest to the goal).
LEMMA NatLeastElement ==
    ASSUME NEW T \in SUBSET Nat, T # {}
    PROVE  \E x \in T : \A y \in T : x <= y
<1>1. OpToRel(<, Nat) = NatLess
  BY Zenon DEF OpToRel, NatLess
<1>2. IsWellFoundedOn(NatLess, Nat)
  BY NatLessThanWellFounded, <1>1, Zenon
<1>3. \E x \in T : \A y \in T : <<y, x>> \notin NatLess
  BY <1>2, WFMin, Zenon
<1>4. PICK x \in T : \A y \in T : <<y, x>> \notin NatLess
  BY <1>3
<1>5. ASSUME NEW y \in T PROVE x <= y
  <2>1. x \in Nat /\ y \in Nat
    OBVIOUS
  <2>2. <<y, x>> \notin NatLess
    BY <1>4, <1>5
  <2>3. ~ (y < x)
    BY <2>1, <2>2, SMT DEF NatLess
  <2>. QED
    BY <2>1, <2>3, SMT
<1>. QED
  BY <1>5

-----------------------------------------------------------------------------
(***************************************************************************)
(* What the assumption on the problems gives, in the form the steps use.   *)
(***************************************************************************)

\* The edges of a problem's graph are edges between nodes.
LEMMA ProblemFacts ==
    ASSUME NEW p \in Problems
    PROVE  /\ p.initialNodes \in SUBSET Nodes
           /\ p.initialNodes # {}
           /\ \A n \in Nodes : hScore(p, n) \in Nat
           /\ \A n \in Nodes : neighborEdges(p, n) \in Seq(Edge)
           /\ \A n \in Nodes : \A k \in DOMAIN neighborEdges(p, n) :
                 /\ k \in Nat
                 /\ neighborEdges(p, n)[k] \in Edge
                 /\ neighborEdges(p, n)[k] \in Range(neighborEdges(p, n))
           /\ \A n \in Nodes : \A e \in Range(neighborEdges(p, n)) : e \in Edge
<1>1. IsProblem(p)
  BY ProblemAssumption
<1>. QED
  BY <1>1 DEF IsProblem, hScore, neighborEdges, Range

-----------------------------------------------------------------------------
(***************************************************************************)
(* Type correctness.                                                       *)
(***************************************************************************)

\* Init establishes TypeOK.
LEMMA InitTypeOK == Init => TypeOK
<1>. SUFFICES ASSUME Init PROVE TypeOK
  OBVIOUS
<1>1. /\ problem.initialNodes \in SUBSET Nodes
      /\ problem.initialNodes # {}
  BY ProblemFacts DEF Init
<1>2. curr_node \in problem.initialNodes
  BY <1>1 DEF Init
<1>3. /\ DOMAIN g_score = problem.initialNodes
      /\ DOMAIN parent_map = {}
      /\ parent_map \in [{} -> [node : Nodes, edge : Edge]]
  BY DEF Init
<1>4. result \in [success : BOOLEAN, cost : Nat,
                  node_path : Seq(Nodes), edge_path : Seq(Edge)]
  BY DEF Init, NoResult
<1>5. /\ open_set \in SUBSET OpenSetElement
      /\ \A e \in open_set : e.node \in DOMAIN g_score
      /\ g_score \in [DOMAIN g_score -> Nat]
  BY <1>1, <1>3 DEF Init, OpenSetElement
<1>. QED
  BY <1>1, <1>2, <1>3, <1>4, <1>5 DEF Init, TypeOK

\* The neighbor being relaxed is a node reached by an edge of curr_node.
LEMMA NeighborFacts ==
    ASSUME TypeOK, MoreNeighbors
    PROVE  /\ curr_node \in Nodes
           /\ i \in DOMAIN neighborEdges(problem, curr_node)
           /\ ToNeighbor \in Edge
           /\ ToNeighbor \in Range(neighborEdges(problem, curr_node))
           /\ ToNeighbor.to \in Nodes
           /\ ToNeighbor.cost \in Nat
           /\ g_score[curr_node] \in Nat
           /\ tentative_g_score = g_score[curr_node] + ToNeighbor.cost
           /\ tentative_g_score \in Nat
<1>1. curr_node \in Nodes /\ g_score[curr_node] \in Nat /\ problem \in Problems
  BY DEF TypeOK
<1>2. ToNeighbor \in Edge /\ ToNeighbor \in Range(neighborEdges(problem, curr_node))
  BY <1>1, ProblemFacts DEF MoreNeighbors, ToNeighbor
<1>3. ToNeighbor.to \in Nodes /\ ToNeighbor.cost \in Nat
  BY <1>2 DEF Edge
<1>. QED
  BY <1>1, <1>2, <1>3 DEF MoreNeighbors, tentative_g_score, gScore

\* Every step of the search preserves TypeOK.
LEMMA NextTypeOK == TypeOK /\ [Next]_vars => TypeOK'
<1>. SUFFICES ASSUME TypeOK, [Next]_vars PROVE TypeOK'
  OBVIOUS
<1>1. CASE SkipStale
  BY <1>1 DEF SkipStale, TypeOK
<1>2. CASE ReachGoal
  <2>1. PICK e \in open_set :
          /\ curr_node' = e.node
          /\ open_set' = open_set \ {e}
          /\ result' = [success |-> TRUE, cost |-> g_score[e.node],
                        node_path |-> <<e.node>>, edge_path |-> <<>>]
    BY <1>2 DEF ReachGoal
  <2>2. e.node \in DOMAIN g_score /\ e.node \in Nodes /\ g_score[e.node] \in Nat
    BY DEF TypeOK
  <2>3. result' \in [success : BOOLEAN, cost : Nat,
                     node_path : Seq(Nodes), edge_path : Seq(Edge)]
    BY <2>1, <2>2
  <2>. QED
    BY <1>2, <2>1, <2>2, <2>3 DEF ReachGoal, TypeOK
<1>3. CASE Expand
  BY <1>3 DEF Expand, TypeOK
<1>4. CASE Relax
  <2>. DEFINE nb == ToNeighbor.to
              connection == [node |-> curr_node, edge |-> ToNeighbor]
  <2>1. /\ nb \in Nodes
        /\ tentative_g_score \in Nat
        /\ connection \in [node : Nodes, edge : Edge]
        /\ ToNeighbor \in Range(neighborEdges(problem, curr_node))
    BY <1>4, NeighborFacts DEF Relax
  <2>2. /\ DOMAIN g_score' = DOMAIN g_score \cup {nb}
        /\ g_score' \in [DOMAIN g_score' -> Nat]
    BY <1>4, <2>1 DEF Relax, Assign, TypeOK
  <2>3. /\ DOMAIN parent_map' = DOMAIN parent_map \cup {nb}
        /\ parent_map'[nb] = connection
        /\ \A n \in DOMAIN parent_map : n # nb => parent_map'[n] = parent_map[n]
        /\ parent_map' \in [DOMAIN parent_map' -> [node : Nodes, edge : Edge]]
    BY <1>4, <2>1 DEF Relax, Assign, TypeOK
  <2>4. \A n \in DOMAIN parent_map' :
          /\ parent_map'[n].node \in DOMAIN g_score'
          /\ parent_map'[n].edge \in Range(neighborEdges(problem, parent_map'[n].node))
          /\ parent_map'[n].edge.to = n
    BY <2>1, <2>2, <2>3 DEF TypeOK
  <2>5. /\ open_set' \in SUBSET OpenSetElement
        /\ \A e \in open_set' : e.node \in DOMAIN g_score'
    BY <1>4, <2>1, <2>2 DEF Relax, TypeOK, OpenSetElement
  <2>6. i' \in Nat \ {0}
    BY <1>4 DEF Relax, TypeOK
  <2>7. /\ problem' = problem /\ pc' = pc /\ curr_node' = curr_node /\ result' = result
    BY <1>4 DEF Relax
  <2>. QED
    BY <2>1, <2>2, <2>3, <2>4, <2>5, <2>6, <2>7 DEF TypeOK
<1>5. CASE KeepNeighbor
  BY <1>5 DEF KeepNeighbor, TypeOK
<1>6. CASE EndNeighbors
  BY <1>6 DEF EndNeighbors, TypeOK
<1>7. CASE Fail
  BY <1>7 DEF Fail, TypeOK
<1>8. CASE FollowParent
  <2>. DEFINE c == parent_map[curr_node]
  <2>1. c.node \in DOMAIN g_score /\ c.node \in Nodes /\ c.edge \in Edge
    BY <1>8 DEF FollowParent, TypeOK
  <2>2. /\ <<c.node>> \o result.node_path \in Seq(Nodes)
        /\ <<c.edge>> \o result.edge_path \in Seq(Edge)
    BY <2>1 DEF TypeOK
  <2>3. result' \in [success : BOOLEAN, cost : Nat,
                     node_path : Seq(Nodes), edge_path : Seq(Edge)]
    BY <1>8, <2>2 DEF FollowParent, TypeOK
  <2>. QED
    BY <1>8, <2>1, <2>3 DEF FollowParent, TypeOK
<1>9. CASE EndExtract
  BY <1>9 DEF EndExtract, TypeOK
<1>10. CASE UNCHANGED vars
  BY <1>10 DEF vars, TypeOK
<1>. QED
  BY <1>1, <1>2, <1>3, <1>4, <1>5, <1>6, <1>7, <1>8, <1>9, <1>10 DEF Next

\* Type correctness of the search: every variable keeps its type, and the search
\* tree only ever holds edges of the graph between labelled nodes.
THEOREM TypeCorrect == Spec => []TypeOK
<1>. QED
  BY InitTypeOK, NextTypeOK, PTL DEF Spec
-----------------------------------------------------------------------------
(***************************************************************************)
(* The inductive invariant.  Two facts are added to the properties the     *)
(* runs check: no label is lower than what a walk from an initial node     *)
(* costs (stated against the reference, so that no walk is mentioned), and *)
(* what result holds at each place of the program.                         *)
(***************************************************************************)
Reference == CostToGo(problem)
Reaching == DOMAIN Reference.cost
SolvableNodes == problem.initialNodes \cap Reaching

\* Where the label of a node plus its cost-to-go is a cost of the problem, it is
\* no less than the cost-to-go of some initial node.
LabelsAreCosts ==
    \A n \in DOMAIN g_score : n \in Reaching =>
      \E s \in SolvableNodes : Reference.cost[s] <= g_score[n] + Reference.cost[n]

IsLeastCost(c) ==
    \E s \in SolvableNodes : /\ c = Reference.cost[s]
                             /\ \A t \in SolvableNodes : c <= Reference.cost[t]

ResultIsRight ==
    /\ pc \in {"loop", "neighbors"} => ~ result.success /\ result.cost = 0
    /\ pc = "extract" => result.success
    /\ pc \in {"extract", "returned"} =>
         IF result.success THEN IsLeastCost(result.cost)
         ELSE result.cost = 0 /\ SolvableNodes = {}

IInv ==
    /\ TypeOK
    /\ InsertedScoreNotBelowLabel
    /\ TreeBoundsLabels
    /\ NoLabelForgotten
    /\ LabelsAreCosts
    /\ ResultIsRight

-----------------------------------------------------------------------------
(***************************************************************************)
(* The reference and the neighbor being relaxed.                           *)
(***************************************************************************)

\* What IsCostToGo and Admissible say of the problem being searched.
LEMMA ReferenceFacts ==
    ASSUME TypeOK
    PROVE  /\ Reaching \in SUBSET Nodes
           /\ \A n \in Reaching : Reference.cost[n] \in Nat /\ Reference.hops[n] \in Nat
           /\ \A n \in Nodes : goal(problem, n) => n \in Reaching /\ Reference.cost[n] = 0
           /\ \A n \in Nodes : \A k \in DOMAIN neighborEdges(problem, n) :
                 LET e == neighborEdges(problem, n)[k]
                 IN  e.to \in Reaching =>
                       n \in Reaching /\ Reference.cost[n] <= e.cost + Reference.cost[e.to]
           /\ \A n \in Reaching : ~ goal(problem, n) =>
                 \E k \in DOMAIN neighborEdges(problem, n) :
                    LET e == neighborEdges(problem, n)[k]
                    IN  /\ e.to \in Reaching
                        /\ Reference.cost[n] = e.cost + Reference.cost[e.to]
                        /\ Reference.hops[e.to] < Reference.hops[n]
           /\ \A n \in Reaching : hScore(problem, n) <= Reference.cost[n]
<1>1. /\ IsProblem(problem)
      /\ IsCostToGo(problem, Reference)
      /\ Admissible(problem, Reference)
  BY ProblemAssumption DEF TypeOK, Reference
<1>. QED
  BY <1>1 DEF IsProblem, IsCostToGo, Admissible, Reaching, goal, hScore, neighborEdges

\* A step that relaxes a neighbor lowers the label of that node alone, and the
\* node is neither the one being expanded nor an initial node.
LEMMA RelaxFacts ==
    ASSUME TypeOK, TreeBoundsLabels, Relax
    PROVE  /\ ToNeighbor.to # curr_node
           /\ ToNeighbor.to \notin problem.initialNodes
           /\ DOMAIN g_score' = DOMAIN g_score \cup {ToNeighbor.to}
           /\ g_score'[ToNeighbor.to] = tentative_g_score
           /\ ToNeighbor.to \in DOMAIN g_score => tentative_g_score < g_score[ToNeighbor.to]
           /\ \A n \in DOMAIN g_score : n # ToNeighbor.to => g_score'[n] = g_score[n]
           /\ \A n \in DOMAIN g_score : g_score'[n] <= g_score[n]
           /\ \A n \in DOMAIN g_score' : g_score'[n] \in Nat
           /\ problem' = problem
           /\ curr_node' = curr_node
           /\ curr_node \in DOMAIN g_score
<1>1. /\ ToNeighbor.to \in Nodes
      /\ tentative_g_score \in Nat
      /\ g_score[curr_node] \in Nat
      /\ tentative_g_score = g_score[curr_node] + ToNeighbor.cost
      /\ ToNeighbor.cost \in Nat
  BY NeighborFacts DEF Relax
<1>2. ToNeighbor.to \in DOMAIN g_score => tentative_g_score < g_score[ToNeighbor.to]
  BY DEF Relax, Improves
<1>3. /\ DOMAIN g_score' = DOMAIN g_score \cup {ToNeighbor.to}
      /\ g_score'[ToNeighbor.to] = tentative_g_score
      /\ \A n \in DOMAIN g_score : n # ToNeighbor.to => g_score'[n] = g_score[n]
  BY DEF Relax, Assign
<1>4. curr_node \in DOMAIN g_score /\ \A n \in DOMAIN g_score : g_score[n] \in Nat
  BY DEF TypeOK
<1>5. ToNeighbor.to # curr_node
  BY <1>1, <1>2, <1>4
<1>6. ToNeighbor.to \notin problem.initialNodes
  BY <1>1, <1>2 DEF TreeBoundsLabels
<1>. QED
  BY <1>1, <1>2, <1>3, <1>4, <1>5, <1>6 DEF Relax

-----------------------------------------------------------------------------
(***************************************************************************)
(* The conjuncts of the invariant, one lemma each.                         *)
(***************************************************************************)

\* No step leaves an element of the open set below the label of its node.
LEMMA NextInsertedScore ==
    TypeOK /\ TreeBoundsLabels /\ InsertedScoreNotBelowLabel /\ [Next]_vars
      => InsertedScoreNotBelowLabel'
<1>. SUFFICES ASSUME TypeOK, TreeBoundsLabels, InsertedScoreNotBelowLabel, [Next]_vars
              PROVE  InsertedScoreNotBelowLabel'
  OBVIOUS
<1>1. CASE Relax
  <2>1. PICK new : /\ new.node = ToNeighbor.to
                   /\ new.g_score = tentative_g_score
                   /\ open_set' = open_set \cup {new}
    BY <1>1 DEF Relax
  <2>2. ASSUME NEW e \in open_set PROVE g_score'[e.node] <= e.g_score
    <3>1. /\ e.node \in DOMAIN g_score
          /\ g_score[e.node] \in Nat
          /\ e.g_score \in Nat
          /\ g_score[e.node] <= e.g_score
      BY DEF TypeOK, OpenSetElement, InsertedScoreNotBelowLabel
    <3>2. g_score'[e.node] <= g_score[e.node] /\ g_score'[e.node] \in Nat
      BY <1>1, <3>1, RelaxFacts
    <3>. QED
      BY <3>1, <3>2
  <2>3. g_score'[new.node] <= new.g_score
    BY <1>1, <2>1, RelaxFacts, NeighborFacts DEF Relax
  <2>. QED
    BY <2>1, <2>2, <2>3 DEF InsertedScoreNotBelowLabel
<1>2. CASE open_set' \in SUBSET open_set /\ g_score' = g_score
  BY <1>2 DEF InsertedScoreNotBelowLabel
<1>. QED
  BY <1>1, <1>2 DEF Next, SkipStale, ReachGoal, Expand, KeepNeighbor, EndNeighbors,
                    Fail, FollowParent, EndExtract, vars

\* No step makes the search tree promise more than the labels hold.
LEMMA NextTreeBounds ==
    TypeOK /\ TreeBoundsLabels /\ [Next]_vars => TreeBoundsLabels'
<1>. SUFFICES ASSUME TypeOK, TreeBoundsLabels, [Next]_vars
              PROVE  TreeBoundsLabels'
  OBVIOUS
<1>1. CASE Relax
  <2>. DEFINE nb == ToNeighbor.to
  <2>1. /\ DOMAIN parent_map' = DOMAIN parent_map \cup {nb}
        /\ parent_map'[nb] = [node |-> curr_node, edge |-> ToNeighbor]
        /\ \A n \in DOMAIN parent_map : n # nb => parent_map'[n] = parent_map[n]
    BY <1>1 DEF Relax, Assign
  <2>2. g_score'[parent_map'[nb].node] + parent_map'[nb].edge.cost <= g_score'[nb]
    <3>1. /\ g_score'[curr_node] = g_score[curr_node]
          /\ g_score'[nb] = g_score[curr_node] + ToNeighbor.cost
          /\ g_score[curr_node] \in Nat
          /\ ToNeighbor.cost \in Nat
      BY <1>1, RelaxFacts, NeighborFacts DEF Relax
    <3>. QED
      BY <2>1, <3>1
  <2>3. ASSUME NEW n \in DOMAIN parent_map, n # nb
        PROVE  g_score'[parent_map'[n].node] + parent_map'[n].edge.cost <= g_score'[n]
    <3>. DEFINE q == parent_map[n].node
                c == parent_map[n].edge.cost
    <3>1. /\ q \in DOMAIN g_score /\ n \in DOMAIN g_score
          /\ g_score[q] \in Nat /\ c \in Nat /\ g_score[n] \in Nat
      BY DEF TypeOK, Edge
    <3>2. g_score[q] + c <= g_score[n]
      BY DEF TreeBoundsLabels
    <3>3. /\ g_score'[q] <= g_score[q]
          /\ g_score'[q] \in Nat
          /\ g_score'[n] = g_score[n]
      BY <1>1, <2>3, <3>1, RelaxFacts
    <3>4. parent_map'[n] = parent_map[n]
      BY <2>1, <2>3
    <3>. HIDE DEF q, c
    <3>5. g_score'[q] + c <= g_score'[n]
      BY <3>1, <3>2, <3>3
    <3>. QED
      BY <3>4, <3>5 DEF q, c
  <2>4. \A n \in DOMAIN g_score' : n \in problem'.initialNodes <=> n \notin DOMAIN parent_map'
    BY <1>1, <2>1, RelaxFacts DEF TreeBoundsLabels
  <2>5. \A n \in problem'.initialNodes : n \in DOMAIN g_score' /\ g_score'[n] = 0
    BY <1>1, RelaxFacts DEF TreeBoundsLabels
  <2>. QED
    BY <2>1, <2>2, <2>3, <2>4, <2>5 DEF TreeBoundsLabels
<1>2. CASE UNCHANGED <<problem, g_score, parent_map>>
  BY <1>2 DEF TreeBoundsLabels
<1>. QED
  BY <1>1, <1>2 DEF Next, SkipStale, ReachGoal, Expand, KeepNeighbor, EndNeighbors,
                    Fail, FollowParent, EndExtract, vars
\* The parts of NoLabelForgotten, over a given map of labels g.
Label(n, g) == [node |-> n, g_score |-> g[n]]
Offered(n, e, g) == e.to \in DOMAIN g /\ g[e.to] <= g[n] + e.cost

\* NoLabelForgotten in these terms, before and after a step.
LEMMA NoLabelForgottenParts ==
    /\ NoLabelForgotten <=>
         (pc \in {"loop", "neighbors"} =>
           \A n \in DOMAIN g_score :
             \/ Label(n, g_score) \in open_set
             \/ /\ ~ goal(problem, n)
                /\ \A k \in DOMAIN neighborEdges(problem, n) :
                      \/ pc = "neighbors" /\ n = curr_node /\ k >= i
                      \/ Offered(n, neighborEdges(problem, n)[k], g_score))
    /\ NoLabelForgotten' <=>
         (pc' \in {"loop", "neighbors"} =>
           \A n \in DOMAIN g_score' :
             \/ Label(n, g_score') \in open_set'
             \/ /\ ~ goal(problem', n)
                /\ \A k \in DOMAIN neighborEdges(problem', n) :
                      \/ pc' = "neighbors" /\ n = curr_node' /\ k >= i'
                      \/ Offered(n, neighborEdges(problem', n)[k], g_score'))
<1>. QED
  BY DEF NoLabelForgotten, Label, Offered, Relaxed, goal, neighborEdges

\* No step loses a label that still has something to offer.
LEMMA NextNoLabelForgotten ==
    TypeOK /\ TreeBoundsLabels /\ NoLabelForgotten /\ [Next]_vars => NoLabelForgotten'
<1>. SUFFICES ASSUME TypeOK, TreeBoundsLabels, NoLabelForgotten, [Next]_vars,
                     pc' \in {"loop", "neighbors"}, NEW n \in DOMAIN g_score'
              PROVE  \/ Label(n, g_score') \in open_set'
                     \/ /\ ~ goal(problem', n)
                        /\ \A k \in DOMAIN neighborEdges(problem', n) :
                              \/ pc' = "neighbors" /\ n = curr_node' /\ k >= i'
                              \/ Offered(n, neighborEdges(problem', n)[k], g_score')
  BY NoLabelForgottenParts
<1>. DEFINE edges == neighborEdges(problem, n)
<1>a. /\ i \in Nat \ {0}
      /\ DOMAIN g_score \in SUBSET Nodes
      /\ problem \in Problems
  BY DEF TypeOK
<1>1. CASE SkipStale
  <2>1. PICK e \in open_set : Stale(e) /\ open_set' = open_set \ {e}
    BY <1>1 DEF SkipStale
  <2>2. Label(n, g_score) # e
    <3>1. e.node \in DOMAIN g_score /\ e.g_score \in Nat /\ g_score[e.node] \in Nat
      BY DEF TypeOK, OpenSetElement
    <3>. QED
      BY <2>1, <3>1 DEF Stale, Label
  <2>. QED
    BY <1>1, <2>1, <2>2, NoLabelForgottenParts DEF SkipStale
<1>2. CASE Expand
  <2>1. PICK e \in open_set : /\ ~ goal(problem, e.node)
                              /\ open_set' = open_set \ {e}
                              /\ curr_node' = e.node
    BY <1>2 DEF Expand
  <2>2. pc = "loop" /\ pc' = "neighbors" /\ i' = 1 /\ problem' = problem /\ g_score' = g_score
    BY <1>2 DEF Expand
  <2>3. CASE n = e.node
    <3>1. \A k \in DOMAIN edges : k >= i'
      BY <1>a, <2>2, ProblemFacts
    <3>. QED
      BY <2>1, <2>2, <2>3, <3>1
  <2>4. CASE n # e.node
    BY <2>1, <2>2, <2>4, NoLabelForgottenParts DEF Label
  <2>. QED
    BY <2>3, <2>4
<1>3. CASE Relax
  <2>. DEFINE nb == ToNeighbor.to
  <2>0. /\ pc = "neighbors" /\ pc' = "neighbors" /\ i' = i + 1
        /\ problem' = problem /\ curr_node' = curr_node
        /\ open_set' = open_set \cup {[node |-> nb, g_score |-> tentative_g_score]}
    BY <1>3 DEF Relax
  <2>1. CASE n = nb
    BY <1>3, <2>0, <2>1, RelaxFacts DEF Label
  <2>2. CASE n # nb
    <3>1. n \in DOMAIN g_score /\ g_score'[n] = g_score[n]
      BY <1>3, <2>2, RelaxFacts
    <3>2. CASE Label(n, g_score) \in open_set
      BY <2>0, <3>1, <3>2 DEF Label
    <3>3. CASE Label(n, g_score) \notin open_set
      <4>1. /\ ~ goal(problem, n)
            /\ \A k \in DOMAIN edges :
                  (n = curr_node /\ k >= i) \/ Offered(n, edges[k], g_score)
        BY <2>0, <3>1, <3>3, NoLabelForgottenParts DEF Label
      <4>2. ASSUME NEW k \in DOMAIN edges, Offered(n, edges[k], g_score)
            PROVE  Offered(n, edges[k], g_score')
        <5>1. edges[k] \in Edge
          BY <1>a, <3>1, ProblemFacts
        <5>2. /\ edges[k].to \in DOMAIN g_score
              /\ g_score[edges[k].to] <= g_score[n] + edges[k].cost
          BY <4>2 DEF Offered
        <5>3. /\ g_score'[edges[k].to] <= g_score[edges[k].to]
              /\ g_score'[edges[k].to] \in Nat
              /\ edges[k].to \in DOMAIN g_score'
          BY <1>3, <5>2, RelaxFacts
        <5>4. /\ g_score[edges[k].to] \in Nat
              /\ g_score[n] \in Nat
              /\ edges[k].cost \in Nat
          BY <3>1, <5>1, <5>2 DEF TypeOK, Edge
        <5>5. g_score'[edges[k].to] <= g_score'[n] + edges[k].cost
          BY <3>1, <5>2, <5>3, <5>4
        <5>. QED
          BY <2>0, <5>3, <5>5 DEF Offered
      <4>3. ASSUME NEW k \in DOMAIN edges, n = curr_node, k = i
            PROVE  Offered(n, edges[k], g_score')
        <5>1. /\ g_score'[nb] = g_score[curr_node] + ToNeighbor.cost
              /\ g_score[curr_node] \in Nat
              /\ ToNeighbor.cost \in Nat
              /\ nb \in DOMAIN g_score'
          BY <1>3, RelaxFacts, NeighborFacts DEF Relax
        <5>2. edges[k] = ToNeighbor
          BY <4>3 DEF ToNeighbor
        <5>. QED
          BY <2>0, <3>1, <4>3, <5>1, <5>2 DEF Offered
      <4>4. ASSUME NEW k \in DOMAIN edges, k >= i, k # i
            PROVE  k >= i'
        <5>1. k \in Nat
          BY <1>a, <3>1, ProblemFacts
        <5>. QED
          BY <1>a, <2>0, <4>4, <5>1
      <4>. QED
        BY <2>0, <4>1, <4>2, <4>3, <4>4
    <3>. QED
      BY <3>2, <3>3
  <2>. QED
    BY <2>1, <2>2
<1>4. CASE KeepNeighbor
  <2>0. /\ pc = "neighbors" /\ pc' = "neighbors" /\ i' = i + 1
        /\ problem' = problem /\ curr_node' = curr_node
        /\ open_set' = open_set /\ g_score' = g_score
        /\ MoreNeighbors /\ ~ Improves
    BY <1>4 DEF KeepNeighbor
  <2>1. ASSUME NEW k \in DOMAIN edges, n = curr_node, k = i
        PROVE  Offered(n, edges[k], g_score)
    <3>1. /\ ToNeighbor.to \in DOMAIN g_score
          /\ ~ (tentative_g_score < g_score[ToNeighbor.to])
      BY <2>0 DEF Improves
    <3>2. /\ tentative_g_score = g_score[curr_node] + ToNeighbor.cost
          /\ tentative_g_score \in Nat
          /\ g_score[ToNeighbor.to] \in Nat
      BY <2>0, <3>1, NeighborFacts DEF TypeOK
    <3>3. edges[k] = ToNeighbor
      BY <2>1 DEF ToNeighbor
    <3>4. g_score[ToNeighbor.to] <= tentative_g_score
      BY <3>1, <3>2
    <3>. QED
      BY <2>1, <3>1, <3>2, <3>3, <3>4 DEF Offered
  <2>2. ASSUME NEW k \in DOMAIN edges, k >= i, k # i
        PROVE  k >= i'
    <3>1. k \in Nat
      BY <1>a, <2>0, ProblemFacts
    <3>. QED
      BY <1>a, <2>0, <2>2, <3>1
  <2>. QED
    BY <2>0, <2>1, <2>2, NoLabelForgottenParts DEF Label
<1>5. CASE EndNeighbors
  <2>0. /\ pc = "neighbors" /\ pc' = "loop"
        /\ problem' = problem /\ curr_node' = curr_node
        /\ open_set' = open_set /\ g_score' = g_score
        /\ i \notin DOMAIN neighborEdges(problem, curr_node)
    BY <1>5 DEF EndNeighbors, MoreNeighbors
  <2>1. ASSUME NEW k \in DOMAIN edges, n = curr_node
        PROVE  ~ (k >= i)
    <3>1. edges \in Seq(Edge)
      BY <1>a, <2>0, ProblemFacts
    <3>. QED
      BY <1>a, <2>0, <2>1, <3>1
  <2>. QED
    BY <2>0, <2>1, NoLabelForgottenParts DEF Label
<1>6. CASE UNCHANGED vars
  BY <1>6, NoLabelForgottenParts DEF vars
<1>7. CASE ReachGoal \/ Fail \/ FollowParent \/ EndExtract
  BY <1>7 DEF ReachGoal, Fail, FollowParent, EndExtract
<1>. QED
  BY <1>1, <1>2, <1>3, <1>4, <1>5, <1>6, <1>7 DEF Next

\* No step labels a node with less than a cost of the problem.
LEMMA NextLabelsAreCosts ==
    TypeOK /\ TreeBoundsLabels /\ LabelsAreCosts /\ [Next]_vars => LabelsAreCosts'
<1>. SUFFICES ASSUME TypeOK, TreeBoundsLabels, LabelsAreCosts, [Next]_vars
              PROVE  LabelsAreCosts'
  OBVIOUS
<1>1. CASE Relax
  <2>. DEFINE nb == ToNeighbor.to
  <2>0. Reference' = Reference /\ Reaching' = Reaching /\ SolvableNodes' = SolvableNodes
    BY <1>1 DEF Relax, Reference, Reaching, SolvableNodes
  <2>1. SUFFICES ASSUME NEW n \in DOMAIN g_score', n \in Reaching
                 PROVE  \E s \in SolvableNodes :
                           Reference.cost[s] <= g_score'[n] + Reference.cost[n]
    BY <2>0 DEF LabelsAreCosts
  <2>2. CASE n # nb
    BY <1>1, <2>1, <2>2, RelaxFacts DEF LabelsAreCosts
  <2>3. CASE n = nb
    <3>1. /\ g_score'[nb] = g_score[curr_node] + ToNeighbor.cost
          /\ g_score[curr_node] \in Nat /\ ToNeighbor.cost \in Nat
          /\ curr_node \in DOMAIN g_score /\ curr_node \in Nodes
          /\ i \in DOMAIN neighborEdges(problem, curr_node)
      BY <1>1, RelaxFacts, NeighborFacts DEF Relax
    <3>2. /\ curr_node \in Reaching
          /\ Reference.cost[curr_node] <= ToNeighbor.cost + Reference.cost[nb]
          /\ Reference.cost[curr_node] \in Nat
          /\ Reference.cost[nb] \in Nat
      BY <2>1, <2>3, <3>1, ReferenceFacts DEF ToNeighbor
    <3>3. PICK s \in SolvableNodes :
             Reference.cost[s] <= g_score[curr_node] + Reference.cost[curr_node]
      BY <3>1, <3>2 DEF LabelsAreCosts
    <3>4. Reference.cost[s] \in Nat
      BY ReferenceFacts DEF SolvableNodes
    <3>5. Reference.cost[s] <= g_score'[nb] + Reference.cost[nb]
      BY <3>1, <3>2, <3>3, <3>4
    <3>. QED
      BY <2>3, <3>5
  <2>. QED
    BY <2>2, <2>3
<1>2. CASE UNCHANGED <<problem, g_score>>
  BY <1>2 DEF LabelsAreCosts, Reference, Reaching, SolvableNodes
<1>. QED
  BY <1>1, <1>2 DEF Next, SkipStale, ReachGoal, Expand, KeepNeighbor, EndNeighbors,
                    Fail, FollowParent, EndExtract, vars
-----------------------------------------------------------------------------
(***************************************************************************)
(* Optimality.                                                             *)
(***************************************************************************)

\* Between two expansions, some element of the open set is no dearer than the
\* cost-to-go of any initial node: follow a cheapest walk from it to the labelled
\* node nearest the goal that lies on a cheapest way; that node cannot have been
\* offered to its neighbors, so its label waits in the open set.
LEMMA OpenBelowCostToGo ==
    ASSUME TypeOK, TreeBoundsLabels, NoLabelForgotten, pc = "loop",
           NEW t \in SolvableNodes
    PROVE  \E e \in open_set : f_score(e) <= Reference.cost[t]
<1>. DEFINE OnCheapestWay(n) == /\ n \in DOMAIN g_score
                                /\ n \in Reaching
                                /\ g_score[n] + Reference.cost[n] <= Reference.cost[t]
            Candidates == {n \in Nodes : OnCheapestWay(n)}
            Hops == {Reference.hops[n] : n \in Candidates}
<1>0. /\ DOMAIN g_score \in SUBSET Nodes
      /\ \A n \in DOMAIN g_score : g_score[n] \in Nat
      /\ t \in Reaching /\ t \in Nodes
      /\ Reference.cost[t] \in Nat
  BY ReferenceFacts DEF TypeOK, SolvableNodes
<1>1. t \in Candidates
  BY <1>0 DEF TreeBoundsLabels, SolvableNodes
<1>2. Hops \in SUBSET Nat /\ Hops # {}
  BY <1>1, ReferenceFacts
<1>3. PICK least \in Hops : \A h \in Hops : least <= h
  BY <1>2, NatLeastElement
<1>4. PICK n \in Candidates : \A m \in Candidates : Reference.hops[n] <= Reference.hops[m]
  BY <1>3
<1>5. /\ n \in DOMAIN g_score /\ n \in Reaching /\ n \in Nodes
      /\ g_score[n] \in Nat
      /\ Reference.cost[n] \in Nat /\ Reference.hops[n] \in Nat
      /\ g_score[n] + Reference.cost[n] <= Reference.cost[t]
  BY <1>0, <1>4, ReferenceFacts
<1>6. CASE Label(n, g_score) \in open_set
  <2>1. hScore(problem, n) \in Nat /\ hScore(problem, n) <= Reference.cost[n]
    BY <1>5, ReferenceFacts, ProblemFacts DEF TypeOK
  <2>2. f_score(Label(n, g_score)) = g_score[n] + hScore(problem, n)
    BY DEF f_score, Label
  <2>3. f_score(Label(n, g_score)) <= Reference.cost[t]
    BY <1>0, <1>5, <2>1, <2>2
  <2>. QED
    BY <1>6, <2>3
<1>7. CASE Label(n, g_score) \notin open_set
  <2>1. /\ ~ goal(problem, n)
        /\ \A k \in DOMAIN neighborEdges(problem, n) :
              Offered(n, neighborEdges(problem, n)[k], g_score)
    BY <1>5, <1>7, NoLabelForgottenParts
  <2>2. PICK k \in DOMAIN neighborEdges(problem, n) :
               LET e == neighborEdges(problem, n)[k]
               IN  /\ e.to \in Reaching
                   /\ Reference.cost[n] = e.cost + Reference.cost[e.to]
                   /\ Reference.hops[e.to] < Reference.hops[n]
    BY <1>5, <2>1, ReferenceFacts
  <2>. DEFINE e == neighborEdges(problem, n)[k]
              m == e.to
  <2>3. /\ m \in Reaching
        /\ Reference.cost[n] = e.cost + Reference.cost[m]
        /\ Reference.hops[m] < Reference.hops[n]
        /\ e \in Edge
    BY <1>5, <2>2, ProblemFacts DEF TypeOK
  <2>4. /\ m \in DOMAIN g_score
        /\ g_score[m] <= g_score[n] + e.cost
    BY <2>1 DEF Offered
  <2>5. /\ m \in Nodes /\ e.cost \in Nat /\ g_score[m] \in Nat
        /\ Reference.cost[m] \in Nat /\ Reference.hops[m] \in Nat
    BY <1>0, <2>3, <2>4, ReferenceFacts DEF Edge
  <2>. HIDE DEF m, e
  <2>6. g_score[m] + Reference.cost[m] <= Reference.cost[t]
    BY <1>0, <1>5, <2>3, <2>4, <2>5
  <2>7. m \in Candidates
    BY <2>3, <2>4, <2>5, <2>6
  <2>8. Reference.hops[n] <= Reference.hops[m]
    BY <1>4, <2>7
  <2>. QED
    BY <1>5, <2>3, <2>5, <2>8
<1>. QED
  BY <1>6, <1>7

\* A goal popped from the open set has the least cost of the problem.
LEMMA PoppedGoalIsOptimal ==
    ASSUME TypeOK, InsertedScoreNotBelowLabel, TreeBoundsLabels, NoLabelForgotten,
           LabelsAreCosts, pc = "loop",
           NEW e \in open_set, Top(e), ~ Stale(e), goal(problem, e.node)
    PROVE  IsLeastCost(g_score[e.node])
<1>. DEFINE n == e.node
<1>1. /\ n \in DOMAIN g_score /\ n \in Nodes
      /\ g_score[n] \in Nat /\ e.g_score \in Nat
      /\ problem \in Problems
  BY DEF TypeOK, OpenSetElement
<1>2. n \in Reaching /\ Reference.cost[n] = 0
  BY <1>1, ReferenceFacts
<1>3. PICK s \in SolvableNodes : Reference.cost[s] <= g_score[n]
  BY <1>1, <1>2 DEF LabelsAreCosts
<1>4. ASSUME NEW t \in SolvableNodes PROVE g_score[n] <= Reference.cost[t]
  <2>1. PICK o \in open_set : f_score(o) <= Reference.cost[t]
    BY OpenBelowCostToGo
  <2>2. f_score(e) <= f_score(o)
    BY DEF Top
  <2>3. f_score(e) = e.g_score + hScore(problem, n) /\ hScore(problem, n) \in Nat
    BY <1>1, ProblemFacts DEF f_score
  <2>4. f_score(o) \in Nat
    BY <1>1, ProblemFacts DEF TypeOK, OpenSetElement, f_score
  <2>5. Reference.cost[t] \in Nat
    BY ReferenceFacts DEF SolvableNodes
  <2>6. g_score[n] <= e.g_score
    BY DEF InsertedScoreNotBelowLabel
  <2>. QED
    BY <1>1, <2>1, <2>2, <2>3, <2>4, <2>5, <2>6
<1>5. Reference.cost[s] \in Nat
  BY ReferenceFacts DEF SolvableNodes
<1>6. g_score[n] = Reference.cost[s]
  BY <1>1, <1>3, <1>4, <1>5
<1>. QED
  BY <1>4, <1>6 DEF IsLeastCost

\* No step makes the result wrong.
LEMMA NextResultIsRight == IInv /\ [Next]_vars => ResultIsRight'
<1>. SUFFICES ASSUME IInv, [Next]_vars PROVE ResultIsRight'
  OBVIOUS
<1>. USE DEF IInv
<1>0. problem' = problem
  BY DEF Next, SkipStale, ReachGoal, Expand, Relax, KeepNeighbor, EndNeighbors,
         Fail, FollowParent, EndExtract, vars
<1>a. /\ SolvableNodes' = SolvableNodes
      /\ Reference' = Reference
      /\ \A c : IsLeastCost(c) =
                  (\E s \in SolvableNodes :
                      /\ c = Reference.cost[s]
                      /\ \A t \in SolvableNodes : c <= Reference.cost[t])
  BY <1>0 DEF SolvableNodes, Reaching, Reference, IsLeastCost
<1>1. CASE ReachGoal
  <2>1. PICK e \in open_set : /\ Top(e) /\ ~ Stale(e) /\ goal(problem, e.node)
                              /\ result'.success
                              /\ result'.cost = g_score[e.node]
    BY <1>1 DEF ReachGoal
  <2>2. IsLeastCost(g_score[e.node])
    BY <1>1, <2>1, PoppedGoalIsOptimal DEF ReachGoal
  <2>. QED
    BY <1>a, <1>1, <2>1, <2>2 DEF ReachGoal, ResultIsRight, IsLeastCost
<1>2. CASE Fail
  <2>1. SolvableNodes = {}
    BY <1>2, OpenBelowCostToGo DEF Fail
  <2>. QED
    BY <1>a, <1>2, <2>1 DEF Fail, ResultIsRight
<1>3. CASE FollowParent
  <2>1. result'.success = result.success /\ result'.cost = result.cost
    BY <1>3 DEF FollowParent, TypeOK
  <2>. QED
    BY <1>a, <1>3, <2>1 DEF FollowParent, ResultIsRight, IsLeastCost
<1>4. CASE EndExtract
  BY <1>a, <1>4 DEF EndExtract, ResultIsRight, IsLeastCost
<1>5. CASE SkipStale \/ Expand \/ Relax \/ KeepNeighbor \/ EndNeighbors
  BY <1>5 DEF SkipStale, Expand, Relax, KeepNeighbor, EndNeighbors, ResultIsRight
<1>6. CASE UNCHANGED vars
  BY <1>a, <1>6 DEF vars, ResultIsRight, IsLeastCost
<1>. QED
  BY <1>1, <1>2, <1>3, <1>4, <1>5, <1>6 DEF Next

\* The initial state satisfies the inductive invariant.
LEMMA InitIInv == Init => IInv
<1>. SUFFICES ASSUME Init PROVE IInv
  OBVIOUS
<1>1. TypeOK
  BY InitTypeOK
<1>2. /\ InsertedScoreNotBelowLabel
      /\ TreeBoundsLabels
  BY DEF Init, InsertedScoreNotBelowLabel, TreeBoundsLabels
<1>3. NoLabelForgotten
  BY NoLabelForgottenParts DEF Init, Label
<1>4. LabelsAreCosts
  <2>1. ASSUME NEW n \in DOMAIN g_score, n \in Reaching
        PROVE  /\ n \in SolvableNodes
               /\ Reference.cost[n] <= g_score[n] + Reference.cost[n]
    BY <1>1, <2>1, ReferenceFacts DEF Init, SolvableNodes
  <2>. QED
    BY <2>1 DEF LabelsAreCosts
<1>5. ResultIsRight
  BY DEF Init, ResultIsRight, NoResult
<1>. QED
  BY <1>1, <1>2, <1>3, <1>4, <1>5 DEF IInv

\* Every step preserves the inductive invariant.
LEMMA NextIInv == IInv /\ [Next]_vars => IInv'
<1>. QED
  BY NextTypeOK, NextInsertedScore, NextTreeBounds, NextNoLabelForgotten,
     NextLabelsAreCosts, NextResultIsRight DEF IInv

\* The inductive invariant holds throughout every search.
LEMMA InvariantHolds == Spec => []IInv
<1>. QED
  BY InitIInv, NextIInv, PTL DEF Spec

-----------------------------------------------------------------------------
\* The assertion in the main loop of AStar::search never fails, for any graph and
\* any order of the queue: no element of the open set undercuts its node's label.
THEOREM AssertionHolds == Spec => []InsertedScoreNotBelowLabel
<1>1. IInv => InsertedScoreNotBelowLabel
  BY DEF IInv
<1>. QED
  BY <1>1, InvariantHolds, PTL

\* The search tree always accounts for the labels, and only initial nodes lack a
\* parent: where extractPath stops is an initial node.
THEOREM TreeAlwaysBoundsLabels == Spec => []TreeBoundsLabels
<1>1. IInv => TreeBoundsLabels
  BY DEF IInv
<1>. QED
  BY <1>1, InvariantHolds, PTL

\* No label is ever forgotten, however often nodes are reopened.
THEOREM NothingForgotten == Spec => []NoLabelForgotten
<1>1. IInv => NoLabelForgotten
  BY DEF IInv
<1>. QED
  BY <1>1, InvariantHolds, PTL

\* The search implements OptimalSearch: under any admissible heuristic it returns
\* the least cost, or fails because no initial node reaches a goal, once.
THEOREM Refinement == Spec => ImplementsOptimalSearch
<1>1. Init => Promise!Init
  BY DEF Init, NoResult, answer, Promise!Init, Promise!Pending
<1>2. IInv /\ [Next]_vars => [Promise!Next]_<<problem, answer>>
  <2>. SUFFICES ASSUME IInv, [Next]_vars
                PROVE  [Promise!Next]_<<problem, answer>>
    OBVIOUS
  <2>1. CASE Fail
    <3>1. /\ answer = Promise!Pending
          /\ answer' = Promise!Answer(FALSE, 0)
          /\ problem' = problem
      BY <2>1 DEF IInv, ResultIsRight, Fail, answer, Promise!Pending, Promise!Answer
    <3>2. Promise!Solvable(problem) = {}
      BY <2>1, OpenBelowCostToGo
         DEF IInv, Fail, Promise!Solvable, SolvableNodes, Reaching, Reference
    <3>. QED
      BY <3>1, <3>2 DEF Promise!GiveUp, Promise!Next
  <2>2. CASE EndExtract
    <3>1. /\ answer = Promise!Pending
          /\ answer' = Promise!Answer(TRUE, result.cost)
          /\ problem' = problem
      BY <2>2 DEF IInv, ResultIsRight, EndExtract, answer, Promise!Pending, Promise!Answer
    <3>2. IsLeastCost(result.cost)
      BY <2>2 DEF IInv, ResultIsRight, EndExtract
    <3>3. PICK s \in SolvableNodes :
             /\ result.cost = Reference.cost[s]
             /\ \A t \in SolvableNodes : result.cost <= Reference.cost[t]
      BY <3>2 DEF IsLeastCost
    <3>4. SolvableNodes = Promise!Solvable(problem) /\ Reference = CostToGo(problem)
      BY DEF Promise!Solvable, SolvableNodes, Reaching, Reference
    <3>. QED
      BY <3>1, <3>3, <3>4 DEF Promise!Find, Promise!Next
  <2>3. CASE UNCHANGED vars
    BY <2>3 DEF vars, answer
  <2>4. ASSUME pc # "returned", pc' # "returned", problem' = problem
        PROVE  UNCHANGED <<problem, answer>>
    BY <2>4 DEF answer
  <2>. QED
    BY <2>1, <2>2, <2>3, <2>4
       DEF Next, SkipStale, ReachGoal, Expand, Relax, KeepNeighbor, EndNeighbors, FollowParent
<1>. QED
  BY <1>1, <1>2, InvariantHolds, PTL DEF Spec, ImplementsOptimalSearch, Promise!Spec

-----------------------------------------------------------------------------
(***************************************************************************)
(* The cost of a path is a fold over its edges: the sums of its prefixes.  *)
(***************************************************************************)

\* A nonempty set of numbers up to n has a greatest.
LEMMA GreatestElement ==
    ASSUME NEW n \in Nat, NEW T \in SUBSET (1 .. n), T # {}
    PROVE  Max(T) \in T /\ \A y \in T : Max(T) >= y
<1>. DEFINE U == {n - x : x \in T}
<1>1. U \in SUBSET Nat /\ U # {}
  <2>1. \A x \in T : n - x \in Nat
    OBVIOUS
  <2>2. QED
    BY <2>1
<1>2. PICK u \in U : \A y \in U : u <= y
  <2>. HIDE DEF U
  <2>1. QED
    BY <1>1, NatLeastElement
<1>3. PICK x \in T : u = n - x
  BY <1>2
<1>4. \A y \in T : x >= y
  <2>. SUFFICES ASSUME NEW y \in T PROVE x >= y
    OBVIOUS
  <2>1. n - x <= n - y
    BY <1>2, <1>3
  <2>2. QED
    BY <2>1
<1>5. QED
  BY <1>4 DEF Max

\* The recursion of the fold over the first n edges of s has a solution.
LEMMA FoldExists ==
    ASSUME NEW s, NEW n \in Nat
    PROVE  \E g : g = [T \in SUBSET (1 .. n) |->
                          IF T = {} THEN 0
                                    ELSE g[T \ {Max(T)}] + s[Max(T)].cost]
<1>. DEFINE Fold(g, T) == IF T = {} THEN 0 ELSE g[T \ {Max(T)}] + s[Max(T)].cost
           Solved(l) == \E g : g = [T \in SUBSET (1 .. l) |-> Fold(g, T)]
           Missed == {l \in Nat : ~ Solved(l)}
<1>1. Solved(0)
  <2>. DEFINE g == [T \in SUBSET (1 .. 0) |-> 0]
  <2>1. \A T \in SUBSET (1 .. 0) : T = {}
    OBVIOUS
  <2>2. g = [T \in SUBSET (1 .. 0) |-> Fold(g, T)]
    BY <2>1
  <2>3. QED
    BY <2>2
<1>2. ASSUME NEW l \in Nat, Solved(l) PROVE Solved(l + 1)
  <2>1. PICK g : g = [T \in SUBSET (1 .. l) |-> Fold(g, T)]
    BY <1>2
  <2>. DEFINE h == [T \in SUBSET (1 .. l + 1) |->
                      IF l + 1 \in T THEN g[T \ {l + 1}] + s[l + 1].cost ELSE g[T]]
  <2>2. ASSUME NEW T \in SUBSET (1 .. l + 1) PROVE h[T] = Fold(h, T)
    <3>1. CASE l + 1 \in T
      <4>1. Max(T) = l + 1
        <5>1. l + 1 \in Nat /\ T # {}
          BY <3>1
        <5>2. Max(T) \in T /\ \A y \in T : Max(T) >= y
          BY <5>1, GreatestElement
        <5>3. Max(T) \in 1 .. l + 1 /\ Max(T) >= l + 1
          BY <3>1, <5>2
        <5>4. QED
          BY <5>3
      <4>2. T \ {l + 1} \in SUBSET (1 .. l + 1) /\ l + 1 \notin T \ {l + 1}
        OBVIOUS
      <4>3. h[T \ {l + 1}] = g[T \ {l + 1}]
        BY <4>2
      <4>4. h[T] = g[T \ {l + 1}] + s[l + 1].cost
        BY <3>1
      <4>5. QED
        BY <3>1, <4>1, <4>3, <4>4
    <3>2. CASE l + 1 \notin T
      <4>1. T \in SUBSET (1 .. l)
        BY <3>2
      <4>2. h[T] = g[T] /\ g[T] = Fold(g, T)
        BY <2>1, <3>2, <4>1
      <4>3. CASE T = {}
        BY <4>2, <4>3
      <4>4. CASE T # {}
        <5>1. T \ {Max(T)} \in SUBSET (1 .. l + 1) /\ l + 1 \notin T \ {Max(T)}
          BY <3>2
        <5>2. h[T \ {Max(T)}] = g[T \ {Max(T)}]
          BY <5>1
        <5>3. QED
          BY <4>2, <4>4, <5>2
      <4>5. QED
        BY <4>3, <4>4
    <3>3. QED
      BY <3>1, <3>2
  <2>3. h = [T \in SUBSET (1 .. l + 1) |-> Fold(h, T)]
    <3>. HIDE DEF Fold
    <3>1. QED
      BY <2>2
  <2>4. QED
    BY <2>3
<1>3. Missed = {}
  <2>. SUFFICES ASSUME Missed # {} PROVE FALSE
    OBVIOUS
  <2>1. PICK l \in Missed : \A k \in Missed : l <= k
    <3>1. Missed \in SUBSET Nat
      OBVIOUS
    <3>. HIDE DEF Missed
    <3>2. QED
      BY <3>1, NatLeastElement
  <2>2. l \in Nat /\ ~ Solved(l)
    BY <2>1
  <2>. HIDE DEF Solved
  <2>3. l # 0
    BY <1>1, <2>2
  <2>4. l - 1 \in Nat /\ (l - 1) + 1 = l /\ ~ (l <= l - 1)
    BY <2>2, <2>3
  <2>5. l - 1 \notin Missed
    BY <2>1, <2>4
  <2>6. Solved(l - 1)
    BY <2>4, <2>5
  <2>7. Solved((l - 1) + 1)
    BY <1>2, <2>4, <2>6
  <2>8. QED
    BY <2>2, <2>4, <2>7
<1>4. Solved(n)
  BY <1>3
<1>5. QED
  BY <1>4

\* The sums of a path's prefixes, the last of which is the path's cost.
LEMMA PrefixSums ==
    ASSUME NEW s \in Seq(Edge)
    PROVE  \E t : /\ t[0] = 0
                  /\ \A k \in 1 .. Len(s) : t[k] = t[k - 1] + s[k].cost
                  /\ t[Len(s)] = PathCost(s)
<1>. DEFINE Fold(g, T) == IF T = {} THEN 0 ELSE g[T \ {Max(T)}] + s[Max(T)].cost
<1>1. DOMAIN s = 1 .. Len(s) /\ Len(s) \in Nat
  OBVIOUS
<1>2. \E g : g = [T \in SUBSET DOMAIN s |-> Fold(g, T)]
  <2>1. \E g : g = [T \in SUBSET (1 .. Len(s)) |-> Fold(g, T)]
    BY <1>1, FoldExists
  <2>2. QED
    BY <1>1, <2>1
<1>3. PICK h : /\ h = [T \in SUBSET DOMAIN s |-> Fold(h, T)]
               /\ PathCost(s) = h[DOMAIN s]
  BY <1>2 DEF PathCost, FoldLeft, MapThenFoldSet
<1>. DEFINE t == [k \in 0 .. Len(s) |-> h[1 .. k]]
<1>4. t[0] = 0
  <2>1. 1 .. 0 = {} /\ {} \in SUBSET DOMAIN s
    OBVIOUS
  <2>2. h[{}] = 0
    BY <1>3, <2>1
  <2>3. QED
    BY <1>1, <2>1, <2>2
<1>5. ASSUME NEW k \in 1 .. Len(s) PROVE t[k] = t[k - 1] + s[k].cost
  <2>1. /\ 1 .. k \in SUBSET DOMAIN s /\ 1 .. k # {} /\ k \in Nat
        /\ (1 .. k) \ {k} = 1 .. k - 1
        /\ k \in 0 .. Len(s) /\ k - 1 \in 0 .. Len(s)
    <3>1. k \in Nat /\ k \in 1 .. k /\ k \in 0 .. Len(s) /\ k - 1 \in 0 .. Len(s)
      BY <1>1
    <3>2. (1 .. k) \ {k} = 1 .. k - 1
      BY <1>1
    <3>3. 1 .. k \in SUBSET (1 .. Len(s))
      BY <1>1
    <3>4. QED
      BY <1>1, <3>1, <3>2, <3>3
  <2>2. Max(1 .. k) = k
    <3>1. 1 .. k \in SUBSET (1 .. k)
      OBVIOUS
    <3>2. Max(1 .. k) \in 1 .. k /\ \A y \in 1 .. k : Max(1 .. k) >= y
      BY <2>1, <3>1, GreatestElement
    <3>3. Max(1 .. k) >= k /\ Max(1 .. k) <= k /\ Max(1 .. k) \in Nat
      BY <2>1, <3>2
    <3>4. QED
      BY <2>1, <3>3
  <2>3. h[1 .. k] = h[1 .. k - 1] + s[k].cost
    BY <1>3, <2>1, <2>2
  <2>4. QED
    BY <2>1, <2>3
<1>6. t[Len(s)] = PathCost(s)
  BY <1>1, <1>3
<1>7. QED
  BY <1>4, <1>5, <1>6

\* A path of no edges costs nothing.
LEMMA PathCostOfNone == PathCost(<<>>) = 0
<1>. DEFINE s == <<>>
<1>1. s \in Seq(Edge) /\ Len(s) = 0
  OBVIOUS
<1>. HIDE DEF s
<1>2. PICK t : t[0] = 0 /\ t[Len(s)] = PathCost(s)
  BY <1>1, PrefixSums
<1>3. PathCost(s) = 0
  BY <1>1, <1>2
<1>4. QED
  BY <1>3 DEF s

\* An edge in front of a path adds its cost.
LEMMA PathCostOfEdgeInFront ==
    ASSUME NEW e \in Edge, NEW s \in Seq(Edge)
    PROVE  /\ PathCost(s) \in Nat
           /\ PathCost(<<e>> \o s) = e.cost + PathCost(s)
<1>. DEFINE s1 == <<e>> \o s
<1>1. /\ s1 \in Seq(Edge) /\ Len(s1) = Len(s) + 1 /\ s1[1] = e /\ Len(s) \in Nat
      /\ \A k \in 1 .. Len(s) : s1[k + 1] = s[k]
  OBVIOUS
<1>2. PICK t : /\ t[0] = 0
               /\ \A k \in 1 .. Len(s) : t[k] = t[k - 1] + s[k].cost
               /\ t[Len(s)] = PathCost(s)
  BY PrefixSums
<1>3. PICK u : /\ u[0] = 0
               /\ \A k \in 1 .. Len(s1) : u[k] = u[k - 1] + s1[k].cost
               /\ u[Len(s1)] = PathCost(s1)
  BY <1>1, PrefixSums
<1>4. e.cost \in Nat /\ \A k \in 1 .. Len(s) : s[k].cost \in Nat
  <2>1. \A k \in 1 .. Len(s) : s[k] \in Edge
    OBVIOUS
  <2>2. \A x \in Edge : x.cost \in Nat
    BY DEF Edge
  <2>3. QED
    BY <2>1, <2>2
<1>. DEFINE Agree(k) == t[k] \in Nat /\ u[k + 1] = e.cost + t[k]
           Missed == {k \in 0 .. Len(s) : ~ Agree(k)}
<1>5. Agree(0)
  <2>1. u[0 + 1] = u[0] + s1[0 + 1].cost
    <3>1. 0 + 1 \in 1 .. Len(s1) /\ (0 + 1) - 1 = 0
      BY <1>1
    <3>2. QED
      BY <1>3, <3>1
  <2>2. u[0 + 1] = e.cost
    BY <1>1, <1>3, <1>4, <2>1
  <2>3. QED
    BY <1>2, <1>4, <2>2
<1>6. ASSUME NEW k \in 1 .. Len(s), Agree(k - 1) PROVE Agree(k)
  <2>1. t[k] = t[k - 1] + s[k].cost /\ t[k - 1] \in Nat
    BY <1>2, <1>6
  <2>2. t[k] \in Nat
    <3>1. s[k].cost \in Nat
      BY <1>4
    <3>2. QED
      BY <2>1, <3>1
  <2>3. u[k + 1] = u[k] + s[k].cost
    <3>1. k + 1 \in 1 .. Len(s1) /\ (k + 1) - 1 = k
      BY <1>1
    <3>2. QED
      BY <1>1, <1>3, <3>1
  <2>4. u[k] = e.cost + t[k - 1]
    <3>1. (k - 1) + 1 = k
      BY <1>1
    <3>2. QED
      BY <1>6, <3>1
  <2>5. u[k + 1] = e.cost + t[k]
    BY <1>4, <2>1, <2>3, <2>4
  <2>6. QED
    BY <2>2, <2>5
<1>7. Missed = {}
  <2>. SUFFICES ASSUME Missed # {} PROVE FALSE
    OBVIOUS
  <2>1. PICK k \in Missed : \A l \in Missed : k <= l
    <3>1. Missed \in SUBSET Nat
      OBVIOUS
    <3>. HIDE DEF Missed
    <3>2. QED
      BY <3>1, NatLeastElement
  <2>2. k \in 0 .. Len(s) /\ ~ Agree(k)
    BY <2>1
  <2>. HIDE DEF Agree
  <2>3. k # 0
    BY <1>5, <2>2
  <2>4. k \in 1 .. Len(s) /\ k - 1 \in 0 .. Len(s) /\ ~ (k <= k - 1)
    BY <1>1, <2>2, <2>3
  <2>5. k - 1 \notin Missed
    BY <2>1, <2>4
  <2>6. Agree(k - 1)
    BY <2>4, <2>5
  <2>7. QED
    BY <1>6, <2>2, <2>4, <2>6
<1>8. Agree(Len(s))
  BY <1>1, <1>7
<1>9. QED
  BY <1>1, <1>2, <1>3, <1>8

-----------------------------------------------------------------------------
(***************************************************************************)
(* The path that extractPath follows.  From the node reached so far, its   *)
(* edges lead to a goal: they cost at most what the label leaves of the    *)
(* cost returned, and at least what the node's cheapest way to a goal      *)
(* costs.  At an initial node the two bounds meet.                         *)
(***************************************************************************)
PathLeadsToGoal ==
    LET np == result.node_path
        ep == result.edge_path
    IN  /\ Len(np) = Len(ep) + 1
        /\ np[1] = curr_node
        /\ goal(problem, Last(np))
        /\ \A k \in 1 .. Len(ep) :
              /\ ep[k] \in Range(neighborEdges(problem, np[k]))
              /\ ep[k].to = np[k + 1]

PathCostBounded ==
    /\ g_score[curr_node] + PathCost(result.edge_path) <= result.cost
    /\ curr_node \in Reaching
    /\ Reference.cost[curr_node] <= PathCost(result.edge_path)

PathFollowed ==
    /\ (pc \in {"extract", "returned"} /\ result.success) =>
          PathLeadsToGoal /\ PathCostBounded
    /\ (pc = "returned" /\ result.success) => curr_node \notin DOMAIN parent_map

\* A popped goal is a path of no edges.
LEMMA ReachGoalPath == IInv /\ ReachGoal => PathFollowed'
<1>. SUFFICES ASSUME IInv, ReachGoal PROVE PathFollowed'
  OBVIOUS
<1>1. PICK e \in open_set :
         /\ goal(problem, e.node)
         /\ curr_node' = e.node
         /\ result' = [success |-> TRUE, cost |-> g_score[e.node],
                       node_path |-> <<e.node>>, edge_path |-> <<>>]
  BY DEF ReachGoal
<1>2. problem' = problem /\ g_score' = g_score /\ pc' = "extract"
  BY DEF ReachGoal
<1>3. e.node \in DOMAIN g_score /\ e.node \in Nodes /\ g_score[e.node] \in Nat
  BY DEF IInv, TypeOK
<1>4. e.node \in Reaching /\ Reference.cost[e.node] = 0
  BY <1>1, <1>3, ReferenceFacts DEF IInv
<1>5. PathLeadsToGoal'
  BY <1>1, <1>2 DEF PathLeadsToGoal, goal, Last
<1>6. PathCostBounded'
  <2>1. result'.edge_path = <<>> /\ result'.cost = g_score[e.node]
    BY <1>1
  <2>2. PathCost(result'.edge_path) = 0
    BY <2>1, PathCostOfNone
  <2>3. Reference' = Reference /\ Reaching' = Reaching
    BY <1>2 DEF Reference, Reaching
  <2>. QED
    BY <1>1, <1>2, <1>3, <1>4, <2>1, <2>2, <2>3 DEF PathCostBounded
<1>. QED
  BY <1>2, <1>5, <1>6 DEF PathFollowed

\* Each parent puts one more edge of the graph in front.
LEMMA FollowParentPath == IInv /\ PathFollowed /\ FollowParent => PathFollowed'
<1>. SUFFICES ASSUME IInv, PathFollowed, FollowParent PROVE PathFollowed'
  OBVIOUS
<1>. DEFINE q == parent_map[curr_node].node
            e == parent_map[curr_node].edge
            np == result.node_path
            ep == result.edge_path
<1>1. /\ pc = "extract" /\ pc' = "extract" /\ result.success
      /\ UNCHANGED <<problem, g_score, parent_map>>
      /\ curr_node \in DOMAIN parent_map
      /\ curr_node' = q
  BY DEF FollowParent, IInv, ResultIsRight
<1>2. /\ np \in Seq(Nodes) /\ ep \in Seq(Edge)
      /\ q \in DOMAIN g_score /\ q \in Nodes /\ e \in Edge
      /\ e \in Range(neighborEdges(problem, q)) /\ e.to = curr_node
      /\ g_score[q] \in Nat /\ g_score[curr_node] \in Nat /\ e.cost \in Nat
      /\ curr_node \in Nodes /\ result.cost \in Nat
      /\ problem \in Problems
  BY <1>1 DEF IInv, TypeOK, Edge
<1>3. /\ result'.node_path = <<q>> \o np
      /\ result'.edge_path = <<e>> \o ep
      /\ result'.cost = result.cost
  BY DEF FollowParent, IInv, TypeOK
<1>4. PathLeadsToGoal /\ PathCostBounded
  BY <1>1 DEF PathFollowed
<1>. HIDE DEF q, e, np, ep
<1>5. /\ Len(np) = Len(ep) + 1
      /\ np[1] = curr_node
      /\ goal(problem, np[Len(np)])
      /\ \A k \in 1 .. Len(ep) :
            /\ ep[k] \in Range(neighborEdges(problem, np[k]))
            /\ ep[k].to = np[k + 1]
  BY <1>4 DEF PathLeadsToGoal, Last, np, ep
<1>6. PathLeadsToGoal'
  <2>. DEFINE np1 == <<q>> \o np
              ep1 == <<e>> \o ep
  <2>1. /\ Len(np1) = Len(np) + 1 /\ Len(ep1) = Len(ep) + 1
        /\ np1[1] = q /\ ep1[1] = e
        /\ \A k \in 1 .. Len(np) : np1[k + 1] = np[k]
        /\ \A k \in 1 .. Len(ep) : ep1[k + 1] = ep[k]
        /\ Len(np) \in Nat /\ Len(ep) \in Nat
    BY <1>2
  <2>. HIDE DEF np1, ep1
  <2>2. Len(np1) = Len(ep1) + 1
    BY <1>5, <2>1
  <2>3. np1[Len(np1)] = np[Len(np)]
    BY <1>5, <2>1
  <2>4. ASSUME NEW k \in 1 .. Len(ep1)
        PROVE  /\ ep1[k] \in Range(neighborEdges(problem, np1[k]))
               /\ ep1[k].to = np1[k + 1]
    <3>1. CASE k = 1
      <4>1. np1[k + 1] = curr_node
        BY <1>5, <2>1, <3>1
      <4>. QED
        BY <1>2, <2>1, <3>1, <4>1
    <3>2. CASE k # 1
      <4>1. k - 1 \in 1 .. Len(ep) /\ k - 1 \in 1 .. Len(np) /\ (k - 1) + 1 = k
            /\ k \in 1 .. Len(np)
        BY <1>5, <2>1, <3>2
      <4>2. /\ ep[k - 1] \in Range(neighborEdges(problem, np[k - 1]))
            /\ ep[k - 1].to = np[k]
        BY <1>5, <4>1
      <4>3. ep1[k] = ep[k - 1] /\ np1[k] = np[k - 1] /\ np1[k + 1] = np[k]
        BY <2>1, <4>1
      <4>. QED
        BY <4>2, <4>3
    <3>. QED
      BY <3>1, <3>2
  <2>5. /\ result'.node_path = np1 /\ result'.edge_path = ep1
        /\ problem' = problem /\ curr_node' = q
    BY <1>1, <1>3 DEF np1, ep1
  <2>. QED
    BY <1>5, <2>1, <2>2, <2>3, <2>4, <2>5 DEF PathLeadsToGoal, Last, goal, neighborEdges
<1>7. PathCostBounded'
  <2>1. PathCost(ep) \in Nat /\ PathCost(<<e>> \o ep) = e.cost + PathCost(ep)
    BY <1>2, PathCostOfEdgeInFront
  <2>2. /\ g_score[curr_node] + PathCost(ep) <= result.cost
        /\ curr_node \in Reaching
        /\ Reference.cost[curr_node] <= PathCost(ep)
    BY <1>4 DEF PathCostBounded, ep
  <2>3. g_score[q] + e.cost <= g_score[curr_node]
    BY <1>1 DEF IInv, TreeBoundsLabels, q, e
  <2>4. q \in Reaching /\ Reference.cost[q] <= e.cost + Reference.cost[curr_node]
    <3>1. PICK k \in DOMAIN neighborEdges(problem, q) : e = neighborEdges(problem, q)[k]
      BY <1>2 DEF Range
    <3>. QED
      BY <1>2, <2>2, <3>1, ReferenceFacts DEF IInv
  <2>5. Reference.cost[q] \in Nat /\ Reference.cost[curr_node] \in Nat
    BY <2>2, <2>4, ReferenceFacts DEF IInv
  <2>6. g_score[q] + PathCost(<<e>> \o ep) <= result.cost
    BY <1>2, <2>1, <2>2, <2>3
  <2>7. Reference.cost[q] <= PathCost(<<e>> \o ep)
    BY <1>2, <2>1, <2>2, <2>4, <2>5
  <2>8. Reference' = Reference /\ Reaching' = Reaching
    BY <1>1 DEF Reference, Reaching
  <2>. QED
    BY <1>1, <1>3, <2>4, <2>6, <2>7, <2>8 DEF PathCostBounded
<1>. QED
  BY <1>1, <1>6, <1>7 DEF PathFollowed

\* Every step keeps what extractPath has followed.
LEMMA NextPathFollowed == IInv /\ PathFollowed /\ [Next]_vars => PathFollowed'
<1>. SUFFICES ASSUME IInv, PathFollowed, [Next]_vars PROVE PathFollowed'
  OBVIOUS
<1>1. CASE SkipStale \/ Expand \/ Relax \/ KeepNeighbor \/ EndNeighbors
  BY <1>1 DEF SkipStale, Expand, Relax, KeepNeighbor, EndNeighbors, PathFollowed
<1>2. CASE ReachGoal
  BY <1>2, ReachGoalPath
<1>3. CASE FollowParent
  BY <1>3, FollowParentPath
<1>4. CASE Fail
  BY <1>4 DEF Fail, PathFollowed, IInv, ResultIsRight
<1>5. CASE EndExtract \/ UNCHANGED vars
  <2>1. UNCHANGED <<problem, g_score, parent_map, curr_node, result>>
    BY <1>5 DEF EndExtract, vars
  <2>2. PathLeadsToGoal' = PathLeadsToGoal /\ PathCostBounded' = PathCostBounded
    BY <2>1 DEF PathLeadsToGoal, PathCostBounded, Reference, Reaching, goal, neighborEdges
  <2>. QED
    BY <1>5, <2>1, <2>2 DEF EndExtract, vars, PathFollowed
<1>. QED
  BY <1>1, <1>2, <1>3, <1>4, <1>5 DEF Next

\* The solution A* returns is a walk of the graph from an initial node to a goal,
\* and its edges cost exactly what is reported, although extractPath reads the
\* path and the cost from two maps that reopenings have overwritten.
THEOREM PathIsExplained == Spec => []PathExplainsCost
<1>1. Init => PathFollowed
  BY DEF Init, PathFollowed
<1>2. IInv /\ PathFollowed => PathExplainsCost
  <2>. SUFFICES ASSUME IInv, PathFollowed, pc = "returned", result.success
                PROVE  PathExplainsCost
    BY DEF PathExplainsCost
  <2>1. PathLeadsToGoal /\ PathCostBounded /\ curr_node \notin DOMAIN parent_map
    BY DEF PathFollowed
  <2>2. curr_node \in problem.initialNodes /\ g_score[curr_node] = 0
    BY <2>1 DEF IInv, TypeOK, TreeBoundsLabels
  <2>3. PathCost(result.edge_path) = result.cost
    <3>1. result.edge_path \in Seq(Edge) /\ result.cost \in Nat
      BY DEF IInv, TypeOK
    <3>2. PathCost(result.edge_path) \in Nat
      <4>1. CASE result.edge_path = <<>>
        BY <4>1, PathCostOfNone
      <4>2. CASE result.edge_path # <<>>
        <5>1. result.edge_path[1] \in Edge
          BY <3>1, <4>2
        <5>. QED
          BY <3>1, <5>1, PathCostOfEdgeInFront
      <4>. QED
        BY <4>1, <4>2
    <3>3. curr_node \in SolvableNodes
      BY <2>1, <2>2 DEF PathCostBounded, SolvableNodes
    <3>4. result.cost <= Reference.cost[curr_node]
      BY <3>3 DEF IInv, ResultIsRight, IsLeastCost
    <3>5. Reference.cost[curr_node] \in Nat
      BY <3>3, ReferenceFacts DEF IInv, SolvableNodes
    <3>6. /\ PathCost(result.edge_path) <= result.cost
          /\ Reference.cost[curr_node] <= PathCost(result.edge_path)
      BY <2>1, <2>2, <3>2 DEF PathCostBounded
    <3>. QED
      BY <3>1, <3>2, <3>4, <3>5, <3>6
  <2>. QED
    BY <2>1, <2>2, <2>3 DEF PathExplainsCost, PathLeadsToGoal
<1>. QED
  BY <1>1, <1>2, NextPathFollowed, InvariantHolds, PTL DEF Spec
=============================================================================
