--------------------------- MODULE MOSearchProofs ---------------------------
(***************************************************************************)
(* Lemmas about the operators both multi-objective searches are built      *)
(* from, for any number of objectives and both containers.                 *)
(***************************************************************************)
EXTENDS MOSearchResult, FiniteSetTheorems, WellFoundedInduction, TLAPS

\* The zero costs are a cost vector.
LEMMA ZeroTyped == Zero \in CostVector
BY DEF Zero, CostVector

\* Both containers' sums are cost vectors.
LEMMA SumTyped ==
    ASSUME NEW p, NEW c \in CostVector, NEW e \in Edge
    PROVE  gScore(p, c, e) \in CostVector
<1>1. e.cost \in CostVector
  BY DEF Edge
<1>2. Plus(c, e.cost) \in CostVector
  BY <1>1 DEF Plus, CostVector
<1>3. PlusUntilZero(c, e.cost) \in CostVector
  BY <1>1 DEF PlusUntilZero, CostVector
<1>4. QED
  BY <1>2, <1>3 DEF gScore


\* The edges out of a node of the graph have their type.
LEMMA EdgeTyped ==
    ASSUME NEW p \in Problems, NEW n \in Nodes
    PROVE  /\ neighborEdges(p, n) \in Seq(Edge)
           /\ Range(neighborEdges(p, n)) \subseteq Edge
<1>1. neighborEdges(p, n) \in Seq(Edge)
  BY MOProblemAssumption DEF IsProblem, neighborEdges
<1>2. QED
  BY <1>1 DEF Range

\* The initial nodes, numbered: a sequence of nodes.
LEMMA InitialNodesNumbered ==
    ASSUME NEW p \in Problems
    PROVE  SetToSeq(p.initialNodes) \in Seq(p.initialNodes)
<1> DEFINE S == p.initialNodes
<1>1. IsFiniteSet(S)
  BY MOProblemAssumption DEF IsProblem
<1>2. /\ Cardinality(S) \in Nat
      /\ \E f \in [1 .. Cardinality(S) -> S] : IsInjective(f)
  BY <1>1, FS_CardinalityType
     DEF ExistsBijection, Bijection, Injection, IsInjective
<1>3. SetToSeq(S) \in [1 .. Cardinality(S) -> S]
  BY <1>2 DEF SetToSeq
<1>4. QED
  BY <1>2, <1>3

\* Sorting one of the result's sequences keeps its type and its length.
LEMMA SortedTyped ==
    ASSUME NEW p, NEW S, NEW s \in Seq(S)
    PROVE  sorted(p, s) \in Seq(S) /\ Len(sorted(p, s)) = Len(s)
<1>1. Reverse(s) \in Seq(S) /\ Len(Reverse(s)) = Len(s)
  BY DEF Reverse
<1>2. QED
  BY <1>1 DEF sorted

-----------------------------------------------------------------------------
\* The order of the natural numbers, as a relation.
NatLess == {ss \in Nat \X Nat : ss[1] < ss[2]}

\* A nonempty set of natural numbers has a least element: the form of induction
\* that the proofs about costs use.
LEMMA NatLeastElement ==
    ASSUME NEW T \in SUBSET Nat, T # {}
    PROVE  \E x \in T : \A y \in T : x <= y
<1>1. OpToRel(<, Nat) = NatLess
  BY Zenon DEF OpToRel, NatLess
<1>2. IsWellFoundedOn(NatLess, Nat)
  BY NatLessThanWellFounded, <1>1, Zenon
<1>3. \E x \in T : \A y \in T : <<y, x>> \notin NatLess
  BY <1>2, WFMin, Zenon
<1>4. PICK x \in T : \A y \in T : <<y, x>> \notin NatLess
  BY <1>3
<1>5. ASSUME NEW y \in T PROVE x <= y
  <2>1. x \in Nat /\ y \in Nat
    OBVIOUS
  <2>2. <<y, x>> \notin NatLess
    BY <1>4, <1>5
  <2>3. ~ (y < x)
    BY <2>1, <2>2, SMT DEF NatLess
  <2>4. QED
    BY <2>1, <2>3, SMT
<1>6. QED
  BY <1>5

\* The order of cost vectors, and how it goes with their sum.
LEMMA CostOrder ==
    ASSUME NEW b \in CostVector, NEW c \in CostVector, NEW d \in CostVector
    PROVE  /\ Plus(c, d) \in CostVector
           /\ Leq(c, c)
           /\ Leq(b, c) /\ Leq(c, d) => Leq(b, d)
           /\ Leq(b, c) /\ Leq(c, b) => b = c
           /\ Leq(c, d) => Leq(Plus(b, c), Plus(b, d))
           /\ Leq(c, Plus(c, d))
<1>1. \A k \in Objectives : b[k] \in Nat /\ c[k] \in Nat /\ d[k] \in Nat
  BY DEF CostVector
<1>2. Plus(c, d) \in CostVector
  BY <1>1 DEF Plus, CostVector
<1>3. Leq(c, c) /\ Leq(c, Plus(c, d))
  BY <1>1 DEF Leq, Plus
<1>4. Leq(b, c) /\ Leq(c, d) => Leq(b, d)
  BY <1>1 DEF Leq
<1>5. Leq(b, c) /\ Leq(c, b) => b = c
  <2> SUFFICES ASSUME Leq(b, c), Leq(c, b) PROVE b = c
    OBVIOUS
  <2>1. \A k \in Objectives : b[k] = c[k]
    BY <1>1 DEF Leq
  <2>2. QED
    BY <2>1 DEF CostVector
<1>6. Leq(c, d) => Leq(Plus(b, c), Plus(b, d))
  BY <1>1 DEF Leq, Plus
<1>7. QED
  BY <1>2, <1>3, <1>4, <1>5, <1>6

\* The sum of two cost vectors is one.
LEMMA PlusTyped ==
    ASSUME NEW c \in CostVector, NEW d \in CostVector
    PROVE  Plus(c, d) \in CostVector
BY DEF CostVector, Plus

\* A larger summand makes a larger sum.
LEMMA SumMonotone ==
    ASSUME NEW b \in CostVector, NEW c \in CostVector, NEW d \in CostVector, Leq(c, d)
    PROVE  Leq(Plus(b, c), Plus(b, d))
BY DEF CostVector, Leq, Plus

\* Equal summands can be left out.
LEMMA SumCancels ==
    ASSUME NEW b \in CostVector, NEW c \in CostVector, NEW d \in CostVector,
           Plus(b, c) = Plus(b, d)
    PROVE  c = d
<1>1. ASSUME NEW k \in Objectives PROVE c[k] = d[k]
  <2>1. b[k] \in Nat /\ c[k] \in Nat /\ d[k] \in Nat
    BY DEF CostVector
  <2>2. Plus(b, c)[k] = b[k] + c[k] /\ Plus(b, d)[k] = b[k] + d[k]
    BY DEF Plus
  <2>3. QED
    BY <2>1, <2>2
<1>2. QED
  BY <1>1 DEF CostVector

\* Zero adds nothing.
LEMMA SumWithZero ==
    ASSUME NEW c \in CostVector
    PROVE  Plus(Zero, c) = c /\ Plus(c, Zero) = c
<1>1. \A k \in Objectives : 0 + c[k] = c[k] /\ c[k] + 0 = c[k]
  BY DEF CostVector
<1>2. QED
  BY <1>1 DEF Plus, Zero, CostVector

\* The sum of cost vectors is that of their components.
LEMMA SumOrder ==
    ASSUME NEW b \in CostVector, NEW c \in CostVector, NEW d \in CostVector
    PROVE  /\ Plus(Plus(b, c), d) = Plus(b, Plus(c, d))
           /\ Plus(b, c) = Plus(c, b)
<1>1. \A k \in Objectives : b[k] \in Nat /\ c[k] \in Nat /\ d[k] \in Nat
  BY DEF CostVector
<1>2. Plus(Plus(b, c), d) = Plus(b, Plus(c, d))
  BY <1>1 DEF Plus
<1>3. \A k \in Objectives : b[k] + c[k] = c[k] + b[k]
  BY <1>1
<1>4. QED
  BY <1>2, <1>3 DEF Plus

\* A set of cost vectors, however large, has nondominated ones, and one of them
\* is below each of its vectors.
LEMMA NonDominatedBelow ==
    ASSUME NEW S \in SUBSET CostVector, NEW v \in S
    PROVE  \E c \in NonDominated(S) : Leq(c, v)
<1> DEFINE Least(T, m) ==
             \A x \in T : \A y \in S : Leq(y, x) => y \in T /\ \A k \in 1 .. m : y[k] = x[k]
           Below == {y \in S : Leq(y, v)}
           Found(m) == \E T \in SUBSET Below : T # {} /\ Least(T, m)
           Missed == {m \in 0 .. NObjectives : ~ Found(m)}
<1>1. NObjectives \in Nat
  BY ObjectivesAssumption
<1>2. Found(0)
  <2>1. v \in Below
    BY CostOrder
  <2>2. ASSUME NEW x \in Below, NEW y \in S, Leq(y, x) PROVE y \in Below
    BY <2>2, CostOrder
  <2>3. Least(Below, 0)
    BY <2>2
  <2>4. QED
    BY <2>1, <2>3
<1>3. ASSUME NEW m \in 0 .. NObjectives - 1, Found(m) PROVE Found(m + 1)
  <2>1. PICK T \in SUBSET Below : T # {} /\ Least(T, m)
    BY <1>3
  <2>2. m + 1 \in Objectives
    BY <1>1 DEF Objectives
  <2>3. \A x \in T : x[m + 1] \in Nat
    BY <2>2 DEF CostVector
  <2> DEFINE Values == {x[m + 1] : x \in T}
  <2>4. PICK q \in Values : \A r \in Values : q <= r
    <3>1. Values \in SUBSET Nat /\ Values # {}
      BY <2>1, <2>3
    <3> HIDE DEF Values
    <3>2. QED
      BY <3>1, NatLeastElement
  <2> DEFINE U == {x \in T : x[m + 1] = q}
  <2>5. U # {} /\ U \in SUBSET Below
    BY <2>4
  <2>6. ASSUME NEW x \in U, NEW y \in S, Leq(y, x)
        PROVE  y \in U /\ \A k \in 1 .. m + 1 : y[k] = x[k]
    <3>1. y \in T /\ \A k \in 1 .. m : y[k] = x[k]
      BY <2>1, <2>6
    <3>2. y[m + 1] <= x[m + 1]
      BY <2>2, <2>6 DEF Leq
    <3>3. q <= y[m + 1] /\ x[m + 1] = q
      BY <2>4, <3>1
    <3>4. y[m + 1] = q
      BY <2>3, <3>1, <3>2, <3>3
    <3>5. QED
      BY <3>1, <3>3, <3>4
  <2>7. Least(U, m + 1)
    BY <2>6
  <2>8. QED
    BY <2>5, <2>7
<1>4. Missed = {}
  <2> SUFFICES ASSUME Missed # {} PROVE FALSE
    OBVIOUS
  <2>1. PICK m \in Missed : \A l \in Missed : m <= l
    <3>1. Missed \in SUBSET Nat
      BY <1>1
    <3>2. QED
      BY <3>1, NatLeastElement
  <2>2. m \in 0 .. NObjectives /\ ~ Found(m)
    BY <2>1
  <2>3. m # 0
    BY <1>2, <2>2
  <2>4. m - 1 \in 0 .. NObjectives - 1 /\ (m - 1) + 1 = m /\ m - 1 \in 0 .. NObjectives
    BY <1>1, <2>2, <2>3
  <2>5. m - 1 \notin Missed
    BY <2>1, <2>2, <2>4
  <2>6. Found(m - 1)
    BY <2>4, <2>5
  <2>7. Found((m - 1) + 1)
    BY <1>3, <2>4, <2>6
  <2>8. QED
    BY <2>2, <2>4, <2>7
<1>5. PICK T \in SUBSET Below : T # {} /\ Least(T, NObjectives)
  BY <1>1, <1>4
<1>6. PICK c \in T : TRUE
  BY <1>5
<1>7. ASSUME NEW y \in S, Leq(y, c) PROVE y = c
  <2>1. \A k \in Objectives : y[k] = c[k]
    BY <1>5, <1>6, <1>7 DEF Objectives
  <2>2. QED
    BY <2>1 DEF CostVector
<1>8. c \in NonDominated(S)
  BY <1>5, <1>6, <1>7 DEF NonDominated, Dominates, dominates
<1>9. QED
  BY <1>6, <1>8

\* What the reference knows of the walks from a node.
LEMMA ReferenceTyped ==
    ASSUME NEW p \in Problems, NEW n \in Nodes
    PROVE  /\ hScore(p, n) \in CostVector
           /\ \A d \in ParetoToGo(p)[n] :
                 d.cost \in CostVector /\ d.hops \in Nat /\ Leq(hScore(p, n), d.cost)
           /\ \A c, d \in ParetoToGo(p)[n] : c.cost = d.cost => c = d
<1>1. IsProblem(p) /\ IsParetoToGo(p, ParetoToGo(p)) /\ Admissible(p)
  BY MOProblemAssumption
<1>2. hScore(p, n) \in CostVector
  BY <1>1 DEF IsProblem, hScore
<1>3. \A d \in ParetoToGo(p)[n] : d.cost \in CostVector /\ d.hops \in Nat
  BY <1>1 DEF IsParetoToGo
<1>4. \A d \in ParetoToGo(p)[n] : Leq(hScore(p, n), d.cost)
  BY <1>1 DEF Admissible, CostsToGo
<1>5. ASSUME NEW c \in ParetoToGo(p)[n], NEW d \in ParetoToGo(p)[n], c.cost = d.cost
      PROVE  c = d
  <2>1. Leq(c.cost, d.cost)
    BY <1>3, <1>5, CostOrder
  <2>2. QED
    BY <1>1, <2>1 DEF IsParetoToGo
<1>6. QED
  BY <1>2, <1>3, <1>4, <1>5

\* What the reference knows of an edge.
LEMMA ReferenceOfEdge ==
    ASSUME NEW p \in Problems, NEW n \in Nodes, NEW j \in DOMAIN neighborEdges(p, n)
    PROVE  /\ neighborEdges(p, n)[j] \in Edge
           /\ neighborEdges(p, n)[j].to \in Nodes
           /\ neighborEdges(p, n)[j].cost \in CostVector
           /\ \A c \in ParetoToGo(p)[neighborEdges(p, n)[j].to] : \E d \in ParetoToGo(p)[n] :
                 Leq(d.cost, Plus(neighborEdges(p, n)[j].cost, c.cost))
<1>1. neighborEdges(p, n)[j] \in Edge
  BY EdgeTyped
<1>2. \A c \in ParetoToGo(p)[neighborEdges(p, n)[j].to] : \E d \in ParetoToGo(p)[n] :
         Leq(d.cost, Plus(neighborEdges(p, n)[j].cost, c.cost))
  BY MOProblemAssumption DEF IsParetoToGo, neighborEdges
<1>3. QED
  BY <1>1, <1>2 DEF Edge

\* The front: its points are costs of walks from an initial node to a goal, none
\* of them is below another, and one is below every such cost.
LEMMA FrontOfReference ==
    ASSUME NEW p \in Problems
    PROVE  /\ ParetoFrontOf(p) \subseteq CostVector
           /\ \A c \in ParetoFrontOf(p) : \E n \in p.initialNodes :
                 \E d \in ParetoToGo(p)[n] : d.cost = c
           /\ \A b, c \in ParetoFrontOf(p) : Leq(b, c) => b = c
           /\ \A n \in p.initialNodes : \A d \in ParetoToGo(p)[n] :
                 \E c \in ParetoFrontOf(p) : Leq(c, d.cost)
<1> DEFINE S == UNION {CostsToGo(p, n) : n \in p.initialNodes}
<1>1. p.initialNodes \subseteq Nodes
  BY MOProblemAssumption DEF IsProblem
<1>2. S \subseteq CostVector
  BY <1>1, ReferenceTyped DEF CostsToGo
<1>3. ParetoFrontOf(p) \subseteq S
  BY DEF ParetoFrontOf, NonDominated
<1>4. \A c \in ParetoFrontOf(p) : \E n \in p.initialNodes : \E d \in ParetoToGo(p)[n] : d.cost = c
  BY <1>3 DEF CostsToGo
<1>5. \A b, c \in ParetoFrontOf(p) : Leq(b, c) => b = c
  BY DEF ParetoFrontOf, NonDominated, Dominates, dominates
<1>6. \A v \in S : \E c \in ParetoFrontOf(p) : Leq(c, v)
  BY <1>2, NonDominatedBelow DEF ParetoFrontOf
<1>7. \A n \in p.initialNodes : \A d \in ParetoToGo(p)[n] : d.cost \in S
  BY DEF CostsToGo
<1>8. QED
  BY <1>2, <1>3, <1>4, <1>5, <1>6, <1>7

\* Where gScore adds.
LEMMA ScoreAdds ==
    ASSUME NEW p \in Problems, Additive(p), NEW n \in Nodes,
           NEW j \in DOMAIN neighborEdges(p, n), NEW c \in CostVector
    PROVE  gScore(p, c, neighborEdges(p, n)[j]) = Plus(c, neighborEdges(p, n)[j].cost)
<1> DEFINE cost == neighborEdges(p, n)[j].cost
<1>1. CASE p.container = "FixedArray"
  BY <1>1 DEF gScore
<1>2. CASE p.container # "FixedArray"
  <2>1. \A k \in Objectives \ {NObjectives} : cost[k] > 0
    BY <1>2 DEF Additive, neighborEdges
  <2>2. cost \in CostVector
    BY ReferenceOfEdge
  <2>3. ASSUME NEW k \in Objectives PROVE ~ \E l \in 1 .. k - 1 : c[l] + cost[l] = 0
    <3> SUFFICES ASSUME NEW l \in 1 .. k - 1 PROVE c[l] + cost[l] # 0
      OBVIOUS
    <3>1. l \in Objectives \ {NObjectives}
      BY ObjectivesAssumption DEF Objectives
    <3>2. c[l] \in Nat /\ cost[l] \in Nat /\ cost[l] > 0
      BY <2>1, <2>2, <3>1 DEF CostVector
    <3>3. QED
      BY <3>2
  <2>4. PlusUntilZero(c, cost) = Plus(c, cost)
    BY <2>3 DEF PlusUntilZero, Plus
  <2>5. QED
    BY <1>2, <2>4 DEF gScore
<1>3. QED
  BY <1>1, <1>2

\* The initial nodes are all numbered.
LEMMA AllInitialNodesNumbered ==
    ASSUME NEW p \in Problems
    PROVE  Range(SetToSeq(p.initialNodes)) = p.initialNodes
<1> DEFINE S == p.initialNodes
<1>1. IsFiniteSet(S)
  BY MOProblemAssumption DEF IsProblem
<1>2. /\ Cardinality(S) \in Nat
      /\ \E f \in [1 .. Cardinality(S) -> S] : IsInjective(f)
  BY <1>1, FS_CardinalityType
     DEF ExistsBijection, Bijection, Injection, IsInjective
<1>3. SetToSeq(S) \in [1 .. Cardinality(S) -> S] /\ IsInjective(SetToSeq(S))
  BY <1>2 DEF SetToSeq
<1>4. IsFiniteSet(1 .. Cardinality(S)) /\ Cardinality(1 .. Cardinality(S)) = Cardinality(S)
  <2>1. \A b \in Nat : IsFiniteSet(1 .. b) /\ Cardinality(1 .. b) = b
    <3> SUFFICES ASSUME NEW b \in Nat
                 PROVE  IsFiniteSet(1 .. b) /\ Cardinality(1 .. b) = b
      OBVIOUS
    <3>1. /\ IsFiniteSet(1 .. b)
          /\ Cardinality(1 .. b) = IF 1 > b THEN 0 ELSE b - 1 + 1
      BY FS_Interval
    <3>2. QED
      BY <3>1
  <2>2. QED
    BY <1>2, <2>1
<1>5. SetToSeq(S) \in Surjection(1 .. Cardinality(S), S)
  <2>1. SetToSeq(S) \in Injection(1 .. Cardinality(S), S)
    BY <1>3 DEF Injection, IsInjective
  <2>2. QED
    BY <1>1, <1>4, <2>1, FS_Surjection, FS_Injection
<1>6. QED
  BY <1>5 DEF Surjection, Range

\* Sorting a sequence keeps its elements.
LEMMA SortedKeepsPoints ==
    ASSUME NEW p, NEW S, NEW s \in Seq(S)
    PROVE  Range(sorted(p, s)) = Range(s)
<1>1. Range(Reverse(s)) = Range(s)
  <2>1. /\ DOMAIN Reverse(s) = 1 .. Len(s) /\ DOMAIN s = 1 .. Len(s) /\ Len(s) \in Nat
        /\ \A k \in 1 .. Len(s) : Reverse(s)[k] = s[Len(s) - k + 1]
    BY DEF Reverse
  <2>2. \A k \in 1 .. Len(s) : Len(s) - k + 1 \in 1 .. Len(s)
                               /\ Len(s) - (Len(s) - k + 1) + 1 = k
    BY <2>1
  <2>3. \A k \in 1 .. Len(s) : Reverse(s)[Len(s) - k + 1] = s[k]
    BY <2>1, <2>2
  <2>4. QED
    BY <2>1, <2>2, <2>3 DEF Range
<1>2. QED
  BY <1>1 DEF sorted

-----------------------------------------------------------------------------
(***************************************************************************)
(* Two operators are folds: the cost of a path, over its edges, and what a *)
(* set leaves of a list.  A fold's values on the prefixes say what it is.  *)
(***************************************************************************)

\* What each fold starts with, and one step of it.
FoldBase(fold) == IF fold = "cost" THEN Zero ELSE <<>>

FoldStep(fold, S, value, x) ==
    IF fold = "cost" THEN Plus(value, x.cost) ELSE IF x \in S THEN Append(value, x) ELSE value

\* The recursion of a fold over the first n elements of s.
FoldsTo(fold, S, s, n, g) ==
    g = [T \in SUBSET (1 .. n) |->
            IF T = {} THEN FoldBase(fold)
                      ELSE FoldStep(fold, S, g[T \ {Max(T)}], s[Max(T)])]

\* A nonempty set of numbers up to n has a greatest.
LEMMA GreatestElement ==
    ASSUME NEW n \in Nat, NEW T \in SUBSET (1 .. n), T # {}
    PROVE  Max(T) \in T /\ \A y \in T : Max(T) >= y
<1> DEFINE U == {n - x : x \in T}
<1>1. U \in SUBSET Nat /\ U # {}
  <2>1. \A x \in T : n - x \in Nat
    OBVIOUS
  <2>2. QED
    BY <2>1
<1>2. PICK u \in U : \A y \in U : u <= y
  <2> HIDE DEF U
  <2>1. QED
    BY <1>1, NatLeastElement
<1>3. PICK x \in T : u = n - x
  BY <1>2
<1>4. \A y \in T : x >= y
  <2> SUFFICES ASSUME NEW y \in T PROVE x >= y
    OBVIOUS
  <2>1. n - x <= n - y
    BY <1>2, <1>3
  <2>2. QED
    BY <2>1
<1>5. QED
  BY <1>4 DEF Max

\* The recursion has a solution.
LEMMA FoldExists ==
    ASSUME NEW fold, NEW S, NEW s, NEW n \in Nat
    PROVE  \E g : FoldsTo(fold, S, s, n, g)
<1> DEFINE Fold(g, T) == IF T = {} THEN FoldBase(fold)
                                   ELSE FoldStep(fold, S, g[T \ {Max(T)}], s[Max(T)])
           Solved(l) == \E g : g = [T \in SUBSET (1 .. l) |-> Fold(g, T)]
           Missed == {l \in Nat : ~ Solved(l)}
<1>1. Solved(0)
  <2> DEFINE g == [T \in SUBSET (1 .. 0) |-> FoldBase(fold)]
  <2>1. \A T \in SUBSET (1 .. 0) : T = {}
    OBVIOUS
  <2>2. g = [T \in SUBSET (1 .. 0) |-> Fold(g, T)]
    BY <2>1
  <2>3. QED
    BY <2>2
<1>2. ASSUME NEW l \in Nat, Solved(l) PROVE Solved(l + 1)
  <2>1. PICK g : g = [T \in SUBSET (1 .. l) |-> Fold(g, T)]
    BY <1>2
  <2> DEFINE h == [T \in SUBSET (1 .. l + 1) |->
                      IF l + 1 \in T THEN FoldStep(fold, S, g[T \ {l + 1}], s[l + 1])
                                        ELSE g[T]]
  <2>2. ASSUME NEW T \in SUBSET (1 .. l + 1) PROVE h[T] = Fold(h, T)
    <3>1. CASE l + 1 \in T
      <4>1. Max(T) = l + 1
        <5>1. l + 1 \in Nat /\ T # {}
          BY <3>1
        <5>2. Max(T) \in T /\ \A y \in T : Max(T) >= y
          BY <5>1, GreatestElement
        <5>3. Max(T) \in 1 .. l + 1 /\ Max(T) >= l + 1
          BY <3>1, <5>2
        <5>4. QED
          BY <5>3
      <4>2. T \ {l + 1} \in SUBSET (1 .. l + 1) /\ l + 1 \notin T \ {l + 1}
        OBVIOUS
      <4>3. h[T \ {l + 1}] = g[T \ {l + 1}]
        BY <4>2
      <4>4. h[T] = FoldStep(fold, S, g[T \ {l + 1}], s[l + 1])
        BY <3>1
      <4>5. QED
        BY <3>1, <4>1, <4>3, <4>4
    <3>2. CASE l + 1 \notin T
      <4>1. T \in SUBSET (1 .. l)
        BY <3>2
      <4>2. h[T] = g[T] /\ g[T] = Fold(g, T)
        BY <2>1, <3>2, <4>1
      <4>3. CASE T = {}
        BY <4>2, <4>3
      <4>4. CASE T # {}
        <5>1. T \ {Max(T)} \in SUBSET (1 .. l + 1) /\ l + 1 \notin T \ {Max(T)}
          BY <3>2
        <5>2. h[T \ {Max(T)}] = g[T \ {Max(T)}]
          BY <5>1
        <5>3. QED
          BY <4>2, <4>4, <5>2
      <4>5. QED
        BY <4>3, <4>4
    <3>3. QED
      BY <3>1, <3>2
  <2>3. h = [T \in SUBSET (1 .. l + 1) |-> Fold(h, T)]
    <3> HIDE DEF Fold
    <3>1. QED
      BY <2>2
  <2>4. QED
    BY <2>3
<1>3. Missed = {}
  <2> SUFFICES ASSUME Missed # {} PROVE FALSE
    OBVIOUS
  <2>1. PICK l \in Missed : \A k \in Missed : l <= k
    <3>1. Missed \in SUBSET Nat
      OBVIOUS
    <3> HIDE DEF Missed
    <3>2. QED
      BY <3>1, NatLeastElement
  <2>2. l \in Nat /\ ~ Solved(l)
    BY <2>1
  <2> HIDE DEF Solved
  <2>3. l # 0
    BY <1>1, <2>2
  <2>4. l - 1 \in Nat /\ (l - 1) + 1 = l /\ ~ (l <= l - 1)
    BY <2>2, <2>3
  <2>5. l - 1 \notin Missed
    BY <2>1, <2>4
  <2>6. Solved(l - 1)
    BY <2>4, <2>5
  <2>7. Solved((l - 1) + 1)
    BY <1>2, <2>4, <2>6
  <2>8. QED
    BY <2>2, <2>4, <2>7
<1>4. Solved(n)
  BY <1>3
<1>5. QED
  BY <1>4 DEF FoldsTo

\* The values of a fold on the prefixes of a list.
LEMMA PrefixValues ==
    ASSUME NEW fold, NEW S, NEW s, NEW n \in Nat, NEW h, FoldsTo(fold, S, s, n, h)
    PROVE  /\ h[1 .. 0] = FoldBase(fold)
           /\ \A k \in 1 .. n : h[1 .. k] = FoldStep(fold, S, h[1 .. k - 1], s[k])
<1>1. h[1 .. 0] = FoldBase(fold)
  <2>1. 1 .. 0 = {} /\ {} \in SUBSET (1 .. n)
    OBVIOUS
  <2>2. h[{}] = FoldBase(fold)
    BY <2>1 DEF FoldsTo
  <2>3. QED
    BY <2>1, <2>2
<1>2. ASSUME NEW k \in 1 .. n PROVE h[1 .. k] = FoldStep(fold, S, h[1 .. k - 1], s[k])
  <2>1. /\ 1 .. k \in SUBSET (1 .. n) /\ 1 .. k # {} /\ k \in Nat
        /\ (1 .. k) \ {k} = 1 .. k - 1
    <3>1. k \in Nat /\ k \in 1 .. k
      OBVIOUS
    <3>2. (1 .. k) \ {k} = 1 .. k - 1
      OBVIOUS
    <3>3. 1 .. k \in SUBSET (1 .. n)
      OBVIOUS
    <3>4. QED
      BY <3>1, <3>2, <3>3
  <2>2. Max(1 .. k) = k
    <3>1. 1 .. k \in SUBSET (1 .. k)
      OBVIOUS
    <3>2. Max(1 .. k) \in 1 .. k /\ \A y \in 1 .. k : Max(1 .. k) >= y
      BY <2>1, <3>1, GreatestElement
    <3>3. Max(1 .. k) >= k /\ Max(1 .. k) <= k /\ Max(1 .. k) \in Nat
      BY <2>1, <3>2
    <3>4. QED
      BY <2>1, <3>3
  <2>3. QED
    BY <2>1, <2>2 DEF FoldsTo
<1>3. QED
  BY <1>1, <1>2

\* The sums of a path's prefixes, the last of which is the path's cost.
LEMMA PrefixSums ==
    ASSUME NEW s \in Seq(Edge)
    PROVE  \E t : /\ t[0] = Zero
                  /\ \A k \in 1 .. Len(s) : t[k] = Plus(t[k - 1], s[k].cost)
                  /\ t[Len(s)] = PathCost(s)
<1> DEFINE Fold(g, T) == IF T = {} THEN Zero ELSE Plus(g[T \ {Max(T)}], s[Max(T)].cost)
<1>1. DOMAIN s = 1 .. Len(s) /\ Len(s) \in Nat
  OBVIOUS
<1>2. \A g : FoldsTo("cost", {}, s, Len(s), g) <=> g = [T \in SUBSET DOMAIN s |-> Fold(g, T)]
  BY <1>1 DEF FoldsTo, FoldBase, FoldStep
<1>3. \E g : g = [T \in SUBSET DOMAIN s |-> Fold(g, T)]
  BY <1>1, <1>2, FoldExists
<1>4. PICK h : /\ h = [T \in SUBSET DOMAIN s |-> Fold(h, T)]
               /\ PathCost(s) = h[DOMAIN s]
  BY <1>3 DEF PathCost, FoldLeft, MapThenFoldSet
<1>5. /\ h[1 .. 0] = FoldBase("cost")
      /\ \A k \in 1 .. Len(s) : h[1 .. k] = FoldStep("cost", {}, h[1 .. k - 1], s[k])
  <2>1. FoldsTo("cost", {}, s, Len(s), h)
    BY <1>2, <1>4
  <2>2. QED
    BY <1>1, <2>1, PrefixValues
<1> DEFINE t == [k \in 0 .. Len(s) |-> h[1 .. k]]
<1>6. t[0] = Zero
  BY <1>1, <1>5 DEF FoldBase
<1>7. ASSUME NEW k \in 1 .. Len(s) PROVE t[k] = Plus(t[k - 1], s[k].cost)
  <2>1. k \in 0 .. Len(s) /\ k - 1 \in 0 .. Len(s)
    BY <1>1
  <2>2. QED
    BY <1>5, <2>1 DEF FoldStep
<1>8. t[Len(s)] = PathCost(s)
  BY <1>1, <1>4
<1>9. QED
  BY <1>6, <1>7, <1>8

\* A path of no edges costs nothing.
LEMMA PathCostOfNone == PathCost(<<>>) = Zero
<1> DEFINE s == <<>>
<1>1. s \in Seq(Edge) /\ Len(s) = 0
  OBVIOUS
<1> HIDE DEF s
<1>2. PICK t : t[0] = Zero /\ t[Len(s)] = PathCost(s)
  BY <1>1, PrefixSums
<1>3. PathCost(s) = Zero
  BY <1>1, <1>2
<1>4. QED
  BY <1>3 DEF s

\* An edge in front of a path adds its cost.
LEMMA PathCostOfEdgeInFront ==
    ASSUME NEW e \in Edge, NEW s \in Seq(Edge)
    PROVE  /\ PathCost(s) \in CostVector
           /\ PathCost(<<e>> \o s) = Plus(e.cost, PathCost(s))
<1> DEFINE s1 == <<e>> \o s
<1>1. /\ s1 \in Seq(Edge) /\ Len(s1) = Len(s) + 1 /\ s1[1] = e /\ Len(s) \in Nat
      /\ \A k \in 1 .. Len(s) : s1[k + 1] = s[k]
  OBVIOUS
<1>2. PICK t : /\ t[0] = Zero
               /\ \A k \in 1 .. Len(s) : t[k] = Plus(t[k - 1], s[k].cost)
               /\ t[Len(s)] = PathCost(s)
  BY PrefixSums
<1>3. PICK u : /\ u[0] = Zero
               /\ \A k \in 1 .. Len(s1) : u[k] = Plus(u[k - 1], s1[k].cost)
               /\ u[Len(s1)] = PathCost(s1)
  BY <1>1, PrefixSums
<1>4. e.cost \in CostVector /\ \A k \in 1 .. Len(s) : s[k].cost \in CostVector
  <2>1. \A k \in 1 .. Len(s) : s[k] \in Edge
    OBVIOUS
  <2>2. \A x \in Edge : x.cost \in CostVector
    BY DEF Edge
  <2>3. QED
    BY <2>1, <2>2
<1> DEFINE Agree(k) == t[k] \in CostVector /\ u[k + 1] = Plus(e.cost, t[k])
           Missed == {k \in 0 .. Len(s) : ~ Agree(k)}
<1>5. Agree(0)
  <2>1. u[0 + 1] = Plus(u[0], s1[0 + 1].cost)
    <3>1. 0 + 1 \in 1 .. Len(s1) /\ (0 + 1) - 1 = 0
      BY <1>1
    <3>2. QED
      BY <1>3, <3>1
  <2>2. u[0 + 1] = e.cost
    BY <1>1, <1>3, <1>4, <2>1, SumWithZero
  <2>3. QED
    BY <1>2, <1>4, <2>2, SumWithZero, ZeroTyped
<1>6. ASSUME NEW k \in 1 .. Len(s), Agree(k - 1) PROVE Agree(k)
  <2>1. t[k] = Plus(t[k - 1], s[k].cost) /\ t[k - 1] \in CostVector
    BY <1>2, <1>6
  <2>2. t[k] \in CostVector
    <3>1. s[k].cost \in CostVector
      BY <1>4
    <3>2. QED
      BY <2>1, <3>1, PlusTyped
  <2>3. u[k + 1] = Plus(u[k], s[k].cost)
    <3>1. k + 1 \in 1 .. Len(s1) /\ (k + 1) - 1 = k
      BY <1>1
    <3>2. QED
      BY <1>1, <1>3, <3>1
  <2>4. u[k] = Plus(e.cost, t[k - 1])
    <3>1. (k - 1) + 1 = k
      BY <1>1
    <3>2. QED
      BY <1>6, <3>1
  <2>5. u[k + 1] = Plus(e.cost, t[k])
    BY <1>4, <2>1, <2>3, <2>4, SumOrder
  <2>6. QED
    BY <2>2, <2>5
<1>7. Missed = {}
  <2> SUFFICES ASSUME Missed # {} PROVE FALSE
    OBVIOUS
  <2>1. PICK k \in Missed : \A l \in Missed : k <= l
    <3>1. Missed \in SUBSET Nat
      OBVIOUS
    <3> HIDE DEF Missed
    <3>2. QED
      BY <3>1, NatLeastElement
  <2>2. k \in 0 .. Len(s) /\ ~ Agree(k)
    BY <2>1
  <2> HIDE DEF Agree
  <2>3. k # 0
    BY <1>5, <2>2
  <2>4. k \in 1 .. Len(s) /\ k - 1 \in 0 .. Len(s) /\ ~ (k <= k - 1)
    BY <1>1, <2>2, <2>3
  <2>5. k - 1 \notin Missed
    BY <2>1, <2>4
  <2>6. Agree(k - 1)
    BY <2>4, <2>5
  <2>7. QED
    BY <1>6, <2>2, <2>4, <2>6
<1>8. Agree(Len(s))
  BY <1>1, <1>7
<1>9. QED
  BY <1>1, <1>2, <1>3, <1>8

\* The cost of a path is a cost vector.
LEMMA PathCostTyped ==
    ASSUME NEW s \in Seq(Edge)
    PROVE  PathCost(s) \in CostVector
<1>1. CASE Len(s) = 0
  <2>1. s = <<>>
    BY <1>1
  <2>2. QED
    BY <2>1, PathCostOfNone, ZeroTyped
<1>2. CASE Len(s) # 0
  <2>1. s[1] \in Edge
    BY <1>2
  <2>2. QED
    BY <2>1, PathCostOfEdgeInFront
<1>3. QED
  BY <1>1, <1>2

-----------------------------------------------------------------------------
(***************************************************************************)
(* What a set leaves of a list, place by place.                            *)
(***************************************************************************)

\* What is left of a list's prefixes, the last of which is the list itself.
LEMMA PrefixesLeft ==
    ASSUME NEW D, NEW s \in Seq(D), NEW S
    PROVE  \E t : /\ t[0] = <<>>
                  /\ \A k \in 1 .. Len(s) :
                        t[k] = IF s[k] \in S THEN Append(t[k - 1], s[k]) ELSE t[k - 1]
                  /\ t[Len(s)] = Sublist(s, S)
<1> DEFINE Step(v, x) == IF x \in S THEN Append(v, x) ELSE v
           Fold(g, T) == IF T = {} THEN <<>> ELSE Step(g[T \ {Max(T)}], s[Max(T)])
<1>1. DOMAIN s = 1 .. Len(s) /\ Len(s) \in Nat
  OBVIOUS
<1>2. \A g : FoldsTo("list", S, s, Len(s), g) <=> g = [T \in SUBSET DOMAIN s |-> Fold(g, T)]
  BY <1>1 DEF FoldsTo, FoldBase, FoldStep
<1>3. \E g : g = [T \in SUBSET DOMAIN s |-> Fold(g, T)]
  BY <1>1, <1>2, FoldExists
<1>4. PICK h : /\ h = [T \in SUBSET DOMAIN s |-> Fold(h, T)]
               /\ Sublist(s, S) = h[DOMAIN s]
  BY <1>3 DEF Sublist, FoldLeft, MapThenFoldSet
<1>5. /\ h[1 .. 0] = FoldBase("list")
      /\ \A k \in 1 .. Len(s) : h[1 .. k] = FoldStep("list", S, h[1 .. k - 1], s[k])
  <2>1. FoldsTo("list", S, s, Len(s), h)
    BY <1>2, <1>4
  <2>2. QED
    BY <1>1, <2>1, PrefixValues
<1> DEFINE t == [k \in 0 .. Len(s) |-> h[1 .. k]]
<1>6. t[0] = <<>>
  BY <1>1, <1>5 DEF FoldBase
<1>7. ASSUME NEW k \in 1 .. Len(s) PROVE t[k] = Step(t[k - 1], s[k])
  <2>1. k \in 0 .. Len(s) /\ k - 1 \in 0 .. Len(s)
    BY <1>1
  <2>2. QED
    BY <1>5, <2>1 DEF FoldStep
<1>8. t[Len(s)] = Sublist(s, S)
  BY <1>1, <1>4
<1>9. QED
  BY <1>6, <1>7, <1>8

\* Each place of what is left is a place of the list: at lists the place each
\* element left has come from.
Left(list, S, left, at) ==
    /\ at \in [DOMAIN left -> {k \in DOMAIN list : list[k] \in S}]
    /\ \A j \in DOMAIN left : left[j] = list[at[j]]
    /\ \A j, k \in DOMAIN left : at[j] = at[k] => j = k
    /\ \A k \in DOMAIN list : list[k] \in S => \E j \in DOMAIN left : at[j] = k

\* What is left are exactly the elements in S, at places of their own.
LEMMA SublistPlaces ==
    ASSUME NEW D, NEW s \in Seq(D), NEW S
    PROVE  /\ Sublist(s, S) \in Seq(D)
           /\ \E at : Left(s, S, Sublist(s, S), at)
<1>1. PICK t : /\ t[0] = <<>>
               /\ \A k \in 1 .. Len(s) :
                     t[k] = IF s[k] \in S THEN Append(t[k - 1], s[k]) ELSE t[k - 1]
               /\ t[Len(s)] = Sublist(s, S)
  BY PrefixesLeft
<1>2. DOMAIN s = 1 .. Len(s) /\ Len(s) \in Nat
  OBVIOUS
<1> DEFINE Places(k, left, at) ==
              /\ at \in [DOMAIN left -> {j \in 1 .. k : s[j] \in S}]
              /\ \A j \in DOMAIN left : left[j] = s[at[j]]
              /\ \A j, l \in DOMAIN left : at[j] = at[l] => j = l
              /\ \A l \in 1 .. k : s[l] \in S => \E j \in DOMAIN left : at[j] = l
           Good(k) == t[k] \in Seq(D) /\ \E at : Places(k, t[k], at)
           Missed == {k \in 0 .. Len(s) : ~ Good(k)}
<1>3. Good(0)
  <2> DEFINE at == [j \in {} |-> 0]
  <2>1. DOMAIN t[0] = {} /\ t[0] \in Seq(D)
    BY <1>1
  <2>2. at \in [DOMAIN t[0] -> {j \in 1 .. 0 : s[j] \in S}]
    BY <2>1
  <2>3. Places(0, t[0], at)
    BY <2>1, <2>2
  <2>4. QED
    BY <2>1, <2>3
<1>4. ASSUME NEW k \in 1 .. Len(s), Good(k - 1) PROVE Good(k)
  <2>1. PICK at : Places(k - 1, t[k - 1], at)
    BY <1>4
  <2>2. t[k - 1] \in Seq(D) /\ s[k] \in D /\ k \in Nat
    BY <1>4
  <2>3. CASE s[k] \notin S
    <3>1. t[k] = t[k - 1]
      BY <1>1, <2>3
    <3>2. {j \in 1 .. k : s[j] \in S} = {j \in 1 .. k - 1 : s[j] \in S}
      BY <2>2, <2>3
    <3>3. Places(k, t[k - 1], at)
      BY <2>1, <3>2
    <3>4. QED
      BY <2>2, <3>1, <3>3
  <2>4. CASE s[k] \in S
    <3> DEFINE old == t[k - 1]
               m == Len(old) + 1
               new == [j \in DOMAIN old \cup {m} |-> IF j = m THEN k ELSE at[j]]
    <3>1. t[k] = Append(old, s[k])
      BY <1>1, <2>4
    <3>2. /\ t[k] \in Seq(D) /\ DOMAIN t[k] = DOMAIN old \cup {m} /\ m \notin DOMAIN old
          /\ t[k][m] = s[k] /\ \A j \in DOMAIN old : t[k][j] = old[j]
      BY <2>2, <3>1
    <3>3. \A j \in DOMAIN old : at[j] \in 1 .. k - 1 /\ s[at[j]] \in S
      BY <2>1
    <3>4. \A j \in DOMAIN old : at[j] \in 1 .. k /\ at[j] # k
      BY <2>2, <3>3
    <3> HIDE DEF old, m
    <3>5. new \in [DOMAIN t[k] -> {j \in 1 .. k : s[j] \in S}]
      <4>1. k \in {j \in 1 .. k : s[j] \in S}
        BY <2>2, <2>4
      <4>2. \A j \in DOMAIN old : new[j] \in {l \in 1 .. k : s[l] \in S}
        BY <3>2, <3>3, <3>4
      <4>3. QED
        BY <3>2, <4>1, <4>2
    <3>6. \A j \in DOMAIN t[k] : t[k][j] = s[new[j]]
      <4>1. \A j \in DOMAIN old : old[j] = s[at[j]]
        BY <2>1 DEF old
      <4>2. QED
        BY <3>2, <4>1
    <3>7. \A j, l \in DOMAIN t[k] : new[j] = new[l] => j = l
      <4>1. \A j, l \in DOMAIN old : at[j] = at[l] => j = l
        BY <2>1 DEF old
      <4>2. QED
        BY <3>2, <3>4, <4>1
    <3>8. ASSUME NEW l \in 1 .. k, s[l] \in S PROVE \E j \in DOMAIN t[k] : new[j] = l
      <4>1. CASE l = k
        BY <3>2, <4>1
      <4>2. CASE l # k
        <5>1. l \in 1 .. k - 1
          BY <2>2, <4>2
        <5>2. PICK j \in DOMAIN old : at[j] = l
          BY <2>1, <3>8, <5>1 DEF old
        <5>3. QED
          BY <3>2, <5>2
      <4>3. QED
        BY <4>1, <4>2
    <3>9. Places(k, t[k], new)
      BY <3>5, <3>6, <3>7, <3>8
    <3>10. QED
      BY <3>2, <3>9
  <2>5. QED
    BY <2>3, <2>4
<1>5. Missed = {}
  <2> SUFFICES ASSUME Missed # {} PROVE FALSE
    OBVIOUS
  <2>1. PICK k \in Missed : \A l \in Missed : k <= l
    <3>1. Missed \in SUBSET Nat
      OBVIOUS
    <3> HIDE DEF Missed
    <3>2. QED
      BY <3>1, NatLeastElement
  <2>2. k \in 0 .. Len(s) /\ ~ Good(k)
    BY <2>1
  <2> HIDE DEF Good
  <2>3. k # 0
    BY <1>3, <2>2
  <2>4. k \in 1 .. Len(s) /\ k - 1 \in 0 .. Len(s) /\ ~ (k <= k - 1)
    BY <1>2, <2>2, <2>3
  <2>5. k - 1 \notin Missed
    BY <2>1, <2>4
  <2>6. Good(k - 1)
    BY <2>4, <2>5
  <2>7. QED
    BY <1>4, <2>2, <2>4, <2>6
<1>6. Good(Len(s))
  <2> HIDE DEF Good
  <2>1. QED
    BY <1>2, <1>5
<1>7. QED
  BY <1>1, <1>2, <1>6 DEF Left

\* In particular, they are a sequence whose elements are those in S.
LEMMA SublistElements ==
    ASSUME NEW D, NEW s \in Seq(D), NEW S
    PROVE  /\ Sublist(s, S) \in Seq(D)
           /\ Range(Sublist(s, S)) = Range(s) \cap S
<1>1. PICK at : Left(s, S, Sublist(s, S), at)
  BY SublistPlaces
<1>2. Range(Sublist(s, S)) \subseteq Range(s) \cap S
  BY <1>1 DEF Left, Range
<1>3. Range(s) \cap S \subseteq Range(Sublist(s, S))
  <2> SUFFICES ASSUME NEW k \in DOMAIN s, s[k] \in S
               PROVE  \E j \in DOMAIN Sublist(s, S) : Sublist(s, S)[j] = s[k]
    BY DEF Range
  <2>1. PICK j \in DOMAIN Sublist(s, S) : at[j] = k
    BY <1>1 DEF Left
  <2>2. QED
    BY <1>1, <2>1 DEF Left
<1>4. QED
  BY <1>2, <1>3, SublistPlaces
=============================================================================
