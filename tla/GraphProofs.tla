------------------------------ MODULE GraphProofs ------------------------------
(***************************************************************************)
(* The adjacency lists of Graph tell of the same connections from both     *)
(* ends, for any number of nodes, connections and edge values: and so they *)
(* are a bag of connections, as Multigraph has it.                         *)
(***************************************************************************)
EXTENDS Graph, FiniteSetTheorems, WellFoundedInduction, TLAPS

-----------------------------------------------------------------------------
(***************************************************************************)
(* Removing entries from a list is a fold over it: what is kept of its     *)
(* prefixes.                                                               *)
(***************************************************************************)
Entry == [node : Nat, edge : Edges]

\* One step of Without.
Keep(removed, kept, entry) == IF entry \in removed THEN kept ELSE Append(kept, entry)

\* The order of the natural numbers, as a relation.
NatLess == {ss \in Nat \X Nat : ss[1] < ss[2]}

\* Every nonempty set of naturals has a least element: induction on the length of
\* a list takes the least length that is an exception.
LEMMA NatLeastElement ==
    ASSUME NEW T \in SUBSET Nat, T # {}
    PROVE  \E x \in T : \A y \in T : x <= y
<1>1. OpToRel(<, Nat) = NatLess
  BY Zenon DEF OpToRel, NatLess
<1>2. IsWellFoundedOn(NatLess, Nat)
  BY NatLessThanWellFounded, <1>1, Zenon
<1>3. \E x \in T : \A y \in T : <<y, x>> \notin NatLess
  BY <1>2, WFMin, Zenon
<1>4. PICK x \in T : \A y \in T : <<y, x>> \notin NatLess
  BY <1>3
<1>5. ASSUME NEW y \in T PROVE x <= y
  <2>1. x \in Nat /\ y \in Nat
    OBVIOUS
  <2>2. <<y, x>> \notin NatLess
    BY <1>4, <1>5
  <2>3. ~ (y < x)
    BY <2>1, <2>2, SMT DEF NatLess
  <2>. QED
    BY <2>1, <2>3, SMT
<1>. QED
  BY <1>5

\* A nonempty set of numbers up to n has a greatest.
LEMMA GreatestElement ==
    ASSUME NEW n \in Nat, NEW T \in SUBSET (1 .. n), T # {}
    PROVE  Max(T) \in T /\ \A y \in T : Max(T) >= y
<1>. DEFINE U == {n - x : x \in T}
<1>1. U \in SUBSET Nat /\ U # {}
  <2>1. \A x \in T : n - x \in Nat
    OBVIOUS
  <2>2. QED
    BY <2>1
<1>2. PICK u \in U : \A y \in U : u <= y
  <2>. HIDE DEF U
  <2>1. QED
    BY <1>1, NatLeastElement
<1>3. PICK x \in T : u = n - x
  BY <1>2
<1>4. \A y \in T : x >= y
  <2>. SUFFICES ASSUME NEW y \in T PROVE x >= y
    OBVIOUS
  <2>1. n - x <= n - y
    BY <1>2, <1>3
  <2>2. QED
    BY <2>1
<1>5. QED
  BY <1>4 DEF Max

\* The recursion of the fold over the first n entries of s.
FoldsTo(s, removed, n, g) ==
    g = [T \in SUBSET (1 .. n) |->
            IF T = {} THEN <<>> ELSE Keep(removed, g[T \ {Max(T)}], s[Max(T)])]

\* The recursion has a solution.
LEMMA FoldExists ==
    ASSUME NEW s, NEW removed, NEW n \in Nat
    PROVE  \E g : FoldsTo(s, removed, n, g)
<1>. DEFINE Fold(g, T) == IF T = {} THEN <<>> ELSE Keep(removed, g[T \ {Max(T)}], s[Max(T)])
           Solved(l) == \E g : g = [T \in SUBSET (1 .. l) |-> Fold(g, T)]
           Missed == {l \in Nat : ~ Solved(l)}
<1>1. Solved(0)
  <2>. DEFINE g == [T \in SUBSET (1 .. 0) |-> <<>>]
  <2>1. \A T \in SUBSET (1 .. 0) : T = {}
    OBVIOUS
  <2>2. g = [T \in SUBSET (1 .. 0) |-> Fold(g, T)]
    BY <2>1
  <2>3. QED
    BY <2>2
<1>2. ASSUME NEW l \in Nat, Solved(l) PROVE Solved(l + 1)
  <2>1. PICK g : g = [T \in SUBSET (1 .. l) |-> Fold(g, T)]
    BY <1>2
  <2>. DEFINE h == [T \in SUBSET (1 .. l + 1) |->
                      IF l + 1 \in T THEN Keep(removed, g[T \ {l + 1}], s[l + 1]) ELSE g[T]]
  <2>2. ASSUME NEW T \in SUBSET (1 .. l + 1) PROVE h[T] = Fold(h, T)
    <3>1. CASE l + 1 \in T
      <4>1. Max(T) = l + 1
        <5>1. l + 1 \in Nat /\ T # {}
          BY <3>1
        <5>2. Max(T) \in T /\ \A y \in T : Max(T) >= y
          BY <5>1, GreatestElement
        <5>3. Max(T) \in 1 .. l + 1 /\ Max(T) >= l + 1
          BY <3>1, <5>2
        <5>4. QED
          BY <5>3
      <4>2. T \ {l + 1} \in SUBSET (1 .. l + 1) /\ l + 1 \notin T \ {l + 1}
        OBVIOUS
      <4>3. h[T \ {l + 1}] = g[T \ {l + 1}]
        BY <4>2
      <4>4. h[T] = Keep(removed, g[T \ {l + 1}], s[l + 1])
        BY <3>1
      <4>5. QED
        BY <3>1, <4>1, <4>3, <4>4
    <3>2. CASE l + 1 \notin T
      <4>1. T \in SUBSET (1 .. l)
        BY <3>2
      <4>2. h[T] = g[T] /\ g[T] = Fold(g, T)
        BY <2>1, <3>2, <4>1
      <4>3. CASE T = {}
        BY <4>2, <4>3
      <4>4. CASE T # {}
        <5>1. T \ {Max(T)} \in SUBSET (1 .. l + 1) /\ l + 1 \notin T \ {Max(T)}
          BY <3>2
        <5>2. h[T \ {Max(T)}] = g[T \ {Max(T)}]
          BY <5>1
        <5>3. QED
          BY <4>2, <4>4, <5>2
      <4>5. QED
        BY <4>3, <4>4
    <3>3. QED
      BY <3>1, <3>2
  <2>3. h = [T \in SUBSET (1 .. l + 1) |-> Fold(h, T)]
    <3>. HIDE DEF Fold
    <3>1. QED
      BY <2>2
  <2>4. QED
    BY <2>3
<1>3. Missed = {}
  <2>. SUFFICES ASSUME Missed # {} PROVE FALSE
    OBVIOUS
  <2>1. PICK l \in Missed : \A k \in Missed : l <= k
    <3>1. Missed \in SUBSET Nat
      OBVIOUS
    <3>. HIDE DEF Missed
    <3>2. QED
      BY <3>1, NatLeastElement
  <2>2. l \in Nat /\ ~ Solved(l)
    BY <2>1
  <2>. HIDE DEF Solved
  <2>3. l # 0
    BY <1>1, <2>2
  <2>4. l - 1 \in Nat /\ (l - 1) + 1 = l /\ ~ (l <= l - 1)
    BY <2>2, <2>3
  <2>5. l - 1 \notin Missed
    BY <2>1, <2>4
  <2>6. Solved(l - 1)
    BY <2>4, <2>5
  <2>7. Solved((l - 1) + 1)
    BY <1>2, <2>4, <2>6
  <2>8. QED
    BY <2>2, <2>4, <2>7
<1>4. Solved(n)
  BY <1>3
<1>5. QED
  BY <1>4 DEF FoldsTo

\* What is kept of a list's prefixes, the last of which is what is kept of the list.
LEMMA PrefixesKept ==
    ASSUME NEW s \in Seq(Entry), NEW removed
    PROVE  \E t : /\ t[0] = <<>>
                  /\ \A k \in 1 .. Len(s) : t[k] = Keep(removed, t[k - 1], s[k])
                  /\ t[Len(s)] = Without(s, removed)
<1>. DEFINE Fold(g, T) == IF T = {} THEN <<>> ELSE Keep(removed, g[T \ {Max(T)}], s[Max(T)])
<1>1. DOMAIN s = 1 .. Len(s) /\ Len(s) \in Nat
  OBVIOUS
<1>2. \E g : g = [T \in SUBSET DOMAIN s |-> Fold(g, T)]
  <2>1. PICK g : FoldsTo(s, removed, Len(s), g)
    BY <1>1, FoldExists
  <2>2. QED
    BY <1>1, <2>1 DEF FoldsTo
<1>3. PICK h : /\ h = [T \in SUBSET DOMAIN s |-> Fold(h, T)]
               /\ Without(s, removed) = h[DOMAIN s]
  BY <1>2 DEF Without, Keep, FoldLeft, MapThenFoldSet
<1>. DEFINE t == [k \in 0 .. Len(s) |-> h[1 .. k]]
<1>4. t[0] = <<>>
  <2>1. 1 .. 0 = {} /\ {} \in SUBSET DOMAIN s
    OBVIOUS
  <2>2. h[{}] = <<>>
    BY <1>3, <2>1
  <2>3. QED
    BY <1>1, <2>1, <2>2
<1>5. ASSUME NEW k \in 1 .. Len(s) PROVE t[k] = Keep(removed, t[k - 1], s[k])
  <2>1. /\ 1 .. k \in SUBSET DOMAIN s /\ 1 .. k # {} /\ k \in Nat
        /\ (1 .. k) \ {k} = 1 .. k - 1
        /\ k \in 0 .. Len(s) /\ k - 1 \in 0 .. Len(s)
    <3>1. k \in Nat /\ k \in 1 .. k /\ k \in 0 .. Len(s) /\ k - 1 \in 0 .. Len(s)
      BY <1>1
    <3>2. (1 .. k) \ {k} = 1 .. k - 1
      BY <1>1
    <3>3. 1 .. k \in SUBSET (1 .. Len(s))
      BY <1>1
    <3>4. QED
      BY <1>1, <3>1, <3>2, <3>3
  <2>2. Max(1 .. k) = k
    <3>1. 1 .. k \in SUBSET (1 .. k)
      OBVIOUS
    <3>2. Max(1 .. k) \in 1 .. k /\ \A y \in 1 .. k : Max(1 .. k) >= y
      BY <2>1, <3>1, GreatestElement
    <3>3. Max(1 .. k) >= k /\ Max(1 .. k) <= k /\ Max(1 .. k) \in Nat
      BY <2>1, <3>2
    <3>4. QED
      BY <2>1, <3>3
  <2>3. h[1 .. k] = Keep(removed, h[1 .. k - 1], s[k])
    BY <1>3, <2>1, <2>2
  <2>4. QED
    BY <2>1, <2>3
<1>6. t[Len(s)] = Without(s, removed)
  BY <1>1, <1>3
<1>7. QED
  BY <1>4, <1>5, <1>6

-----------------------------------------------------------------------------
(***************************************************************************)
(* How often a connection is in a list.                                    *)
(***************************************************************************)

\* The places of an entry are finitely many, and there are some if the list
\* holds it.
LEMMA OccurrencesTyped ==
    ASSUME NEW l \in Seq(Entry), NEW m, NEW e
    PROVE  /\ IsFiniteSet({k \in DOMAIN l : l[k] = [node |-> m, edge |-> e]})
           /\ Occurrences(l, m, e) \in Nat
           /\ Occurrences(l, m, e) = 0 <=> [node |-> m, edge |-> e] \notin Range(l)
<1>. DEFINE Places == {k \in DOMAIN l : l[k] = [node |-> m, edge |-> e]}
<1>1. DOMAIN l = 1 .. Len(l) /\ Len(l) \in Nat
  OBVIOUS
<1>2. IsFiniteSet(1 .. Len(l))
  BY <1>1, FS_Interval
<1>3. IsFiniteSet(Places)
  BY <1>1, <1>2, FS_Subset
<1>4. Cardinality(Places) \in Nat /\ (Cardinality(Places) = 0 <=> Places = {})
  BY <1>3, FS_CardinalityType, FS_EmptySet
<1>5. QED
  BY <1>3, <1>4 DEF Occurrences, Range

\* The empty list holds nothing.
LEMMA OccurrencesOfNone ==
    ASSUME NEW m, NEW e
    PROVE  Occurrences(<<>>, m, e) = 0
<1>1. {k \in DOMAIN <<>> : <<>>[k] = [node |-> m, edge |-> e]} = {}
  OBVIOUS
<1>2. QED
  BY <1>1, FS_EmptySet DEF Occurrences

\* An entry at the end counts once more.
LEMMA OccurrencesAppended ==
    ASSUME NEW l \in Seq(Entry), NEW x \in Entry, NEW m, NEW e
    PROVE  Occurrences(Append(l, x), m, e) =
               Occurrences(l, m, e) + (IF x = [node |-> m, edge |-> e] THEN 1 ELSE 0)
<1>. DEFINE Places(s) == {k \in DOMAIN s : s[k] = [node |-> m, edge |-> e]}
            l1 == Append(l, x)
            last == Len(l) + 1
<1>1. /\ DOMAIN l = 1 .. Len(l) /\ Len(l) \in Nat /\ DOMAIN l1 = 1 .. last
      /\ l1[last] = x /\ \A k \in 1 .. Len(l) : l1[k] = l[k]
      /\ last \notin DOMAIN l /\ 1 .. last = (1 .. Len(l)) \cup {last}
  OBVIOUS
<1>2. IsFiniteSet(Places(l)) /\ Cardinality(Places(l)) \in Nat
  BY OccurrencesTyped DEF Occurrences
<1>3. CASE x = [node |-> m, edge |-> e]
  <2>1. Places(l1) = Places(l) \cup {last} /\ last \notin Places(l)
    BY <1>1, <1>3
  <2>. HIDE DEF Places, l1, last
  <2>2. Cardinality(Places(l1)) = Cardinality(Places(l)) + 1
    BY <1>2, <2>1, FS_AddElement
  <2>3. QED
    BY <1>3, <2>2 DEF Occurrences, Places, l1
<1>4. CASE x # [node |-> m, edge |-> e]
  <2>1. Places(l1) = Places(l)
    BY <1>1, <1>4
  <2>. HIDE DEF Places, l1
  <2>2. Cardinality(Places(l1)) = Cardinality(Places(l)) + 0
    BY <1>2, <2>1
  <2>3. QED
    BY <1>4, <2>2 DEF Occurrences, Places, l1
<1>5. QED
  BY <1>3, <1>4

\* What is kept of a list holds everything that is not removed as often as before,
\* and nothing that is removed.
LEMMA OccurrencesWithout ==
    ASSUME NEW s \in Seq(Entry), NEW removed, NEW m, NEW e
    PROVE  /\ Without(s, removed) \in Seq(Entry)
           /\ [node |-> m, edge |-> e] \in removed =>
                  Occurrences(Without(s, removed), m, e) = 0
           /\ [node |-> m, edge |-> e] \notin removed =>
                  Occurrences(Without(s, removed), m, e) = Occurrences(s, m, e)
<1>. DEFINE c == [node |-> m, edge |-> e]
            Up(k) == SubSeq(s, 1, k)
<1>1. PICK t : /\ t[0] = <<>>
               /\ \A k \in 1 .. Len(s) : t[k] = Keep(removed, t[k - 1], s[k])
               /\ t[Len(s)] = Without(s, removed)
  BY PrefixesKept
<1>2. Len(s) \in Nat /\ Up(0) = <<>> /\ Up(Len(s)) = s
  OBVIOUS
<1>3. ASSUME NEW k \in 1 .. Len(s)
      PROVE  /\ k \in Nat /\ k - 1 \in 0 .. Len(s)
             /\ Up(k - 1) \in Seq(Entry) /\ s[k] \in Entry
             /\ Up(k) = Append(Up(k - 1), s[k])
  OBVIOUS
<1>. DEFINE Right(k) == /\ t[k] \in Seq(Entry)
                        /\ c \in removed => Occurrences(t[k], m, e) = 0
                        /\ c \notin removed => Occurrences(t[k], m, e) = Occurrences(Up(k), m, e)
            Missed == {k \in 0 .. Len(s) : ~ Right(k)}
<1>4. Right(0)
  <2>1. <<>> \in Seq(Entry) /\ Occurrences(<<>>, m, e) = 0
    BY OccurrencesOfNone
  <2>2. QED
    BY <1>1, <1>2, <2>1
<1>5. ASSUME NEW k \in 1 .. Len(s), Right(k - 1) PROVE Right(k)
  <2>. DEFINE n == IF s[k] = c THEN 1 ELSE 0
  <2>1. t[k] = Keep(removed, t[k - 1], s[k]) /\ s[k] \in Entry
    BY <1>1, <1>3
  <2>. HIDE DEF Up
  <2>2. Occurrences(Up(k), m, e) = Occurrences(Up(k - 1), m, e) + n
    <3>1. Up(k - 1) \in Seq(Entry) /\ Up(k) = Append(Up(k - 1), s[k])
      BY <1>3
    <3>2. QED
      BY <2>1, <3>1, OccurrencesAppended
  <2>3. Occurrences(Up(k - 1), m, e) \in Nat
    BY <1>3, OccurrencesTyped
  <2>4. CASE s[k] \in removed
    <3>1. t[k] = t[k - 1]
      BY <2>1, <2>4 DEF Keep
    <3>2. c \notin removed => n = 0
      BY <2>4
    <3>3. c \notin removed => Occurrences(Up(k), m, e) = Occurrences(Up(k - 1), m, e)
      BY <2>2, <2>3, <3>2
    <3>4. QED
      BY <1>5, <3>1, <3>3
  <2>5. CASE s[k] \notin removed
    <3>1. t[k] = Append(t[k - 1], s[k])
      BY <2>1, <2>5 DEF Keep
    <3>2. t[k] \in Seq(Entry)
      BY <1>5, <2>1, <3>1
    <3>3. Occurrences(t[k], m, e) = Occurrences(t[k - 1], m, e) + n
      BY <1>5, <2>1, <3>1, OccurrencesAppended
    <3>4. c \in removed => n = 0
      BY <2>5
    <3>. HIDE DEF n, c
    <3>5. c \in removed => Occurrences(t[k], m, e) = 0
      BY <1>5, <3>3, <3>4
    <3>6. c \notin removed => Occurrences(t[k], m, e) = Occurrences(Up(k), m, e)
      BY <1>5, <2>2, <3>3
    <3>7. QED
      BY <3>2, <3>5, <3>6
  <2>6. QED
    BY <2>4, <2>5
<1>6. Missed = {}
  <2>. SUFFICES ASSUME Missed # {} PROVE FALSE
    OBVIOUS
  <2>1. PICK k \in Missed : \A l \in Missed : k <= l
    <3>1. Missed \in SUBSET Nat
      OBVIOUS
    <3>. HIDE DEF Missed
    <3>2. QED
      BY <3>1, NatLeastElement
  <2>2. k \in 0 .. Len(s) /\ ~ Right(k)
    BY <2>1
  <2>. HIDE DEF Right
  <2>3. k # 0
    BY <1>4, <2>2
  <2>4. k \in 1 .. Len(s) /\ k - 1 \in 0 .. Len(s) /\ ~ (k <= k - 1)
    BY <1>2, <2>2, <2>3
  <2>5. k - 1 \notin Missed
    BY <2>1, <2>4
  <2>6. Right(k - 1)
    BY <2>4, <2>5
  <2>7. QED
    BY <1>5, <2>2, <2>4, <2>6
<1>7. Right(Len(s))
  BY <1>2, <1>6
<1>8. QED
  BY <1>1, <1>2, <1>7

\* Nothing comes into a list by removing: what is left was there.
LEMMA WithoutKeeps ==
    ASSUME NEW s \in Seq(Entry), NEW removed
    PROVE  Range(Without(s, removed)) \subseteq Range(s)
<1>. SUFFICES ASSUME NEW x \in Range(Without(s, removed)) PROVE x \in Range(s)
  OBVIOUS
<1>1. Without(s, removed) \in Seq(Entry)
  BY OccurrencesWithout
<1>2. x \in Entry
  BY <1>1 DEF Range
<1>3. x = [node |-> x.node, edge |-> x.edge]
  BY <1>2 DEF Entry
<1>4. Occurrences(Without(s, removed), x.node, x.edge) # 0
  BY <1>1, <1>3, OccurrencesTyped
<1>5. Occurrences(s, x.node, x.edge) # 0
  BY <1>4, OccurrencesWithout
<1>6. QED
  BY <1>3, <1>5, OccurrencesTyped

-----------------------------------------------------------------------------
(***************************************************************************)
(* The invariant: nodes are numbered without a gap, lists hold entries,    *)
(* and both ends of every connection are told of equally often.            *)
(***************************************************************************)
fwd(n) == m_graph[n].forward
bwd(n) == m_graph[n].backward

NodesNumbered == \E k \in 0 .. MaxNode + 1 : DOMAIN m_graph = 0 .. k - 1

ListsTyped == \A n \in DOMAIN m_graph : fwd(n) \in Seq(Entry) /\ bwd(n) \in Seq(Entry)

IInv == NodesNumbered /\ ListsTyped /\ Mirrored

\* Mirrored, read off the lists: an entry is in one as often as its mirror image in
\* the other, also if one of the nodes has no lists.
LEMMA MirroredParts ==
    ASSUME ListsTyped
    PROVE  Mirrored <=>
             /\ \A n, m \in DOMAIN m_graph : \A e \in Edges :
                   Occurrences(fwd(n), m, e) = Occurrences(bwd(m), n, e)
             /\ \A n \in DOMAIN m_graph : \A x \in Range(fwd(n)) : x.node \in DOMAIN m_graph
             /\ \A n \in DOMAIN m_graph : \A x \in Range(bwd(n)) : x.node \in DOMAIN m_graph
<1>1. QED
  BY DEF Mirrored, fwd, bwd

\* A node that has no lists is in none.
LEMMA StrangersNotListed ==
    ASSUME IInv, NEW n \in DOMAIN m_graph, NEW m, m \notin DOMAIN m_graph, NEW e
    PROVE  Occurrences(fwd(n), m, e) = 0 /\ Occurrences(bwd(n), m, e) = 0
<1>. DEFINE x == [node |-> m, edge |-> e]
<1>1. x.node = m
  OBVIOUS
<1>. HIDE DEF x
<1>2. x \notin Range(fwd(n)) /\ x \notin Range(bwd(n))
  BY <1>1, MirroredParts DEF IInv
<1>3. fwd(n) \in Seq(Entry) /\ bwd(n) \in Seq(Entry)
  BY DEF IInv, ListsTyped
<1>4. QED
  BY <1>2, <1>3, OccurrencesTyped DEF x

\* The greatest of three numbers.
LEMMA GreatestOfThree ==
    ASSUME NEW a \in Int, NEW b \in Int, NEW c \in Int
    PROVE  /\ Max({a, b, c}) \in {a, b, c}
           /\ a <= Max({a, b, c}) /\ b <= Max({a, b, c}) /\ c <= Max({a, b, c})
<1>1. \E x \in {a, b, c} : \A y \in {a, b, c} : x >= y
  <2>1. CASE a >= b /\ a >= c
    BY <2>1
  <2>2. CASE b >= a /\ b >= c
    BY <2>2
  <2>3. CASE c >= a /\ c >= b
    BY <2>3
  <2>4. QED
    BY <2>1, <2>2, <2>3
<1>2. QED
  BY <1>1 DEF Max

\* What growing the graph changes: there are lists for both nodes of a connection,
\* and lists that were not there are empty.
LEMMA GrownFacts ==
    ASSUME GraphAssumption, IInv, NEW src \in NodeIds, NEW dst \in NodeIds
    PROVE  /\ \E k \in 0 .. MaxNode + 1 : DOMAIN Grown(src, dst) = 0 .. k - 1
           /\ DOMAIN m_graph \subseteq DOMAIN Grown(src, dst)
           /\ src \in DOMAIN Grown(src, dst) /\ dst \in DOMAIN Grown(src, dst)
           /\ \A n \in DOMAIN m_graph : Grown(src, dst)[n] = m_graph[n]
           /\ \A n \in DOMAIN Grown(src, dst) \ DOMAIN m_graph : Grown(src, dst)[n] = Unconnected
<1>1. PICK k \in 0 .. MaxNode + 1 : DOMAIN m_graph = 0 .. k - 1
  BY DEF IInv, NodesNumbered
<1>2. k \in Nat /\ k <= MaxNode + 1 /\ MaxNode \in Nat
  BY <1>1 DEF GraphAssumption
<1>3. size = k
  <2>1. 0 \in Int /\ k - 1 \in Int
    BY <1>2
  <2>2. Cardinality(0 .. k - 1) = IF 0 > k - 1 THEN 0 ELSE (k - 1) - 0 + 1
    BY <2>1, FS_Interval
  <2>3. QED
    BY <1>1, <1>2, <2>2 DEF size
<1>. DEFINE g == Max({src, dst, size - 1})
<1>4. src \in Int /\ dst \in Int /\ size - 1 \in Int /\ src >= 0 /\ dst >= 0
      /\ src <= MaxNode /\ dst <= MaxNode /\ size - 1 <= MaxNode
  BY <1>2, <1>3 DEF NodeIds
<1>5. g \in {src, dst, size - 1} /\ src <= g /\ dst <= g /\ size - 1 <= g
  BY <1>4, GreatestOfThree
<1>. HIDE DEF g
<1>6. g \in Nat /\ g <= MaxNode
  BY <1>4, <1>5
<1>7. DOMAIN Grown(src, dst) = 0 .. g
  BY DEF Grown, g
<1>8. g + 1 \in 0 .. MaxNode + 1 /\ 0 .. g = 0 .. (g + 1) - 1
  BY <1>2, <1>6
<1>9. DOMAIN m_graph \subseteq 0 .. g /\ src \in 0 .. g /\ dst \in 0 .. g
  BY <1>1, <1>2, <1>3, <1>4, <1>5, <1>6
<1>10. QED
  BY <1>7, <1>8, <1>9 DEF Grown, g

\* A new connection is told of at both ends.
LEMMA ConnectIInv ==
    ASSUME GraphAssumption, IInv, NEW src \in NodeIds, NEW dst \in NodeIds, NEW edge \in Edges,
           connect(src, dst, edge)
    PROVE  IInv'
<1>. DEFINE D == DOMAIN Grown(src, dst)
            f(n) == IF n \in DOMAIN m_graph THEN fwd(n) ELSE <<>>
            b(n) == IF n \in DOMAIN m_graph THEN bwd(n) ELSE <<>>
            out == [node |-> dst, edge |-> edge]
            in == [node |-> src, edge |-> edge]
<1>1. /\ \E k \in 0 .. MaxNode + 1 : D = 0 .. k - 1
      /\ DOMAIN m_graph \subseteq D /\ src \in D /\ dst \in D
      /\ \A n \in D : Grown(src, dst)[n].forward = f(n) /\ Grown(src, dst)[n].backward = b(n)
  BY GrownFacts DEF fwd, bwd, Unconnected
<1>2. DOMAIN m_graph' = D
  BY DEF connect
<1>3. ASSUME NEW n \in D
      PROVE  /\ fwd(n)' = IF n = src THEN Append(f(n), out) ELSE f(n)
             /\ bwd(n)' = IF n = dst THEN Append(b(n), in) ELSE b(n)
  BY <1>1 DEF connect, fwd, bwd
<1>4. \A n \in D : D \subseteq Nat /\ f(n) \in Seq(Entry) /\ b(n) \in Seq(Entry)
  BY <1>1 DEF IInv, ListsTyped
<1>5. out \in Entry /\ in \in Entry
  BY <1>1, <1>4 DEF Entry
<1>6. ASSUME NEW n \in D, NEW m \in D, NEW e \in Edges
      PROVE  Occurrences(f(n), m, e) = Occurrences(b(m), n, e)
  <2>1. CASE n \in DOMAIN m_graph /\ m \in DOMAIN m_graph
    BY <2>1, MirroredParts DEF IInv
  <2>2. CASE n \notin DOMAIN m_graph /\ m \in DOMAIN m_graph
    BY <2>2, StrangersNotListed, OccurrencesOfNone
  <2>3. CASE n \in DOMAIN m_graph /\ m \notin DOMAIN m_graph
    BY <2>3, StrangersNotListed, OccurrencesOfNone
  <2>4. CASE n \notin DOMAIN m_graph /\ m \notin DOMAIN m_graph
    BY <2>4, OccurrencesOfNone
  <2>5. QED
    BY <2>1, <2>2, <2>3, <2>4
<1>7. \A n \in D : \A x \in Range(f(n)) \cup Range(b(n)) : x.node \in D
  <2>1. \A n \in DOMAIN m_graph : \A x \in Range(fwd(n)) \cup Range(bwd(n)) : x.node \in D
    BY <1>1, MirroredParts DEF IInv
  <2>2. Range(<<>>) = {}
    BY DEF Range
  <2>3. QED
    BY <2>1, <2>2
<1>. HIDE DEF f, b, D
<1>8. ListsTyped'
  <2>1. ASSUME NEW n \in D PROVE fwd(n)' \in Seq(Entry) /\ bwd(n)' \in Seq(Entry)
    <3>1. /\ Append(f(n), out) \in Seq(Entry) /\ f(n) \in Seq(Entry)
          /\ Append(b(n), in) \in Seq(Entry) /\ b(n) \in Seq(Entry)
      BY <1>4, <1>5
    <3>. HIDE DEF out, in
    <3>2. QED
      BY <1>3, <3>1
  <2>2. QED
    BY <1>2, <2>1 DEF ListsTyped
<1>9. ASSUME NEW n \in D, NEW m \in D, NEW e \in Edges
      PROVE  Occurrences(fwd(n), m, e)' = Occurrences(bwd(m), n, e)'
  <2>. DEFINE one == IF n = src /\ m = dst /\ e = edge THEN 1 ELSE 0
  <2>1. /\ Occurrences(f(n), m, e) \in Nat /\ Occurrences(b(m), n, e) \in Nat
        /\ Occurrences(f(n), m, e) = Occurrences(b(m), n, e)
    BY <1>4, <1>6, OccurrencesTyped
  <2>2. Occurrences(fwd(n)', m, e) = Occurrences(f(n), m, e) + one
    <3>1. CASE n = src
      <4>1. Occurrences(Append(f(n), out), m, e) =
               Occurrences(f(n), m, e) + (IF out = [node |-> m, edge |-> e] THEN 1 ELSE 0)
        BY <1>4, <1>5, OccurrencesAppended
      <4>2. out = [node |-> m, edge |-> e] <=> m = dst /\ e = edge
        OBVIOUS
      <4>3. QED
        BY <1>3, <3>1, <4>1, <4>2
    <3>2. CASE n # src
      BY <1>3, <2>1, <3>2
    <3>3. QED
      BY <3>1, <3>2
  <2>3. Occurrences(bwd(m)', n, e) = Occurrences(b(m), n, e) + one
    <3>1. CASE m = dst
      <4>1. Occurrences(Append(b(m), in), n, e) =
               Occurrences(b(m), n, e) + (IF in = [node |-> n, edge |-> e] THEN 1 ELSE 0)
        BY <1>4, <1>5, OccurrencesAppended
      <4>2. in = [node |-> n, edge |-> e] <=> n = src /\ e = edge
        OBVIOUS
      <4>3. QED
        BY <1>3, <3>1, <4>1, <4>2
    <3>2. CASE m # dst
      BY <1>3, <2>1, <3>2
    <3>3. QED
      BY <3>1, <3>2
  <2>4. QED
    BY <2>1, <2>2, <2>3
<1>10. ASSUME NEW n \in D
       PROVE  /\ \A x \in Range(fwd(n)') : x.node \in D
              /\ \A x \in Range(bwd(n)') : x.node \in D
  <2>1. /\ Range(Append(f(n), out)) = Range(f(n)) \cup {out}
        /\ Range(Append(b(n), in)) = Range(b(n)) \cup {in}
    <3>1. ASSUME NEW l \in Seq(Entry), NEW y \in Entry
          PROVE  Range(Append(l, y)) = Range(l) \cup {y}
      BY DEF Range
    <3>2. QED
      BY <1>4, <1>5, <3>1
  <2>2. out.node \in D /\ in.node \in D
    BY <1>1
  <2>. HIDE DEF out, in
  <2>3. QED
    BY <1>3, <1>7, <2>1, <2>2
<1>11. Mirrored'
  BY <1>2, <1>9, <1>10 DEF Mirrored, fwd, bwd
<1>12. QED
  BY <1>1, <1>2, <1>8, <1>11 DEF IInv, NodesNumbered, D

\* Of m's list, what is removed because of the connections removed at a node.
LEMMA OccurrencesOfOtherEnds ==
    ASSUME NEW l \in Seq(Entry), NEW m, NEW at, NEW removed \in SUBSET Entry, NEW n, NEW e
    PROVE  LET gone == n = at /\ [node |-> m, edge |-> e] \in removed
               left == WithoutOtherEnds(l, m, at, removed)
           IN  /\ left \in Seq(Entry) /\ Range(left) \subseteq Range(l)
               /\ gone => Occurrences(left, n, e) = 0
               /\ ~ gone => Occurrences(left, n, e) = Occurrences(l, n, e)
<1>. DEFINE ends == {[node |-> at, edge |-> x.edge] : x \in {r \in removed : r.node = m}}
<1>1. [node |-> n, edge |-> e] \in ends <=> n = at /\ [node |-> m, edge |-> e] \in removed
  <2>1. ASSUME [node |-> n, edge |-> e] \in ends
        PROVE  n = at /\ [node |-> m, edge |-> e] \in removed
    <3>1. PICK x \in removed : x.node = m /\ [node |-> n, edge |-> e] = [node |-> at, edge |-> x.edge]
      BY <2>1
    <3>2. x = [node |-> x.node, edge |-> x.edge]
      BY DEF Entry
    <3>3. n = at /\ e = x.edge
      BY <3>1
    <3>4. QED
      BY <3>1, <3>2, <3>3
  <2>2. ASSUME n = at, [node |-> m, edge |-> e] \in removed
        PROVE  [node |-> n, edge |-> e] \in ends
    <3>1. PICK x \in removed : x = [node |-> m, edge |-> e]
      BY <2>2
    <3>2. x.node = m /\ x.edge = e
      BY <3>1
    <3>3. QED
      BY <2>2, <3>2
  <2>3. QED
    BY <2>1, <2>2
<1>. HIDE DEF ends
<1>2. /\ Without(l, ends) \in Seq(Entry) /\ Range(Without(l, ends)) \subseteq Range(l)
      /\ [node |-> n, edge |-> e] \in ends => Occurrences(Without(l, ends), n, e) = 0
      /\ [node |-> n, edge |-> e] \notin ends =>
            Occurrences(Without(l, ends), n, e) = Occurrences(l, n, e)
  BY OccurrencesWithout, WithoutKeeps
<1>3. QED
  BY <1>1, <1>2 DEF WithoutOtherEnds, ends

\* Connections removed at one end are removed at the other.
LEMMA DisconnectIfIInv ==
    ASSUME IInv, NEW src, NEW removed, disconnectIf(src, removed)
    PROVE  IInv'
<1>1. /\ src \in DOMAIN m_graph /\ removed \in SUBSET Entry
      /\ DOMAIN m_graph' = DOMAIN m_graph
  BY DEF disconnectIf, IInv, ListsTyped, fwd, Range
<1>2. ASSUME NEW n \in DOMAIN m_graph
      PROVE  /\ fwd(n)' = IF n = src THEN Without(fwd(n), removed) ELSE fwd(n)
             /\ bwd(n)' = WithoutOtherEnds(bwd(n), n, src, removed)
             /\ fwd(n) \in Seq(Entry) /\ bwd(n) \in Seq(Entry)
  BY DEF disconnectIf, IInv, ListsTyped, fwd, bwd
<1>3. ASSUME NEW n \in DOMAIN m_graph
      PROVE  /\ fwd(n)' \in Seq(Entry) /\ Range(fwd(n)') \subseteq Range(fwd(n))
             /\ bwd(n)' \in Seq(Entry) /\ Range(bwd(n)') \subseteq Range(bwd(n))
  <2>1. /\ Without(fwd(n), removed) \in Seq(Entry)
        /\ Range(Without(fwd(n), removed)) \subseteq Range(fwd(n))
    BY <1>2, OccurrencesWithout, WithoutKeeps
  <2>2. LET left == WithoutOtherEnds(bwd(n), n, src, removed)
        IN  left \in Seq(Entry) /\ Range(left) \subseteq Range(bwd(n))
    BY <1>1, <1>2, OccurrencesOfOtherEnds
  <2>3. QED
    BY <1>2, <2>1, <2>2
<1>4. ASSUME NEW n \in DOMAIN m_graph, NEW m \in DOMAIN m_graph, NEW e \in Edges
      PROVE  Occurrences(fwd(n)', m, e) = Occurrences(bwd(m)', n, e)
  <2>. DEFINE gone == n = src /\ [node |-> m, edge |-> e] \in removed
  <2>1. Occurrences(fwd(n), m, e) = Occurrences(bwd(m), n, e)
    BY MirroredParts DEF IInv
  <2>2. /\ gone => Occurrences(bwd(m)', n, e) = 0
        /\ ~ gone => Occurrences(bwd(m)', n, e) = Occurrences(bwd(m), n, e)
    BY <1>1, <1>2, OccurrencesOfOtherEnds
  <2>3. /\ [node |-> m, edge |-> e] \in removed => Occurrences(Without(fwd(n), removed), m, e) = 0
        /\ [node |-> m, edge |-> e] \notin removed =>
              Occurrences(Without(fwd(n), removed), m, e) = Occurrences(fwd(n), m, e)
    BY <1>2, OccurrencesWithout
  <2>4. QED
    BY <1>2, <2>1, <2>2, <2>3
<1>5. Mirrored'
  <2>1. \A n \in DOMAIN m_graph : \A x \in Range(fwd(n)') \cup Range(bwd(n)') : x.node \in DOMAIN m_graph
    BY <1>3, MirroredParts DEF IInv
  <2>2. QED
    BY <1>1, <1>4, <2>1 DEF Mirrored, fwd, bwd
<1>6. QED
  BY <1>1, <1>3, <1>5 DEF IInv, NodesNumbered, ListsTyped

\* The same from the other end.
LEMMA RdisconnectIfIInv ==
    ASSUME IInv, NEW dst, NEW removed, rdisconnectIf(dst, removed)
    PROVE  IInv'
<1>1. /\ dst \in DOMAIN m_graph /\ removed \in SUBSET Entry
      /\ DOMAIN m_graph' = DOMAIN m_graph
  BY DEF rdisconnectIf, IInv, ListsTyped, bwd, Range
<1>2. ASSUME NEW n \in DOMAIN m_graph
      PROVE  /\ bwd(n)' = IF n = dst THEN Without(bwd(n), removed) ELSE bwd(n)
             /\ fwd(n)' = WithoutOtherEnds(fwd(n), n, dst, removed)
             /\ fwd(n) \in Seq(Entry) /\ bwd(n) \in Seq(Entry)
  BY DEF rdisconnectIf, IInv, ListsTyped, fwd, bwd
<1>3. ASSUME NEW n \in DOMAIN m_graph
      PROVE  /\ fwd(n)' \in Seq(Entry) /\ Range(fwd(n)') \subseteq Range(fwd(n))
             /\ bwd(n)' \in Seq(Entry) /\ Range(bwd(n)') \subseteq Range(bwd(n))
  <2>1. /\ Without(bwd(n), removed) \in Seq(Entry)
        /\ Range(Without(bwd(n), removed)) \subseteq Range(bwd(n))
    BY <1>2, OccurrencesWithout, WithoutKeeps
  <2>2. LET left == WithoutOtherEnds(fwd(n), n, dst, removed)
        IN  left \in Seq(Entry) /\ Range(left) \subseteq Range(fwd(n))
    BY <1>1, <1>2, OccurrencesOfOtherEnds
  <2>3. QED
    BY <1>2, <2>1, <2>2
<1>4. ASSUME NEW n \in DOMAIN m_graph, NEW m \in DOMAIN m_graph, NEW e \in Edges
      PROVE  Occurrences(fwd(n)', m, e) = Occurrences(bwd(m)', n, e)
  <2>. DEFINE gone == m = dst /\ [node |-> n, edge |-> e] \in removed
  <2>1. Occurrences(fwd(n), m, e) = Occurrences(bwd(m), n, e)
    BY MirroredParts DEF IInv
  <2>2. /\ gone => Occurrences(fwd(n)', m, e) = 0
        /\ ~ gone => Occurrences(fwd(n)', m, e) = Occurrences(fwd(n), m, e)
    BY <1>1, <1>2, OccurrencesOfOtherEnds
  <2>3. /\ [node |-> n, edge |-> e] \in removed => Occurrences(Without(bwd(m), removed), n, e) = 0
        /\ [node |-> n, edge |-> e] \notin removed =>
              Occurrences(Without(bwd(m), removed), n, e) = Occurrences(bwd(m), n, e)
    BY <1>2, OccurrencesWithout
  <2>4. QED
    BY <1>2, <2>1, <2>2, <2>3
<1>5. Mirrored'
  <2>1. \A n \in DOMAIN m_graph : \A x \in Range(fwd(n)') \cup Range(bwd(n)') : x.node \in DOMAIN m_graph
    BY <1>3, MirroredParts DEF IInv
  <2>2. QED
    BY <1>1, <1>4, <2>1 DEF Mirrored, fwd, bwd
<1>6. QED
  BY <1>1, <1>3, <1>5 DEF IInv, NodesNumbered, ListsTyped

\* Lists that trade places still mirror each other.
LEMMA ReverseIInv == IInv /\ reverse => IInv'
<1>. SUFFICES ASSUME IInv, reverse PROVE IInv'
  OBVIOUS
<1>1. /\ DOMAIN m_graph' = DOMAIN m_graph
      /\ \A n \in DOMAIN m_graph : fwd(n)' = bwd(n) /\ bwd(n)' = fwd(n)
  BY DEF reverse, fwd, bwd
<1>2. \A n, m \in DOMAIN m_graph : \A e \in Edges :
         Occurrences(fwd(n)', m, e) = Occurrences(bwd(m)', n, e)
  BY <1>1, MirroredParts DEF IInv
<1>3. \A n \in DOMAIN m_graph : \A x \in Range(fwd(n)') \cup Range(bwd(n)') : x.node \in DOMAIN m_graph
  BY <1>1, MirroredParts DEF IInv
<1>4. Mirrored'
  BY <1>1, <1>2, <1>3 DEF Mirrored, fwd, bwd
<1>5. ListsTyped'
  BY <1>1 DEF IInv, ListsTyped
<1>6. QED
  BY <1>1, <1>4, <1>5 DEF IInv, NodesNumbered

\* The empty graph satisfies the invariant.
LEMMA InitIInv == Init => IInv
<1>. SUFFICES ASSUME Init PROVE IInv
  OBVIOUS
<1>1. DOMAIN m_graph = {} /\ {} = 0 .. 0 - 1 /\ 0 \in 0 .. MaxNode + 1
  BY GraphAssumption DEF Init
<1>2. QED
  BY <1>1 DEF IInv, NodesNumbered, ListsTyped, Mirrored

\* Every operation the clients may call preserves the invariant.
LEMMA NextIInv == IInv /\ [Next]_vars => IInv'
<1>. SUFFICES ASSUME IInv, [Next]_vars PROVE IInv'
  OBVIOUS
<1>1. ASSUME NEW src \in NodeIds, NEW dst \in NodeIds, NEW edge \in Edges, connect(src, dst, edge)
      PROVE  IInv'
  BY <1>1, GraphAssumption, ConnectIInv
<1>2. ASSUME NEW src, NEW removed, disconnectIf(src, removed)
      PROVE  IInv'
  BY <1>2, DisconnectIfIInv
<1>3. ASSUME NEW dst, NEW removed, rdisconnectIf(dst, removed)
      PROVE  IInv'
  BY <1>3, RdisconnectIfIInv
<1>4. CASE reverse
  BY <1>4, ReverseIInv
<1>5. CASE UNCHANGED vars
  BY <1>5 DEF vars, IInv, NodesNumbered, ListsTyped, Mirrored, fwd, bwd
<1>6. QED
  BY <1>1, <1>2, <1>3, <1>4, <1>5 DEF Next

\* The invariant holds throughout every sequence of calls.
LEMMA InvariantHolds == Spec => []IInv
<1>1. QED
  BY InitIInv, NextIInv, PTL DEF Spec

-----------------------------------------------------------------------------
\* Whatever is connected, removed from either end or reversed, and however many
\* parallel connections and self-loops there are: incoming and outgoing lists tell
\* of the same connections, each as often, between nodes that are there.
THEOREM BothEndsAgree == Spec => []Mirrored
<1>1. IInv => Mirrored
  BY DEF IInv
<1>2. QED
  BY <1>1, InvariantHolds, PTL

-----------------------------------------------------------------------------
(***************************************************************************)
(* The forward lists are a bag of connections.                             *)
(***************************************************************************)
Kinds == [src : NodeIds, dst : NodeIds, edge : Edges]

\* How often a connection is there.
LEMMA ForwardFacts ==
    ASSUME GraphAssumption, IInv, NEW c \in Kinds
    PROVE  /\ c.src \in DOMAIN m_graph =>
                 Forward[c] = Occurrences(fwd(c.src), c.dst, c.edge)
           /\ c.src \notin DOMAIN m_graph => Forward[c] = 0
           /\ Forward[c] \in Nat
           /\ DOMAIN m_graph \subseteq NodeIds
<1>1. Forward[c] = IF c.src \in DOMAIN m_graph
                     THEN Occurrences(fwd(c.src), c.dst, c.edge) ELSE 0
  BY DEF Forward, Kinds, fwd
<1>2. c.src \in DOMAIN m_graph => Occurrences(fwd(c.src), c.dst, c.edge) \in Nat
  BY OccurrencesTyped DEF IInv, ListsTyped
<1>3. DOMAIN m_graph \subseteq NodeIds
  BY DEF GraphAssumption, IInv, NodesNumbered, NodeIds
<1>4. QED
  BY <1>1, <1>2, <1>3

\* The same after a step.
LEMMA ForwardNext ==
    ASSUME NEW c \in Kinds
    PROVE  /\ c.src \in DOMAIN m_graph' =>
                 (Forward[c])' = Occurrences(fwd(c.src)', c.dst, c.edge)
           /\ c.src \notin DOMAIN m_graph' => (Forward[c])' = 0
<1>1. (Forward[c])' = IF c.src \in DOMAIN m_graph'
                        THEN Occurrences(fwd(c.src)', c.dst, c.edge) ELSE 0
  BY DEF Forward, Kinds, fwd, Occurrences
<1>2. QED
  BY <1>1

\* To connect two nodes is to put one connection into the bag.
LEMMA ConnectRefines ==
    ASSUME GraphAssumption, IInv, NEW src \in NodeIds, NEW dst \in NodeIds, NEW edge \in Edges,
           connect(src, dst, edge)
    PROVE  Abstract!Connect
<1>. DEFINE new == [src |-> src, dst |-> dst, edge |-> edge]
            out == [node |-> dst, edge |-> edge]
            f(n) == IF n \in DOMAIN m_graph THEN fwd(n) ELSE <<>>
<1>1. /\ DOMAIN m_graph \subseteq DOMAIN m_graph' /\ src \in DOMAIN m_graph'
      /\ \A n \in DOMAIN m_graph' : fwd(n)' = IF n = src THEN Append(f(n), out) ELSE f(n)
  BY GrownFacts DEF connect, fwd, Unconnected
<1>2. out \in Entry
  BY DEF Entry, NodeIds
<1>3. ASSUME NEW c \in Kinds
      PROVE  (Forward[c])' = IF c = new THEN Forward[c] + 1 ELSE Forward[c]
  <2>1. f(c.src) \in Seq(Entry) /\ Forward[c] = Occurrences(f(c.src), c.dst, c.edge)
    BY ForwardFacts, OccurrencesOfNone DEF IInv, ListsTyped
  <2>2. c = new <=> c.src = src /\ c.dst = dst /\ c.edge = edge
    BY DEF Kinds
  <2>3. CASE c.src \notin DOMAIN m_graph'
    BY <1>1, <2>2, <2>3, ForwardFacts, ForwardNext
  <2>4. CASE c.src \in DOMAIN m_graph' /\ c.src # src
    BY <1>1, <2>1, <2>2, <2>4, ForwardNext
  <2>5. CASE c.src = src
    <3>1. (Forward[c])' = Occurrences(Append(f(c.src), out), c.dst, c.edge)
      BY <1>1, <2>5, ForwardNext
    <3>2. Occurrences(Append(f(c.src), out), c.dst, c.edge) =
             Forward[c] + (IF out = [node |-> c.dst, edge |-> c.edge] THEN 1 ELSE 0)
      <4>. HIDE DEF f, out
      <4>1. Occurrences(Append(f(c.src), out), c.dst, c.edge) =
               Occurrences(f(c.src), c.dst, c.edge)
                 + (IF out = [node |-> c.dst, edge |-> c.edge] THEN 1 ELSE 0)
        BY <1>2, <2>1, OccurrencesAppended
      <4>2. QED
        BY <2>1, <4>1
    <3>3. out = [node |-> c.dst, edge |-> c.edge] <=> c = new
      BY <2>2, <2>5
    <3>4. Forward[c] \in Nat
      BY ForwardFacts
    <3>5. QED
      BY <3>1, <3>2, <3>3, <3>4
  <2>6. QED
    BY <2>3, <2>4, <2>5
<1>4. new \in Kinds
  BY DEF Kinds
<1>5. Forward' = [Forward EXCEPT ![new] = @ + 1]
  <2>1. DOMAIN Forward = Kinds /\ DOMAIN Forward' = Kinds
    BY DEF Forward, Kinds
  <2>2. Forward = [c \in Kinds |-> Forward[c]] /\ Forward' = [c \in Kinds |-> Forward'[c]]
    BY DEF Forward, Kinds
  <2>. HIDE DEF new
  <2>3. QED
    BY <1>3, <1>4, <2>1, <2>2
<1>6. QED
  BY <1>4, <1>5 DEF Abstract!Connect, Abstract!Connection, Kinds

\* Connections removed at their source.
LEMMA DisconnectIfRefines ==
    ASSUME GraphAssumption, IInv, NEW src, NEW removed, disconnectIf(src, removed)
    PROVE  Abstract!DisconnectAt("src")
<1>. DEFINE gone == {c \in Kinds : c.src = src /\ [node |-> c.dst, edge |-> c.edge] \in removed}
<1>1. /\ src \in DOMAIN m_graph /\ removed \subseteq Range(fwd(src))
      /\ DOMAIN m_graph' = DOMAIN m_graph
      /\ \A n \in DOMAIN m_graph : fwd(n)' = IF n = src THEN Without(fwd(n), removed) ELSE fwd(n)
  BY DEF disconnectIf, fwd
<1>2. ASSUME NEW c \in Kinds
      PROVE  /\ (Forward[c])' = IF c \in gone THEN 0 ELSE Forward[c]
             /\ c \in gone => Forward[c] > 0
  <2>1. CASE c.src = src
    <3>1. fwd(src) \in Seq(Entry)
      BY <1>1 DEF IInv, ListsTyped
    <3>2. /\ Forward[c] = Occurrences(fwd(src), c.dst, c.edge) /\ Forward[c] \in Nat
          /\ (Forward[c])' = Occurrences(Without(fwd(src), removed), c.dst, c.edge)
      BY <1>1, <2>1, ForwardFacts, ForwardNext
    <3>3. c \in gone => Forward[c] # 0
      BY <1>1, <3>1, <3>2, OccurrencesTyped
    <3>4. QED
      BY <2>1, <3>1, <3>2, <3>3, OccurrencesWithout
  <2>2. CASE c.src # src
    BY <1>1, <2>2, ForwardFacts, ForwardNext
  <2>3. QED
    BY <2>1, <2>2
<1>3. Forward' = [c \in Kinds |-> IF c \in gone THEN 0 ELSE Forward[c]]
  <2>1. Forward' = [c \in Kinds |-> (Forward[c])']
    BY DEF Forward, Kinds
  <2>2. QED
    BY <1>2, <2>1
<1>4. src \in NodeIds /\ gone \in SUBSET {c \in Kinds : Forward[c] > 0}
  BY <1>1, <1>2 DEF IInv, NodesNumbered, GraphAssumption, NodeIds
<1>5. \A c \in gone : c["src"] = src
  OBVIOUS
<1>. HIDE DEF gone
<1>6. QED
  BY <1>3, <1>4, <1>5 DEF Abstract!DisconnectAt, Abstract!Connection, Kinds

\* Connections removed at their destination: the incoming list told of them, so they
\* are there.
LEMMA RdisconnectIfRefines ==
    ASSUME GraphAssumption, IInv, NEW dst, NEW removed, rdisconnectIf(dst, removed)
    PROVE  Abstract!DisconnectAt("dst")
<1>. DEFINE gone == {c \in Kinds : c.dst = dst /\ [node |-> c.src, edge |-> c.edge] \in removed}
<1>1. /\ dst \in DOMAIN m_graph /\ removed \subseteq Range(bwd(dst))
      /\ bwd(dst) \in Seq(Entry)
      /\ removed \in SUBSET Entry
      /\ DOMAIN m_graph' = DOMAIN m_graph
      /\ \A n \in DOMAIN m_graph : fwd(n)' = WithoutOtherEnds(fwd(n), n, dst, removed)
  BY DEF rdisconnectIf, fwd, bwd, IInv, ListsTyped, Range
<1>2. ASSUME NEW c \in Kinds
      PROVE  /\ (Forward[c])' = IF c \in gone THEN 0 ELSE Forward[c]
             /\ c \in gone => Forward[c] > 0
  <2>1. c.edge \in Edges
    BY DEF Kinds
  <2>2. CASE c.src \in DOMAIN m_graph
    <3>1. fwd(c.src) \in Seq(Entry)
      BY <2>2 DEF IInv, ListsTyped
    <3>2. /\ Forward[c] = Occurrences(fwd(c.src), c.dst, c.edge) /\ Forward[c] \in Nat
          /\ (Forward[c])' =
                Occurrences(WithoutOtherEnds(fwd(c.src), c.src, dst, removed), c.dst, c.edge)
      BY <1>1, <2>2, ForwardFacts, ForwardNext
    <3>3. (Forward[c])' = IF c \in gone THEN 0 ELSE Forward[c]
      BY <1>1, <3>1, <3>2, OccurrencesOfOtherEnds
    <3>4. ASSUME c \in gone PROVE Forward[c] # 0
      <4>1. Occurrences(bwd(dst), c.src, c.edge) # 0
        BY <1>1, <3>4, OccurrencesTyped
      <4>2. Occurrences(fwd(c.src), dst, c.edge) = Occurrences(bwd(dst), c.src, c.edge)
        BY <1>1, <2>1, <2>2, MirroredParts DEF IInv
      <4>3. QED
        BY <3>2, <3>4, <4>1, <4>2
    <3>5. QED
      BY <3>2, <3>3, <3>4
  <2>3. CASE c.src \notin DOMAIN m_graph
    <3>1. Forward[c] = 0 /\ (Forward[c])' = 0
      BY <1>1, <2>3, ForwardFacts, ForwardNext
    <3>2. ASSUME c \in gone PROVE FALSE
      <4>1. [node |-> c.src, edge |-> c.edge] \in Range(bwd(dst))
        BY <1>1, <3>2
      <4>2. [node |-> c.src, edge |-> c.edge].node \in DOMAIN m_graph
        BY <1>1, <4>1, MirroredParts DEF IInv
      <4>3. QED
        BY <2>3, <4>2
    <3>3. QED
      BY <3>1, <3>2
  <2>4. QED
    BY <2>2, <2>3
<1>3. Forward' = [c \in Kinds |-> IF c \in gone THEN 0 ELSE Forward[c]]
  <2>1. Forward' = [c \in Kinds |-> (Forward[c])']
    BY DEF Forward, Kinds
  <2>2. QED
    BY <1>2, <2>1
<1>4. dst \in NodeIds /\ gone \in SUBSET {c \in Kinds : Forward[c] > 0}
  BY <1>1, <1>2 DEF IInv, NodesNumbered, GraphAssumption, NodeIds
<1>5. \A c \in gone : c["dst"] = dst
  OBVIOUS
<1>. HIDE DEF gone
<1>6. QED
  BY <1>3, <1>4, <1>5 DEF Abstract!DisconnectAt, Abstract!Connection, Kinds

\* Reversing the graph turns every connection round.
LEMMA ReverseRefines ==
    ASSUME GraphAssumption, IInv, reverse
    PROVE  Abstract!Reverse
<1>1. /\ DOMAIN m_graph' = DOMAIN m_graph
      /\ \A n \in DOMAIN m_graph : fwd(n)' = bwd(n)
  BY DEF reverse, fwd, bwd
<1>2. ASSUME NEW c \in Kinds
      PROVE  (Forward[c])' = Forward[[src |-> c.dst, dst |-> c.src, edge |-> c.edge]]
  <2>. DEFINE d == [src |-> c.dst, dst |-> c.src, edge |-> c.edge]
  <2>1. d \in Kinds /\ c.edge \in Edges /\ d.src = c.dst /\ d.dst = c.src /\ d.edge = c.edge
    BY DEF Kinds
  <2>. HIDE DEF d
  <2>2. CASE c.src \in DOMAIN m_graph
    <3>1. (Forward[c])' = Occurrences(bwd(c.src), c.dst, c.edge)
      BY <1>1, <2>2, ForwardNext
    <3>2. CASE c.dst \in DOMAIN m_graph
      <4>1. Forward[d] = Occurrences(fwd(c.dst), c.src, c.edge)
        BY <2>1, <3>2, ForwardFacts
      <4>2. QED
        BY <2>1, <2>2, <3>1, <3>2, <4>1, MirroredParts DEF IInv, d
    <3>3. CASE c.dst \notin DOMAIN m_graph
      BY <2>1, <2>2, <3>1, <3>3, ForwardFacts, StrangersNotListed DEF d
    <3>4. QED
      BY <3>2, <3>3
  <2>3. CASE c.src \notin DOMAIN m_graph
    <3>1. (Forward[c])' = 0
      BY <1>1, <2>3, ForwardNext
    <3>2. CASE c.dst \in DOMAIN m_graph
      <4>1. Forward[d] = Occurrences(fwd(c.dst), c.src, c.edge)
        BY <2>1, <3>2, ForwardFacts
      <4>2. QED
        BY <2>3, <3>1, <3>2, <4>1, StrangersNotListed DEF d
    <3>3. CASE c.dst \notin DOMAIN m_graph
      BY <2>1, <3>1, <3>3, ForwardFacts DEF d
    <3>4. QED
      BY <3>2, <3>3
  <2>4. QED
    BY <2>2, <2>3
<1>3. Forward' = [c \in Kinds |-> (Forward[c])']
  BY DEF Forward, Kinds
<1>4. QED
  BY <1>2, <1>3 DEF Abstract!Reverse, Abstract!Connection, Kinds

\* Seen from its outgoing lists the graph implements a bag of connections, to which
\* connect adds one, disconnectIf and rdisconnectIf take away some kinds at one node,
\* and in which reverse turns all of them round.
THEOREM Refinement == Spec => ImplementsMultigraph
<1>1. Init => Abstract!Init
  BY DEF Init, Abstract!Init, Abstract!Connection, Forward
<1>2. IInv /\ [Next]_vars => [Abstract!Next]_Forward
  <2>. SUFFICES ASSUME IInv, [Next]_vars PROVE [Abstract!Next]_Forward
    OBVIOUS
  <2>1. ASSUME NEW src \in NodeIds, NEW dst \in NodeIds, NEW edge \in Edges, connect(src, dst, edge)
        PROVE  Abstract!Next
    BY <2>1, GraphAssumption, ConnectRefines DEF Abstract!Next
  <2>2. ASSUME NEW src, NEW removed, disconnectIf(src, removed)
        PROVE  Abstract!Next
    BY <2>2, GraphAssumption, DisconnectIfRefines DEF Abstract!Next
  <2>3. ASSUME NEW dst, NEW removed, rdisconnectIf(dst, removed)
        PROVE  Abstract!Next
    BY <2>3, GraphAssumption, RdisconnectIfRefines DEF Abstract!Next
  <2>4. CASE reverse
    BY <2>4, GraphAssumption, ReverseRefines DEF Abstract!Next
  <2>5. CASE UNCHANGED vars
    BY <2>5 DEF vars, Forward
  <2>6. QED
    BY <2>1, <2>2, <2>3, <2>4, <2>5 DEF Next
<1>3. QED
  BY <1>1, <1>2, InvariantHolds, PTL DEF Spec, ImplementsMultigraph, Abstract!Spec
=============================================================================
