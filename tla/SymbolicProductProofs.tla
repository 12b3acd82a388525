------------------------ MODULE SymbolicProductProofs ------------------------
(***************************************************************************)
(* SymbolicProduct's type invariant, that a product used in one direction  *)
(* cannot be told from one that is built, and that its node numbers mean   *)
(* the same wherever they are used, for all products, cache sizes and      *)
(* orders of questions.                                                    *)
(*                                                                         *)
(* The numbers take a detour: the folds the model writes sums, products    *)
(* and lists with are unfolded into their prefixes, the mixed radix is     *)
(* taken apart digit by digit, and what permutations() counts through is   *)
(* numbered the same way.                                                  *)
(***************************************************************************)
EXTENDS SymbolicProduct, FiniteSetTheorems, WellFoundedInduction, TLAPS

Smaller == {pair \in Nat \X Nat : pair[1] < pair[2]}

\* A nonempty set of natural numbers has a least element: the element make()
\* erases exists.
LEMMA LeastKey ==
    ASSUME NEW T \in SUBSET Nat, T # {}
    PROVE  \E x \in T : \A y \in T : x <= y
<1>1. OpToRel(<, Nat) = Smaller
  BY Zenon DEF OpToRel, Smaller
<1>2. \E x \in T : \A y \in T : <<y, x>> \notin Smaller
  BY <1>1, NatLessThanWellFounded, WFMin, Zenon
<1>3. PICK x \in T : \A y \in T : <<y, x>> \notin Smaller
  BY <1>2
<1>4. ASSUME NEW y \in T PROVE x <= y
  <2>1. x \in Nat /\ y \in Nat /\ <<y, x>> \notin Smaller
    BY <1>3
  <2>2. ~ (y < x)
    BY <2>1, SMT DEF Smaller
  <2>. QED
    BY <2>1, <2>2, SMT
<1>. QED
  BY <1>4

\* Induction along the numbers up to n, from 0 on.
LEMMA Upwards ==
    ASSUME NEW n \in Nat, NEW T, 0 \in T, \A k \in 1 .. n : k - 1 \in T => k \in T
    PROVE  0 .. n \subseteq T
<1>. DEFINE Missed == {k \in 0 .. n : k \notin T}
<1>. SUFFICES ASSUME Missed # {} PROVE FALSE
  OBVIOUS
<1>1. PICK k \in Missed : \A l \in Missed : k <= l
  <2>1. Missed \in SUBSET Nat
    OBVIOUS
  <2>. HIDE DEF Missed
  <2>. QED
    BY <2>1, LeastKey
<1>2. k \in 1 .. n /\ k - 1 \in 0 .. n /\ ~ (k <= k - 1)
  BY <1>1
<1>3. k - 1 \in T
  BY <1>1, <1>2
<1>. QED
  BY <1>1, <1>2, <1>3

\* And from n down.
LEMMA Downwards ==
    ASSUME NEW n \in Nat, NEW T, n \in T, \A k \in 1 .. n : k \in T => k - 1 \in T
    PROVE  0 .. n \subseteq T
<1>. DEFINE U == {k \in 0 .. n : n - k \in T}
<1>1. 0 \in U
  OBVIOUS
<1>2. ASSUME NEW k \in 1 .. n, k - 1 \in U PROVE k \in U
  <2>1. n - (k - 1) \in T /\ n - (k - 1) \in 1 .. n /\ (n - (k - 1)) - 1 = n - k
    BY <1>2
  <2>. QED
    BY <2>1
<1>3. 0 .. n \subseteq U
  <2>. HIDE DEF U
  <2>. QED
    BY <1>1, <1>2, Upwards
<1>4. ASSUME NEW k \in 0 .. n PROVE k \in T
  <2>1. n - k \in 0 .. n /\ n - (n - k) = k
    OBVIOUS
  <2>2. n - k \in U
    BY <1>3, <2>1
  <2>. QED
    BY <2>1, <2>2
<1>. QED
  BY <1>4

\* Division with a rest.
LEMMA DivMod ==
    ASSUME NEW n \in Nat, NEW d \in Nat, d > 0
    PROVE  n \div d \in Nat /\ n % d \in 0 .. d - 1 /\ n = d * (n \div d) + (n % d)
<1>1. n \div d \in Nat
  OBVIOUS
<1>2. n % d \in 0 .. d - 1
  OBVIOUS
<1>3. n = d * (n \div d) + (n % d)
  BY SMTT(60)
<1>. QED
  BY <1>1, <1>2, <1>3

\* A quotient and a rest are the only ones.
LEMMA DivModUnique ==
    ASSUME NEW d \in Nat, d > 0, NEW q \in Nat, NEW r \in 0 .. d - 1
    PROVE  (d * q + r) \div d = q /\ (d * q + r) % d = r
<1>1. ASSUME NEW n \in Nat, n = d * q + r PROVE n \div d = q
  BY <1>1, SMTT(60)
<1>2. ASSUME NEW n \in Nat, n = d * q + r PROVE n % d = r
  BY <1>2, SMTT(60)
<1>3. d * q + r \in Nat
  OBVIOUS
<1>. QED
  BY <1>1, <1>2, <1>3

-----------------------------------------------------------------------------
(***************************************************************************)
(* Three operators are folds: sums, products, and what a set leaves of a   *)
(* list.  A fold's values on the prefixes say what it is.                  *)
(***************************************************************************)

\* What each fold starts with, and one step of it.
FoldBase(fold) == IF fold = "plus" THEN 0 ELSE IF fold = "times" THEN 1 ELSE <<>>

FoldStep(fold, S, value, x) ==
    IF fold = "plus" THEN value + x
    ELSE IF fold = "times" THEN value * x
    ELSE IF x \in S THEN Append(value, x) ELSE value

\* The recursion of a fold over the first n elements of s.
FoldsTo(fold, S, s, n, g) ==
    g = [T \in SUBSET (1 .. n) |->
            IF T = {} THEN FoldBase(fold)
                      ELSE FoldStep(fold, S, g[T \ {Max(T)}], s[Max(T)])]

\* A nonempty set of numbers up to n has a greatest.
LEMMA GreatestElement ==
    ASSUME NEW n \in Nat, NEW T \in SUBSET (1 .. n), T # {}
    PROVE  Max(T) \in T /\ \A y \in T : Max(T) >= y
<1> DEFINE U == {n - x : x \in T}
<1>1. U \in SUBSET Nat /\ U # {}
  <2>1. \A x \in T : n - x \in Nat
    OBVIOUS
  <2>2. QED
    BY <2>1
<1>2. PICK u \in U : \A y \in U : u <= y
  <2> HIDE DEF U
  <2>1. QED
    BY <1>1, LeastKey
<1>3. PICK x \in T : u = n - x
  BY <1>2
<1>4. \A y \in T : x >= y
  <2> SUFFICES ASSUME NEW y \in T PROVE x >= y
    OBVIOUS
  <2>1. n - x <= n - y
    BY <1>2, <1>3
  <2>2. QED
    BY <2>1
<1>5. QED
  BY <1>4 DEF Max

\* The recursion has a solution.
LEMMA FoldExists ==
    ASSUME NEW fold, NEW S, NEW s, NEW n \in Nat
    PROVE  \E g : FoldsTo(fold, S, s, n, g)
<1> DEFINE Fold(g, T) == IF T = {} THEN FoldBase(fold)
                                   ELSE FoldStep(fold, S, g[T \ {Max(T)}], s[Max(T)])
           Solved(l) == \E g : g = [T \in SUBSET (1 .. l) |-> Fold(g, T)]
           Missed == {l \in Nat : ~ Solved(l)}
<1>1. Solved(0)
  <2> DEFINE g == [T \in SUBSET (1 .. 0) |-> FoldBase(fold)]
  <2>1. \A T \in SUBSET (1 .. 0) : T = {}
    OBVIOUS
  <2>2. g = [T \in SUBSET (1 .. 0) |-> Fold(g, T)]
    BY <2>1
  <2>3. QED
    BY <2>2
<1>2. ASSUME NEW l \in Nat, Solved(l) PROVE Solved(l + 1)
  <2>1. PICK g : g = [T \in SUBSET (1 .. l) |-> Fold(g, T)]
    BY <1>2
  <2> DEFINE h == [T \in SUBSET (1 .. l + 1) |->
                      IF l + 1 \in T THEN FoldStep(fold, S, g[T \ {l + 1}], s[l + 1])
                                        ELSE g[T]]
  <2>2. ASSUME NEW T \in SUBSET (1 .. l + 1) PROVE h[T] = Fold(h, T)
    <3>1. CASE l + 1 \in T
      <4>1. Max(T) = l + 1
        <5>1. l + 1 \in Nat /\ T # {}
          BY <3>1
        <5>2. Max(T) \in T /\ \A y \in T : Max(T) >= y
          BY <5>1, GreatestElement
        <5>3. Max(T) \in 1 .. l + 1 /\ Max(T) >= l + 1
          BY <3>1, <5>2
        <5>4. QED
          BY <5>3
      <4>2. T \ {l + 1} \in SUBSET (1 .. l + 1) /\ l + 1 \notin T \ {l + 1}
        OBVIOUS
      <4>3. h[T \ {l + 1}] = g[T \ {l + 1}]
        BY <4>2
      <4>4. h[T] = FoldStep(fold, S, g[T \ {l + 1}], s[l + 1])
        BY <3>1
      <4>5. QED
        BY <3>1, <4>1, <4>3, <4>4
    <3>2. CASE l + 1 \notin T
      <4>1. T \in SUBSET (1 .. l)
        BY <3>2
      <4>2. h[T] = g[T] /\ g[T] = Fold(g, T)
        BY <2>1, <3>2, <4>1
      <4>3. CASE T = {}
        BY <4>2, <4>3
      <4>4. CASE T # {}
        <5>1. T \ {Max(T)} \in SUBSET (1 .. l + 1) /\ l + 1 \notin T \ {Max(T)}
          BY <3>2
        <5>2. h[T \ {Max(T)}] = g[T \ {Max(T)}]
          BY <5>1
        <5>3. QED
          BY <4>2, <4>4, <5>2
      <4>5. QED
        BY <4>3, <4>4
    <3>3. QED
      BY <3>1, <3>2
  <2>3. h = [T \in SUBSET (1 .. l + 1) |-> Fold(h, T)]
    <3> HIDE DEF Fold
    <3>1. QED
      BY <2>2
  <2>4. QED
    BY <2>3
<1>3. Missed = {}
  <2> SUFFICES ASSUME Missed # {} PROVE FALSE
    OBVIOUS
  <2>1. PICK l \in Missed : \A k \in Missed : l <= k
    <3>1. Missed \in SUBSET Nat
      OBVIOUS
    <3> HIDE DEF Missed
    <3>2. QED
      BY <3>1, LeastKey
  <2>2. l \in Nat /\ ~ Solved(l)
    BY <2>1
  <2> HIDE DEF Solved
  <2>3. l # 0
    BY <1>1, <2>2
  <2>4. l - 1 \in Nat /\ (l - 1) + 1 = l /\ ~ (l <= l - 1)
    BY <2>2, <2>3
  <2>5. l - 1 \notin Missed
    BY <2>1, <2>4
  <2>6. Solved(l - 1)
    BY <2>4, <2>5
  <2>7. Solved((l - 1) + 1)
    BY <1>2, <2>4, <2>6
  <2>8. QED
    BY <2>2, <2>4, <2>7
<1>4. Solved(n)
  BY <1>3
<1>5. QED
  BY <1>4 DEF FoldsTo

\* The values of a fold on the prefixes of a list.
LEMMA PrefixValues ==
    ASSUME NEW fold, NEW S, NEW s, NEW n \in Nat, NEW h, FoldsTo(fold, S, s, n, h)
    PROVE  /\ h[1 .. 0] = FoldBase(fold)
           /\ \A k \in 1 .. n : h[1 .. k] = FoldStep(fold, S, h[1 .. k - 1], s[k])
<1>1. h[1 .. 0] = FoldBase(fold)
  <2>1. 1 .. 0 = {} /\ {} \in SUBSET (1 .. n)
    OBVIOUS
  <2>2. h[{}] = FoldBase(fold)
    BY <2>1 DEF FoldsTo
  <2>3. QED
    BY <2>1, <2>2
<1>2. ASSUME NEW k \in 1 .. n PROVE h[1 .. k] = FoldStep(fold, S, h[1 .. k - 1], s[k])
  <2>1. /\ 1 .. k \in SUBSET (1 .. n) /\ 1 .. k # {} /\ k \in Nat
        /\ (1 .. k) \ {k} = 1 .. k - 1
    <3>1. k \in Nat /\ k \in 1 .. k
      OBVIOUS
    <3>2. (1 .. k) \ {k} = 1 .. k - 1
      OBVIOUS
    <3>3. 1 .. k \in SUBSET (1 .. n)
      OBVIOUS
    <3>4. QED
      BY <3>1, <3>2, <3>3
  <2>2. Max(1 .. k) = k
    <3>1. 1 .. k \in SUBSET (1 .. k)
      OBVIOUS
    <3>2. Max(1 .. k) \in 1 .. k /\ \A y \in 1 .. k : Max(1 .. k) >= y
      BY <2>1, <3>1, GreatestElement
    <3>3. Max(1 .. k) >= k /\ Max(1 .. k) <= k /\ Max(1 .. k) \in Nat
      BY <2>1, <3>2
    <3>4. QED
      BY <2>1, <3>3
  <2>3. QED
    BY <2>1, <2>2 DEF FoldsTo
<1>3. QED
  BY <1>1, <1>2

\* The prefixes of a sum.
LEMMA PrefixSums ==
    ASSUME NEW n \in Nat, NEW v, DOMAIN v = 1 .. n
    PROVE  \E t : t[0] = 0 /\ (\A k \in 1 .. n : t[k] = t[k - 1] + v[k]) /\ t[n] = Plus(v)
<1>. DEFINE Fold(g, T) == IF T = {} THEN 0 ELSE g[T \ {Max(T)}] + v[Max(T)]
            S == {}
<1>1. \A g : FoldsTo("plus", S, v, n, g) <=> g = [T \in SUBSET DOMAIN v |-> Fold(g, T)]
  BY DEF FoldsTo, FoldBase, FoldStep
<1>2. \E g : g = [T \in SUBSET DOMAIN v |-> Fold(g, T)]
  BY <1>1, FoldExists
<1>3. PICK h : h = [T \in SUBSET DOMAIN v |-> Fold(h, T)] /\ Plus(v) = h[DOMAIN v]
  BY <1>2 DEF Plus, FoldLeft, MapThenFoldSet
<1>4. /\ h[1 .. 0] = FoldBase("plus")
      /\ \A k \in 1 .. n : h[1 .. k] = FoldStep("plus", S, h[1 .. k - 1], v[k])
  <2>1. FoldsTo("plus", S, v, n, h)
    BY <1>1, <1>3
  <2>. QED
    BY <2>1, PrefixValues
<1>. DEFINE t == [k \in 0 .. n |-> h[1 .. k]]
<1>5. t[0] = 0 /\ t[n] = Plus(v)
  BY <1>3, <1>4 DEF FoldBase
<1>6. ASSUME NEW k \in 1 .. n PROVE t[k] = t[k - 1] + v[k]
  <2>1. k \in 0 .. n /\ k - 1 \in 0 .. n
    OBVIOUS
  <2>. QED
    BY <1>4, <2>1 DEF FoldStep
<1>. QED
  BY <1>5, <1>6

\* The same for a product.
LEMMA PrefixProducts ==
    ASSUME NEW n \in Nat, NEW v, DOMAIN v = 1 .. n
    PROVE  \E t : t[0] = 1 /\ (\A k \in 1 .. n : t[k] = t[k - 1] * v[k]) /\ t[n] = Times(v)
<1>. DEFINE Fold(g, T) == IF T = {} THEN 1 ELSE g[T \ {Max(T)}] * v[Max(T)]
            S == {}
<1>1. \A g : FoldsTo("times", S, v, n, g) <=> g = [T \in SUBSET DOMAIN v |-> Fold(g, T)]
  BY DEF FoldsTo, FoldBase, FoldStep
<1>2. \E g : g = [T \in SUBSET DOMAIN v |-> Fold(g, T)]
  BY <1>1, FoldExists
<1>3. PICK h : h = [T \in SUBSET DOMAIN v |-> Fold(h, T)] /\ Times(v) = h[DOMAIN v]
  BY <1>2 DEF Times, FoldLeft, MapThenFoldSet
<1>4. /\ h[1 .. 0] = FoldBase("times")
      /\ \A k \in 1 .. n : h[1 .. k] = FoldStep("times", S, h[1 .. k - 1], v[k])
  <2>1. FoldsTo("times", S, v, n, h)
    BY <1>1, <1>3
  <2>. QED
    BY <2>1, PrefixValues
<1>. DEFINE t == [k \in 0 .. n |-> h[1 .. k]]
<1>5. t[0] = 1 /\ t[n] = Times(v)
  BY <1>3, <1>4 DEF FoldBase
<1>6. ASSUME NEW k \in 1 .. n PROVE t[k] = t[k - 1] * v[k]
  <2>1. k \in 0 .. n /\ k - 1 \in 0 .. n
    OBVIOUS
  <2>. QED
    BY <1>4, <2>1 DEF FoldStep
<1>. QED
  BY <1>5, <1>6

\* And for a list that is picked from.
LEMMA PickedPrefixes ==
    ASSUME NEW n \in Nat, NEW v, DOMAIN v = 1 .. n, NEW S
    PROVE  \E t : /\ t[0] = <<>>
                  /\ \A k \in 1 .. n : t[k] = IF v[k] \in S THEN Append(t[k - 1], v[k]) ELSE t[k - 1]
                  /\ t[n] = Among(v, S)
<1>. DEFINE Fold(g, T) == IF T = {} THEN <<>>
                          ELSE IF v[Max(T)] \in S THEN Append(g[T \ {Max(T)}], v[Max(T)]) ELSE g[T \ {Max(T)}]
<1>1. \A g : FoldsTo("among", S, v, n, g) <=> g = [T \in SUBSET DOMAIN v |-> Fold(g, T)]
  BY DEF FoldsTo, FoldBase, FoldStep
<1>2. \E g : g = [T \in SUBSET DOMAIN v |-> Fold(g, T)]
  BY <1>1, FoldExists
<1>3. PICK h : h = [T \in SUBSET DOMAIN v |-> Fold(h, T)] /\ Among(v, S) = h[DOMAIN v]
  BY <1>2 DEF Among, FoldLeft, MapThenFoldSet
<1>4. /\ h[1 .. 0] = FoldBase("among")
      /\ \A k \in 1 .. n : h[1 .. k] = FoldStep("among", S, h[1 .. k - 1], v[k])
  <2>1. FoldsTo("among", S, v, n, h)
    <3>1. FoldsTo("among", S, v, n, h) <=> h = [T \in SUBSET DOMAIN v |-> Fold(h, T)]
      BY ONLY <1>1, Zenon
    <3>2. h = [T \in SUBSET DOMAIN v |-> Fold(h, T)]
      BY ONLY <1>3, Zenon
    <3>. QED
      BY ONLY <3>1, <3>2, Zenon
  <2>. QED
    <3>. HIDE DEF Fold
    <3>1. ASSUME NEW fold, fold = "among" PROVE FoldsTo(fold, S, v, n, h)
      BY <2>1, <3>1
    <3>2. ASSUME NEW fold, fold = "among"
          PROVE /\ h[1 .. 0] = FoldBase(fold)
                /\ \A k \in 1 .. n : h[1 .. k] = FoldStep(fold, S, h[1 .. k - 1], v[k])
      BY <3>1, <3>2, PrefixValues
    <3>. QED
      BY <3>2
<1>. DEFINE t == [k \in 0 .. n |-> h[1 .. k]]
<1>5. t[0] = <<>> /\ t[n] = Among(v, S)
  BY <1>3, <1>4 DEF FoldBase
<1>6. ASSUME NEW k \in 1 .. n PROVE t[k] = IF v[k] \in S THEN Append(t[k - 1], v[k]) ELSE t[k - 1]
  <2>1. k \in 0 .. n /\ k - 1 \in 0 .. n
    OBVIOUS
  <2>. QED
    BY <1>4, <2>1 DEF FoldStep
<1>. QED
  BY <1>5, <1>6

\* What is picked from a list are its elements in the set.
LEMMA AmongElements ==
    ASSUME NEW D, NEW v \in Seq(D), NEW S
    PROVE  Among(v, S) \in Seq(D) /\ Range(Among(v, S)) = Range(v) \cap S
<1>. DEFINE n == Len(v)
<1>1. DOMAIN v = 1 .. n /\ n \in Nat
  OBVIOUS
<1>2. PICK t : /\ t[0] = <<>>
               /\ \A k \in 1 .. n : t[k] = IF v[k] \in S THEN Append(t[k - 1], v[k]) ELSE t[k - 1]
               /\ t[n] = Among(v, S)
  BY <1>1, PickedPrefixes
<1>. DEFINE Good(k) == t[k] \in Seq(D) /\ Range(t[k]) = {v[j] : j \in 1 .. k} \cap S
            T == {k \in 0 .. n : Good(k)}
<1>3. Good(0)
  BY <1>2 DEF Range
<1>4. ASSUME NEW k \in 1 .. n, Good(k - 1) PROVE Good(k)
  <2>1. t[k - 1] \in Seq(D) /\ v[k] \in D
    BY <1>1, <1>4
  <2>2. {v[j] : j \in 1 .. k} = {v[j] : j \in 1 .. k - 1} \cup {v[k]}
    <3>1. 1 .. k = (1 .. k - 1) \cup {k}
      BY <1>1
    <3>. QED
      BY <3>1
  <2>3. Range(Append(t[k - 1], v[k])) = Range(t[k - 1]) \cup {v[k]}
    <3>. DEFINE old == t[k - 1]
                new == Append(old, v[k])
    <3>1. /\ DOMAIN new = DOMAIN old \cup {Len(old) + 1} /\ Len(old) + 1 \notin DOMAIN old
          /\ new[Len(old) + 1] = v[k] /\ \A j \in DOMAIN old : new[j] = old[j]
      BY <2>1
    <3>. HIDE DEF old, new
    <3>2. Range(new) = Range(old) \cup {v[k]}
      BY <3>1 DEF Range
    <3>. QED
      BY <3>2 DEF old, new
  <2>4. CASE v[k] \in S
    <3>1. t[k] = Append(t[k - 1], v[k])
      BY <1>2, <2>4
    <3>. QED
      BY <1>4, <2>1, <2>2, <2>3, <2>4, <3>1
  <2>5. CASE v[k] \notin S
    <3>1. t[k] = t[k - 1]
      BY <1>2, <2>5
    <3>. QED
      BY <1>4, <2>1, <2>2, <2>5, <3>1
  <2>. QED
    BY <2>4, <2>5
<1>. HIDE DEF Good
<1>5. 0 .. n \subseteq T
  <2>1. 0 \in T
    BY <1>1, <1>3
  <2>2. \A k \in 1 .. n : k - 1 \in T => k \in T
    BY <1>1, <1>4
  <2>. HIDE DEF T, n
  <2>. QED
    BY <1>1, <2>1, <2>2, Upwards
<1>6. Good(n)
  BY <1>1, <1>5
<1>. USE DEF Good
<1>7. {v[j] : j \in 1 .. n} = Range(v)
  BY <1>1 DEF Range
<1>. QED
  BY <1>2, <1>6, <1>7


-----------------------------------------------------------------------------
(***************************************************************************)
(* Numbers in a mixed radix.                                               *)
(***************************************************************************)

\* The place a digit stands at: what is left below the next place.
LEMMA OnePlace ==
    ASSUME NEW w \in Nat, w > 0, NEW s \in Nat, s > 0, NEW node \in Nat
    PROVE  /\ w * s \in Nat /\ w * s > 0
           /\ (node \div w) % s \in 0 .. s - 1
           /\ node % (w * s) = w * ((node \div w) % s) + (node % w)
<1>. DEFINE q == node \div w
            r == node % w
            e == q % s
            q2 == q \div s
<1>1. q \in Nat /\ r \in 0 .. w - 1 /\ node = w * q + r
  BY DivMod
<1>2. q2 \in Nat /\ e \in 0 .. s - 1 /\ q = s * q2 + e
  <2>. HIDE DEF q
  <2>. QED
    BY <1>1, DivMod
<1>. HIDE DEF q, r, e, q2
<1>3. w * s \in Nat /\ w * s > 0
  BY SMTT(30)
<1>4. w * e + r \in 0 .. w * s - 1
  <2>1. e \in Nat /\ e + 1 <= s /\ r \in Nat /\ r < w
    BY <1>1, <1>2
  <2>2. w * e \in Nat /\ w * (e + 1) = w * e + w /\ w * (e + 1) <= w * s
    BY <2>1, SMTT(30)
  <2>. QED
    BY <2>1, <2>2, <1>3
<1>5. node = (w * s) * q2 + (w * e + r)
  <2>1. e \in Nat /\ r \in Nat
    BY <1>1, <1>2
  <2>2. w * (s * q2 + e) = (w * s) * q2 + w * e
    BY <2>1, <1>2, SMTT(30)
  <2>3. (w * s) * q2 \in Nat /\ w * e \in Nat
    BY <2>1, <1>2, <1>3, SMTT(30)
  <2>. QED
    BY <1>1, <1>2, <2>1, <2>2, <2>3
<1>6. ((w * s) * q2 + (w * e + r)) % (w * s) = w * e + r
  <2>. DEFINE d == w * s
              x == w * e + r
  <2>1. d \in Nat /\ d > 0 /\ x \in 0 .. d - 1
    BY <1>3, <1>4
  <2>. HIDE DEF d, x
  <2>2. (d * q2 + x) % d = x
    BY <1>2, <2>1, DivModUnique
  <2>. QED
    BY <2>2 DEF d, x
<1>7. node % (w * s) = w * e + r
  BY <1>5, <1>6
<1>. QED
  BY <1>2, <1>3, <1>7 DEF q, r, e

\* The weights of the places of a list of sizes.
LEMMA Weights ==
    ASSUME NEW n \in Nat, NEW sizes \in [1 .. n -> Nat]
    PROVE  /\ temp(sizes, 1) = 1
           /\ \A k \in 1 .. n : temp(sizes, k + 1) = temp(sizes, k) * sizes[k]
           /\ \A k \in 0 .. n : temp(sizes, k + 1) \in Nat
           /\ temp(sizes, n + 1) = Times(sizes)
<1>1. PICK t : t[0] = 1 /\ (\A k \in 1 .. n : t[k] = t[k - 1] * sizes[k]) /\ t[n] = Times(sizes)
  BY PrefixProducts
<1>2. ASSUME NEW j \in 0 .. n PROVE temp(sizes, j + 1) = t[j]
  <2>. DEFINE part == SubSeq(sizes, 1, j)
  <2>1. j \in Nat /\ DOMAIN part = 1 .. j /\ \A k \in 1 .. j : part[k] = sizes[k]
    OBVIOUS
  <2>. HIDE DEF part
  <2>2. PICK u : u[0] = 1 /\ (\A k \in 1 .. j : u[k] = u[k - 1] * part[k]) /\ u[j] = Times(part)
    BY <2>1, PrefixProducts
  <2>. DEFINE T == {k \in 0 .. j : u[k] = t[k]}
  <2>3. 0 .. j \subseteq T
    <3>1. 0 \in T
      BY <1>1, <2>1, <2>2
    <3>2. ASSUME NEW k \in 1 .. j, k - 1 \in T PROVE k \in T
      <4>1. k \in 1 .. n /\ k \in 0 .. j
        BY <2>1
      <4>2. u[k] = u[k - 1] * sizes[k] /\ t[k] = t[k - 1] * sizes[k] /\ u[k - 1] = t[k - 1]
        BY <1>1, <2>1, <2>2, <3>2, <4>1
      <4>. QED
        BY <4>1, <4>2
    <3>. HIDE DEF T
    <3>. QED
      BY <2>1, <3>1, <3>2, Upwards
  <2>4. u[j] = t[j]
    BY <2>1, <2>3
  <2>5. temp(sizes, j + 1) = Times(part)
    <3>1. (j + 1) - 1 = j
      BY <2>1
    <3>. QED
      BY <3>1 DEF temp, part
  <2>. QED
    BY <2>2, <2>4, <2>5
<1>3. \A k \in 0 .. n : t[k] \in Nat
  <2>. DEFINE T == {k \in 0 .. n : t[k] \in Nat}
  <2>1. 0 \in T
    BY <1>1
  <2>2. ASSUME NEW k \in 1 .. n, k - 1 \in T PROVE k \in T
    <3>1. t[k - 1] \in Nat /\ sizes[k] \in Nat /\ t[k] = t[k - 1] * sizes[k] /\ k \in 0 .. n
      BY <1>1, <2>2
    <3>. QED
      BY <3>1
  <2>3. 0 .. n \subseteq T
    <3>. HIDE DEF T
    <3>. QED
      BY <2>1, <2>2, Upwards
  <2>. QED
    BY <2>3
<1>4. temp(sizes, 1) = 1
  <2>1. 0 \in 0 .. n /\ 0 + 1 = 1
    OBVIOUS
  <2>. QED
    BY <1>1, <1>2, <2>1
<1>5. ASSUME NEW k \in 1 .. n PROVE temp(sizes, k + 1) = temp(sizes, k) * sizes[k]
  <2>1. k \in 0 .. n /\ k - 1 \in 0 .. n /\ (k - 1) + 1 = k
    OBVIOUS
  <2>2. temp(sizes, k) = t[k - 1]
    BY <1>2, <2>1
  <2>. QED
    BY <1>1, <1>2, <2>1, <2>2
<1>6. \A k \in 0 .. n : temp(sizes, k + 1) \in Nat
  BY <1>2, <1>3
<1>7. temp(sizes, n + 1) = Times(sizes)
  <2>1. n \in 0 .. n
    OBVIOUS
  <2>. QED
    BY <1>1, <1>2, <2>1
<1>. QED
  BY <1>4, <1>5, <1>6, <1>7

\* They are positive when the sizes are.
LEMMA PositiveWeights ==
    ASSUME NEW n \in Nat, NEW sizes \in [1 .. n -> Nat \ {0}]
    PROVE  \A k \in 0 .. n : temp(sizes, k + 1) \in Nat /\ temp(sizes, k + 1) > 0
<1>. DEFINE T == {k \in 0 .. n : temp(sizes, k + 1) \in Nat /\ temp(sizes, k + 1) > 0}
<1>0. sizes \in [1 .. n -> Nat]
  OBVIOUS
<1>1. 0 \in T
  BY <1>0, Weights
<1>2. ASSUME NEW k \in 1 .. n, k - 1 \in T PROVE k \in T
  <2>. DEFINE w == temp(sizes, k)
              s == sizes[k]
  <2>1. w \in Nat /\ w > 0 /\ s \in Nat /\ s > 0
    <3>1. (k - 1) + 1 = k
      OBVIOUS
    <3>. QED
      BY <1>2, <3>1
  <2>2. temp(sizes, k + 1) = w * s /\ k \in 0 .. n
    BY <1>0, Weights
  <2>. HIDE DEF w, s
  <2>3. w * s \in Nat /\ w * s > 0
    BY <2>1, SMTT(30)
  <2>. QED
    BY <2>2, <2>3
<1>3. 0 .. n \subseteq T
  <2>. HIDE DEF T
  <2>. QED
    BY <1>1, <1>2, Upwards
<1>. QED
  BY <1>3

\* The k-th digit of a number.
Digit(sizes, node, k) == (node \div temp(sizes, k)) % sizes[k]

\* The places below a digit and the digit make up the places below the next.
Placed(sizes, node, k) ==
    /\ Digit(sizes, node, k) \in 0 .. sizes[k] - 1
    /\ node % temp(sizes, k + 1) = temp(sizes, k) * Digit(sizes, node, k) + (node % temp(sizes, k))

\* That is so for every digit.
LEMMA DigitPlace ==
    ASSUME NEW n \in Nat, NEW sizes \in [1 .. n -> Nat \ {0}], NEW node \in Nat, NEW k \in 1 .. n
    PROVE  Placed(sizes, node, k)
<1>. DEFINE w == temp(sizes, k)
            s == sizes[k]
<1>1. w \in Nat /\ w > 0 /\ s \in Nat /\ s > 0
  <2>1. k - 1 \in 0 .. n /\ (k - 1) + 1 = k
    OBVIOUS
  <2>2. temp(sizes, (k - 1) + 1) \in Nat /\ temp(sizes, (k - 1) + 1) > 0
    BY <2>1, PositiveWeights
  <2>3. s \in Nat /\ s > 0
    OBVIOUS
  <2>. QED
    BY <2>1, <2>2, <2>3
<1>2. temp(sizes, k + 1) = w * s
  BY Weights
<1>. HIDE DEF w, s
<1>3. (node \div w) % s \in 0 .. s - 1 /\ node % (w * s) = w * ((node \div w) % s) + (node % w)
  BY <1>1, OnePlace
<1>. QED
  BY <1>2, <1>3 DEF w, s, Digit, Placed

\* A number is put together from its digits.
LEMMA Together ==
    ASSUME NEW n \in Nat, NEW sizes \in [1 .. n -> Nat \ {0}], NEW node \in 0 .. Times(sizes) - 1
    PROVE  Plus([k \in 1 .. n |-> temp(sizes, k) * Digit(sizes, node, k)]) = node
<1>. DEFINE v == [k \in 1 .. n |-> temp(sizes, k) * Digit(sizes, node, k)]
<1>1. PICK t : t[0] = 0 /\ (\A k \in 1 .. n : t[k] = t[k - 1] + v[k]) /\ t[n] = Plus(v)
  <2>1. DOMAIN v = 1 .. n
    OBVIOUS
  <2>. HIDE DEF v
  <2>. QED
    BY <2>1, PrefixSums
<1>2. Times(sizes) \in Nat /\ node \in Nat /\ temp(sizes, 1) = 1 /\ Times(sizes) = temp(sizes, n + 1)
  <2>1. sizes \in [1 .. n -> Nat] /\ n \in 0 .. n
    OBVIOUS
  <2>2. temp(sizes, n + 1) \in Nat /\ temp(sizes, 1) = 1 /\ Times(sizes) = temp(sizes, n + 1)
    BY <2>1, Weights
  <2>. QED
    BY <2>2
<1>. DEFINE T == {k \in 0 .. n : t[k] = node % temp(sizes, k + 1)}
<1>3. 0 \in T
  <2>1. node % 1 = 0
    BY <1>2
  <2>. QED
    BY <1>1, <1>2, <2>1
<1>4. ASSUME NEW k \in 1 .. n, k - 1 \in T PROVE k \in T
  <2>1. k \in 0 .. n /\ (k - 1) + 1 = k
    OBVIOUS
  <2>2. t[k - 1] = node % temp(sizes, k)
    BY <1>4, <2>1
  <2>3. node % temp(sizes, k + 1) = temp(sizes, k) * Digit(sizes, node, k) + (node % temp(sizes, k))
    BY <1>2, DigitPlace DEF Placed
  <2>. DEFINE low == node % temp(sizes, k)
              high == temp(sizes, k) * Digit(sizes, node, k)
  <2>4. low \in Nat /\ high \in Nat
    <3>1. k - 1 \in 0 .. n
      OBVIOUS
    <3>2. temp(sizes, k) \in Nat /\ temp(sizes, k) > 0
      BY <2>1, <3>1, PositiveWeights
    <3>3. Digit(sizes, node, k) \in Nat
      <4>1. Digit(sizes, node, k) \in 0 .. sizes[k] - 1 /\ sizes[k] \in Nat
        BY <1>2, DigitPlace DEF Placed
      <4>. QED
        BY <4>1
    <3>. HIDE DEF Digit, temp
    <3>4. low \in Nat
      BY <1>2, <3>2, DivMod
    <3>5. high \in Nat
      BY <3>2, <3>3
    <3>. QED
      BY <3>4, <3>5
  <2>5. t[k] = low + high
    BY <1>1, <2>2
  <2>6. node % temp(sizes, k + 1) = high + low
    BY <2>3
  <2>. HIDE DEF low, high
  <2>. QED
    BY <2>1, <2>4, <2>5, <2>6
<1>5. 0 .. n \subseteq T
  <2>. HIDE DEF T
  <2>. QED
    BY <1>3, <1>4, Upwards
<1>6. t[n] = node % temp(sizes, n + 1)
  BY <1>5
<1>7. node % Times(sizes) = node
  <2>. DEFINE d == Times(sizes)
  <2>1. d \in Nat /\ node \in 0 .. d - 1 /\ d > 0
    BY <1>2
  <2>. HIDE DEF d
  <2>2. node % d = node
    BY <2>1, SMTT(30)
  <2>. QED
    BY <2>2 DEF d
<1>. QED
  BY <1>1, <1>2, <1>6, <1>7

\* Placing a digit above the ones below, whatever is above it.
PlacedApart(w, s, low, e, m) ==
    /\ low + w * e \in 0 .. w * s - 1
    /\ (low + w * e) + (w * s) * m = low + w * (e + s * m)
    /\ e + s * m \in Nat
    /\ ((low + w * (e + s * m)) \div w) % s = e

\* Wherever the digit fits its place.
LEMMA OnePlaceApart ==
    ASSUME NEW w \in Nat, w > 0, NEW s \in Nat, s > 0,
           NEW low \in 0 .. w - 1, NEW e \in 0 .. s - 1, NEW m \in Nat
    PROVE  PlacedApart(w, s, low, e, m)
<1>1. e \in Nat /\ e + 1 <= s /\ low \in Nat /\ low < w
  OBVIOUS
<1>2. low + w * e \in 0 .. w * s - 1
  <2>1. w * e \in Nat /\ w * (e + 1) = w * e + w /\ w * (e + 1) <= w * s /\ w * s \in Nat
    BY <1>1, SMTT(30)
  <2>. QED
    BY <1>1, <2>1
<1>3. s * m \in Nat /\ (w * s) * m = w * (s * m)
  BY <1>1, SMTT(30)
<1>4. (low + w * e) + (w * s) * m = low + w * (e + s * m)
  <2>. DEFINE x == s * m
  <2>1. x \in Nat
    BY <1>3
  <2>. HIDE DEF x
  <2>2. w * (e + x) = w * e + w * x /\ w * e \in Nat /\ w * x \in Nat
    BY <1>1, <2>1, SMTT(30)
  <2>3. (low + w * e) + w * x = low + w * (e + x)
    BY <1>1, <2>2
  <2>. QED
    BY <1>3, <2>3 DEF x
<1>5. ((low + w * (e + s * m)) \div w) % s = e
  <2>. DEFINE q == e + s * m
  <2>1. q \in Nat
    BY <1>1, <1>3
  <2>2. (s * m + e) % s = e
    BY DivModUnique
  <2>3. q % s = e
    <3>1. q = s * m + e
      BY <1>1, <1>3
    <3>. QED
      BY <2>2, <3>1
  <2>. HIDE DEF q
  <2>4. (w * q + low) \div w = q
    BY <2>1, DivModUnique
  <2>5. low + w * q = w * q + low
    <3>1. w * q \in Nat
      BY <2>1, SMTT(30)
    <3>. QED
      BY <1>1, <3>1
  <2>6. ((low + w * q) \div w) % s = e
    BY <2>3, <2>4, <2>5
  <2>. QED
    BY <2>6 DEF q
<1>. QED
  BY <1>1, <1>2, <1>3, <1>4, <1>5 DEF PlacedApart

\* And it is taken apart into the digits it was put together from.
LEMMA Apart ==
    ASSUME NEW n \in Nat, NEW sizes \in [1 .. n -> Nat \ {0}], NEW d, \A k \in 1 .. n : d[k] \in 0 .. sizes[k] - 1
    PROVE  LET node == Plus([k \in 1 .. n |-> temp(sizes, k) * d[k]])
           IN  /\ node \in 0 .. Times(sizes) - 1
               /\ \A k \in 1 .. n : Digit(sizes, node, k) = d[k]
<1>. DEFINE v == [k \in 1 .. n |-> temp(sizes, k) * d[k]]
            node == Plus(v)
<1>1. PICK t : t[0] = 0 /\ (\A k \in 1 .. n : t[k] = t[k - 1] + v[k]) /\ t[n] = node
  <2>1. DOMAIN v = 1 .. n
    OBVIOUS
  <2>. HIDE DEF v
  <2>2. \E t : t[0] = 0 /\ (\A k \in 1 .. n : t[k] = t[k - 1] + v[k]) /\ t[n] = Plus(v)
    BY <2>1, PrefixSums
  <2>. QED
    BY <2>2
<1>. HIDE DEF node
<1>2. /\ temp(sizes, 1) = 1 /\ Times(sizes) = temp(sizes, n + 1)
      /\ \A k \in 1 .. n : temp(sizes, k + 1) = temp(sizes, k) * sizes[k]
  <2>1. sizes \in [1 .. n -> Nat]
    OBVIOUS
  <2>. QED
    BY <2>1, Weights
<1>3. ASSUME NEW k \in 1 .. n
      PROVE  /\ temp(sizes, k) \in Nat /\ temp(sizes, k) > 0
             /\ sizes[k] \in Nat /\ sizes[k] > 0
             /\ temp(sizes, k + 1) = temp(sizes, k) * sizes[k]
             /\ t[k] = t[k - 1] + temp(sizes, k) * d[k]
             /\ d[k] \in 0 .. sizes[k] - 1
             /\ (k - 1) + 1 = k /\ k - 1 \in 0 .. n /\ k \in 0 .. n
  <2>1. k - 1 \in 0 .. n /\ (k - 1) + 1 = k /\ k \in 0 .. n
    OBVIOUS
  <2>2. temp(sizes, (k - 1) + 1) \in Nat /\ temp(sizes, (k - 1) + 1) > 0
    BY <2>1, PositiveWeights
  <2>3. sizes[k] \in Nat /\ sizes[k] > 0
    OBVIOUS
  <2>. QED
    BY <1>1, <1>2, <2>1, <2>2, <2>3
<1>4. \A k \in 0 .. n : t[k] \in 0 .. temp(sizes, k + 1) - 1
  <2>. DEFINE T == {k \in 0 .. n : t[k] \in 0 .. temp(sizes, k + 1) - 1}
  <2>1. 0 \in T
    BY <1>1, <1>2
  <2>2. ASSUME NEW k \in 1 .. n, k - 1 \in T PROVE k \in T
    <3>. DEFINE w == temp(sizes, k)
                low == t[k - 1]
                e == d[k]
                s == sizes[k]
    <3>1. /\ w \in Nat /\ w > 0 /\ s \in Nat /\ s > 0 /\ temp(sizes, k + 1) = w * s /\ t[k] = low + w * e
          /\ e \in 0 .. s - 1 /\ k \in 0 .. n
      BY <1>3
    <3>2. low \in 0 .. w - 1
      BY <1>3, <2>2
    <3>. HIDE DEF w, low, e, s
    <3>3. 0 \in Nat
      OBVIOUS
    <3>4. low + w * e \in 0 .. w * s - 1
      BY <3>1, <3>2, <3>3, OnePlaceApart DEF PlacedApart
    <3>. QED
      BY <3>1, <3>4
  <2>3. 0 .. n \subseteq T
    <3>. HIDE DEF T
    <3>. QED
      BY <2>1, <2>2, Upwards
  <2>. QED
    BY <2>3
<1>5. \A k \in 0 .. n : \E m \in Nat : node = t[k] + temp(sizes, k + 1) * m
  <2>. DEFINE T == {k \in 0 .. n : \E m \in Nat : node = t[k] + temp(sizes, k + 1) * m}
  <2>1. n \in T
    <3>1. n \in 0 .. n
      OBVIOUS
    <3>2. t[n] \in Nat /\ temp(sizes, n + 1) \in Nat
      <4>1. t[n] \in 0 .. temp(sizes, n + 1) - 1
        BY <1>4, <3>1
      <4>2. temp(sizes, n + 1) \in Nat
        BY <3>1, PositiveWeights
      <4>. QED
        BY <4>1, <4>2
    <3>3. node = t[n] + temp(sizes, n + 1) * 0
      BY <1>1, <3>2
    <3>. QED
      BY <3>1, <3>3
  <2>2. ASSUME NEW k \in 1 .. n, k \in T PROVE k - 1 \in T
    <3>1. PICK m \in Nat : node = t[k] + temp(sizes, k + 1) * m
      BY <2>2
    <3>. DEFINE w == temp(sizes, k)
                low == t[k - 1]
                e == d[k]
                s == sizes[k]
    <3>2. /\ w \in Nat /\ w > 0 /\ s \in Nat /\ s > 0 /\ temp(sizes, k + 1) = w * s /\ t[k] = low + w * e
          /\ e \in 0 .. s - 1
      BY <1>3
    <3>3. low \in 0 .. w - 1
      BY <1>3, <1>4
    <3>4. node = (low + w * e) + (w * s) * m
      BY <3>1, <3>2
    <3>. HIDE DEF w, low, e, s
    <3>5. /\ low + w * e \in 0 .. w * s - 1
          /\ (low + w * e) + (w * s) * m = low + w * (e + s * m)
          /\ e + s * m \in Nat
          /\ ((low + w * (e + s * m)) \div w) % s = e
      <4>1. PlacedApart(w, s, low, e, m)
        BY <3>1, <3>2, <3>3, OnePlaceApart
      <4>. QED
        BY ONLY <4>1, Zenon DEF PlacedApart
    <3>6. \E m2 \in Nat : node = low + w * m2
      BY <3>4, <3>5
    <3>. USE DEF w, low
    <3>. QED
      BY <1>3, <3>6
  <2>3. 0 .. n \subseteq T
    <3>. HIDE DEF T
    <3>. QED
      BY <2>1, <2>2, Downwards
  <2>. QED
    BY <2>3
<1>6. ASSUME NEW k \in 1 .. n PROVE Digit(sizes, node, k) = d[k]
  <2>1. PICK m \in Nat : node = t[k] + temp(sizes, k + 1) * m
    BY <1>3, <1>5
  <2>. DEFINE w == temp(sizes, k)
              low == t[k - 1]
              e == d[k]
              s == sizes[k]
  <2>2. /\ w \in Nat /\ w > 0 /\ s \in Nat /\ s > 0 /\ temp(sizes, k + 1) = w * s /\ t[k] = low + w * e
        /\ e \in 0 .. s - 1
    BY <1>3
  <2>3. low \in 0 .. w - 1
    BY <1>3, <1>4
  <2>4. node = (low + w * e) + (w * s) * m
    BY <2>1, <2>2
  <2>. HIDE DEF w, low, e, s
  <2>5. /\ low + w * e \in 0 .. w * s - 1
        /\ (low + w * e) + (w * s) * m = low + w * (e + s * m)
        /\ e + s * m \in Nat
        /\ ((low + w * (e + s * m)) \div w) % s = e
    <3>1. PlacedApart(w, s, low, e, m)
      BY <2>1, <2>2, <2>3, OnePlaceApart
    <3>. QED
      BY ONLY <3>1, Zenon DEF PlacedApart
  <2>6. (node \div w) % s = e
    BY <2>4, <2>5
  <2>. QED
    BY <2>6 DEF w, s, e, Digit
<1>7. node \in 0 .. Times(sizes) - 1
  <2>1. n \in 0 .. n
    OBVIOUS
  <2>. QED
    BY <1>1, <1>2, <1>4, <2>1
<1>. QED
  BY <1>6, <1>7 DEF node

-----------------------------------------------------------------------------
(***************************************************************************)
(* The numbers of a product's nodes.                                       *)
(***************************************************************************)

\* The graphs of a product are the model and then the automata.
LEMMA GraphsFacts ==
    ASSUME NEW p, IsProduct(p)
    PROVE  LET n == Len(p.automata) + 1
           IN  /\ n - 1 \in Nat /\ n - 1 > 0 /\ DOMAIN p.automata = 1 .. n - 1
               /\ DOMAIN graphs(p) = 1 .. n
               /\ graphs(p)[1] = p.model
               /\ \A a \in 1 .. n - 1 : graphs(p)[a + 1] = p.automata[a]
               /\ m_graph_sizes(p) \in [1 .. n -> Nat \ {0}]
               /\ Len(m_graph_sizes(p)) = n
               /\ \A k \in 1 .. n : m_graph_sizes(p)[k] = graphs(p)[k].size
<1>. DEFINE n == Len(p.automata) + 1
            S == Range(p.automata) \cup {p.model}
<1>1. p.automata \in Seq(S) /\ <<p.model>> \in Seq(S) /\ p.automata # <<>>
  <2>1. p.automata \in Seq(Range(p.automata)) /\ p.automata # <<>>
    BY DEF IsProduct
  <2>. QED
    BY <2>1
<1>. HIDE DEF S
<1>2. n - 1 \in Nat /\ n - 1 > 0 /\ DOMAIN p.automata = 1 .. n - 1
  BY <1>1
<1>3. DOMAIN graphs(p) = 1 .. n /\ graphs(p)[1] = p.model
  BY <1>1 DEF graphs
<1>4. \A a \in 1 .. n - 1 : graphs(p)[a + 1] = p.automata[a]
  BY <1>1 DEF graphs
<1>5. \A k \in DOMAIN graphs(p) : graphs(p)[k].size \in Nat \ {0}
  BY DEF IsProduct
<1>6. m_graph_sizes(p) = [k \in 1 .. n |-> graphs(p)[k].size]
  BY <1>3 DEF m_graph_sizes
<1>. HIDE DEF n
<1>7. m_graph_sizes(p) \in [1 .. n -> Nat \ {0}]
  BY <1>3, <1>5, <1>6
<1>8. n \in Nat /\ Len(m_graph_sizes(p)) = n
  <2>1. n \in Nat
    BY <1>2 DEF n
  <2>. QED
    BY <2>1, <1>6
<1>9. \A k \in 1 .. n : m_graph_sizes(p)[k] = graphs(p)[k].size
  BY <1>6
<1>. QED
  BY <1>2, <1>3, <1>4, <1>7, <1>8, <1>9 DEF n

\* The indices of a product node: one node of every graph.
IsIndices(p, inds) == \A k \in DOMAIN graphs(p) : inds[k] \in Node(graphs(p)[k])

\* unwrap finds the digits of a number, which wrap puts together again.
LEMMA Unwrapped ==
    ASSUME NEW p, IsProduct(p), NEW node \in WideNode(p)
    PROVE  /\ DOMAIN unwrap(p, node) = DOMAIN graphs(p)
           /\ \A k \in DOMAIN graphs(p) : unwrap(p, node)[k] = Digit(m_graph_sizes(p), node, k)
           /\ IsIndices(p, unwrap(p, node))
           /\ wrap(p, unwrap(p, node)) = node
<1>. DEFINE n == Len(p.automata) + 1
            sizes == m_graph_sizes(p)
            D(k) == Digit(sizes, node, k)
<1>1. /\ n \in Nat /\ DOMAIN graphs(p) = 1 .. n
      /\ sizes \in [1 .. n -> Nat \ {0}] /\ Len(sizes) = n
      /\ \A k \in 1 .. n : sizes[k] = graphs(p)[k].size
  <2>1. n - 1 \in Nat => n \in Nat
    OBVIOUS
  <2>. QED
    BY <2>1, GraphsFacts
<1>. HIDE DEF n, sizes
<1>2. node \in 0 .. Times(sizes) - 1 /\ Times(sizes) \in Nat /\ node \in Nat
  <2>1. Times(sizes) \in Nat
    BY DEF IsProduct, sizes
  <2>2. node \in 0 .. Times(sizes) - 1
    BY DEF WideNode, sizes
  <2>. QED
    BY <2>1, <2>2
<1>3. ASSUME NEW k \in 1 .. n
      PROVE  /\ D(k) \in 0 .. sizes[k] - 1
             /\ ((IF k = n THEN node ELSE node % temp(sizes, k + 1)) - (node % temp(sizes, k)))
                  \div temp(sizes, k) = D(k)
  <2>. DEFINE w == temp(sizes, k)
              low == node % w
              e == D(k)
  <2>1. e \in 0 .. sizes[k] - 1 /\ node % temp(sizes, k + 1) = w * e + low
    <3>1. /\ Digit(sizes, node, k) \in 0 .. sizes[k] - 1
          /\ node % temp(sizes, k + 1) = temp(sizes, k) * Digit(sizes, node, k) + (node % temp(sizes, k))
      <4>. HIDE DEF w, low, e, D
      <4>. QED
        <5>1. Placed(sizes, node, k)
          BY <1>1, <1>2, DigitPlace
        <5>. QED
          BY ONLY <5>1, Zenon DEF Placed
    <3>. QED
      BY ONLY <3>1, Zenon
  <2>2. w \in Nat /\ w > 0
    <3>1. k - 1 \in 0 .. n /\ (k - 1) + 1 = k
      BY <1>1
    <3>2. temp(sizes, (k - 1) + 1) \in Nat /\ temp(sizes, (k - 1) + 1) > 0
      BY <1>1, <3>1, PositiveWeights
    <3>. QED
      BY <3>1, <3>2
  <2>3. k = n => node % temp(sizes, k + 1) = node
    <3>1. Times(sizes) = temp(sizes, n + 1)
      <4>1. sizes \in [1 .. n -> Nat]
        BY <1>1
      <4>. QED
        BY <1>1, <4>1, Weights
    <3>. DEFINE d == Times(sizes)
    <3>2. d \in Nat /\ node \in 0 .. d - 1 /\ d > 0
      BY <1>2
    <3>. HIDE DEF d
    <3>3. node % d = node
      BY <3>2, SMTT(30)
    <3>. QED
      BY <3>1, <3>3 DEF d
  <2>4. (IF k = n THEN node ELSE node % temp(sizes, k + 1)) = w * e + low
    BY <2>1, <2>3
  <2>5. low \in Nat /\ e \in Nat
    <3>1. low \in Nat
      <4>. HIDE DEF w
      <4>. QED
        BY <1>2, <2>2, DivMod
    <3>2. e \in Nat
      <4>1. sizes[k] \in Nat
        BY <1>1
      <4>. HIDE DEF e
      <4>. QED
        BY <2>1, <4>1
    <3>. QED
      BY <3>1, <3>2
  <2>6. ((w * e + low) - low) \div w = e
    <3>. HIDE DEF w, low, e
    <3>1. w * e \in Nat /\ (w * e + low) - low = w * e + 0
      BY <2>2, <2>5
    <3>2. 0 \in 0 .. w - 1
      BY <2>2
    <3>3. (w * e + 0) \div w = e
      BY <2>2, <2>5, <3>2, DivModUnique
    <3>. QED
      BY <3>1, <3>3
  <2>. QED
    BY <2>1, <2>4, <2>6
<1>4. unwrap(p, node) = [k \in 1 .. n |->
         ((IF k = n THEN node ELSE node % temp(sizes, k + 1)) - (node % temp(sizes, k))) \div temp(sizes, k)]
  <2>1. DOMAIN m_graph_sizes(p) = 1 .. n
    BY <1>1 DEF sizes
  <2>. QED
    BY <1>1, <2>1, Zenon DEF unwrap, sizes
<1>. HIDE DEF D
<1>5. unwrap(p, node) = [k \in 1 .. n |-> D(k)]
  BY <1>3, <1>4
<1>6. IsIndices(p, unwrap(p, node))
  BY <1>1, <1>3, <1>5 DEF IsIndices, Node
<1>7. wrap(p, unwrap(p, node)) = node
  <2>1. Plus([k \in 1 .. n |-> temp(sizes, k) * Digit(sizes, node, k)]) = node
    BY <1>1, <1>2, Together
  <2>2. wrap(p, unwrap(p, node)) = Plus([k \in 1 .. n |-> temp(sizes, k) * unwrap(p, node)[k]])
    BY <1>1 DEF wrap, sizes
  <2>3. [k \in 1 .. n |-> temp(sizes, k) * unwrap(p, node)[k]]
          = [k \in 1 .. n |-> temp(sizes, k) * Digit(sizes, node, k)]
    BY <1>5 DEF D
  <2>. QED
    BY <2>1, <2>2, <2>3, Zenon
<1>. QED
  BY <1>1, <1>5, <1>6, <1>7 DEF D, sizes

\* wrap numbers every choice of indices, and unwrap finds them again.
LEMMA Wrapped ==
    ASSUME NEW p, IsProduct(p), NEW inds, IsIndices(p, inds)
    PROVE  /\ wrap(p, inds) \in WideNode(p)
           /\ \A k \in DOMAIN graphs(p) : unwrap(p, wrap(p, inds))[k] = inds[k]
<1>. DEFINE n == Len(p.automata) + 1
            sizes == m_graph_sizes(p)
<1>1. /\ n \in Nat /\ DOMAIN graphs(p) = 1 .. n
      /\ sizes \in [1 .. n -> Nat \ {0}]
      /\ \A k \in 1 .. n : sizes[k] = graphs(p)[k].size
  <2>1. n - 1 \in Nat => n \in Nat
    OBVIOUS
  <2>. QED
    BY <2>1, GraphsFacts
<1>. HIDE DEF n, sizes
<1>2. \A k \in 1 .. n : inds[k] \in 0 .. sizes[k] - 1
  BY <1>1 DEF IsIndices, Node
<1>3. wrap(p, inds) = Plus([k \in 1 .. n |-> temp(sizes, k) * inds[k]])
  BY <1>1 DEF wrap, sizes
<1>4. /\ Plus([k \in 1 .. n |-> temp(sizes, k) * inds[k]]) \in 0 .. Times(sizes) - 1
      /\ \A k \in 1 .. n : Digit(sizes, Plus([j \in 1 .. n |-> temp(sizes, j) * inds[j]]), k) = inds[k]
  BY <1>1, <1>2, Apart
<1>5. wrap(p, inds) \in WideNode(p)
  BY <1>3, <1>4 DEF WideNode, sizes
<1>6. \A k \in DOMAIN graphs(p) : unwrap(p, wrap(p, inds))[k] = Digit(sizes, wrap(p, inds), k)
  BY <1>5, Unwrapped DEF sizes
<1>. QED
  BY <1>1, <1>3, <1>4, <1>5, <1>6

\* Two product nodes with the same indices are the same.
LEMMA SameIndices ==
    ASSUME NEW p, IsProduct(p), NEW inds, NEW others,
           \A k \in DOMAIN graphs(p) : inds[k] = others[k]
    PROVE  wrap(p, inds) = wrap(p, others)
<1>1. [k \in DOMAIN graphs(p) |-> temp(m_graph_sizes(p), k) * inds[k]]
        = [k \in DOMAIN graphs(p) |-> temp(m_graph_sizes(p), k) * others[k]]
  OBVIOUS
<1>. QED
  BY <1>1, Zenon DEF wrap

-----------------------------------------------------------------------------
(***************************************************************************)
(* The enumeration of all choices.                                         *)
(***************************************************************************)

IsOptions(n, options) ==
    /\ DOMAIN options = 1 .. n
    /\ \A k \in 1 .. n : options[k] \in Seq(Range(options[k]))

Lengths(options) == [k \in DOMAIN options |-> Len(options[k])]

\* A choice takes one member of every sequence of options.
LEMMA PicksAreChoices ==
    ASSUME NEW n \in Nat, NEW options, IsOptions(n, options), \A k \in 1 .. n : options[k] # <<>>
    PROVE  \A x \in DOMAIN Picks(options) :
              /\ Picks(options)[x] = [k \in 1 .. n |-> Picks(options)[x][k]]
              /\ \A k \in 1 .. n : Picks(options)[x][k] \in Range(options[k])
<1>. DEFINE lens == Lengths(options)
<1>1. DOMAIN options = 1 .. n /\ lens \in [1 .. n -> Nat \ {0}]
      /\ \A k \in 1 .. n : lens[k] = Len(options[k]) /\ DOMAIN options[k] = 1 .. lens[k]
  <2>1. \A k \in 1 .. n : Len(options[k]) \in Nat \ {0} /\ DOMAIN options[k] = 1 .. Len(options[k])
    BY DEF IsOptions
  <2>. QED
    BY <2>1 DEF IsOptions, Lengths
<1>2. permutations(lens) = [x \in 1 .. Times(lens) |-> [k \in 1 .. n |-> 1 + Digit(lens, x - 1, k)]]
  BY <1>1 DEF permutations, Digit
<1>3. Picks(options) = [x \in 1 .. Times(lens) |-> [k \in 1 .. n |-> options[k][1 + Digit(lens, x - 1, k)]]]
  <2>1. Picks(options) = [x \in DOMAIN permutations(lens) |-> [k \in 1 .. n |-> options[k][permutations(lens)[x][k]]]]
    BY <1>1, Zenon DEF Picks, Lengths
  <2>. HIDE DEF lens
  <2>. QED
    BY <1>2, <2>1
<1>4. Times(lens) \in Nat
  <2>1. lens \in [1 .. n -> Nat] /\ n \in 0 .. n
    BY <1>1
  <2>. HIDE DEF lens
  <2>. QED
    BY <2>1, Weights
<1>. HIDE DEF lens
<1>5. ASSUME NEW x \in 1 .. Times(lens), NEW k \in 1 .. n
      PROVE  options[k][1 + Digit(lens, x - 1, k)] \in Range(options[k])
  <2>1. x - 1 \in Nat
    BY <1>4
  <2>2. Placed(lens, x - 1, k)
    BY <1>1, <2>1, DigitPlace
  <2>3. Digit(lens, x - 1, k) \in 0 .. lens[k] - 1 /\ lens[k] \in Nat
    BY <1>1, <2>2 DEF Placed
  <2>4. 1 + Digit(lens, x - 1, k) \in DOMAIN options[k]
    <3>. DEFINE e == Digit(lens, x - 1, k)
    <3>1. e \in 0 .. lens[k] - 1
      BY <2>3
    <3>. HIDE DEF e
    <3>2. 1 + e \in 1 .. lens[k]
      BY <2>3, <3>1
    <3>. QED
      BY <1>1, <3>2 DEF e
  <2>. QED
    BY <2>4 DEF Range
<1>. QED
  BY <1>3, <1>5

\* Every choice is enumerated.
LEMMA ChoicesArePicked ==
    ASSUME NEW n \in Nat, NEW options, IsOptions(n, options),
           NEW c, \A k \in 1 .. n : c[k] \in Range(options[k])
    PROVE  \E x \in DOMAIN Picks(options) : \A k \in 1 .. n : Picks(options)[x][k] = c[k]
<1>. DEFINE lens == Lengths(options)
            at == [k \in 1 .. n |-> CHOOSE i \in DOMAIN options[k] : options[k][i] = c[k]]
            d == [k \in 1 .. n |-> at[k] - 1]
<1>1. \A k \in 1 .. n : at[k] \in DOMAIN options[k] /\ options[k][at[k]] = c[k]
  <2>1. \A k \in 1 .. n : \E i \in DOMAIN options[k] : options[k][i] = c[k]
    BY DEF Range
  <2>. QED
    BY <2>1
<1>. HIDE DEF at
<1>2. DOMAIN options = 1 .. n /\ lens \in [1 .. n -> Nat \ {0}]
      /\ \A k \in 1 .. n : d[k] \in 0 .. lens[k] - 1 /\ 1 + d[k] = at[k]
  <2>1. \A k \in 1 .. n : Len(options[k]) \in Nat /\ at[k] \in 1 .. Len(options[k])
    BY <1>1 DEF IsOptions
  <2>2. \A k \in 1 .. n : Len(options[k]) \in Nat \ {0} /\ at[k] - 1 \in 0 .. Len(options[k]) - 1 /\ 1 + (at[k] - 1) = at[k]
    BY <2>1
  <2>. QED
    BY <2>2 DEF IsOptions, Lengths
<1>3. permutations(lens) = [x \in 1 .. Times(lens) |-> [k \in 1 .. n |-> 1 + Digit(lens, x - 1, k)]]
  BY <1>2 DEF permutations, Digit
<1>4. Picks(options) = [x \in 1 .. Times(lens) |-> [k \in 1 .. n |-> options[k][1 + Digit(lens, x - 1, k)]]]
  <2>1. Picks(options) = [x \in DOMAIN permutations(lens) |-> [k \in 1 .. n |-> options[k][permutations(lens)[x][k]]]]
    BY <1>2, Zenon DEF Picks, Lengths
  <2>. HIDE DEF lens
  <2>. QED
    BY <1>3, <2>1
<1>. HIDE DEF lens, d
<1>. DEFINE node == Plus([k \in 1 .. n |-> temp(lens, k) * d[k]])
<1>5. node \in 0 .. Times(lens) - 1 /\ \A k \in 1 .. n : Digit(lens, node, k) = d[k]
  BY <1>2, Apart
<1>. HIDE DEF node
<1>6. node + 1 \in 1 .. Times(lens) /\ (node + 1) - 1 = node
  <2>1. Times(lens) \in Nat
    <3>1. lens \in [1 .. n -> Nat] /\ n \in 0 .. n
      BY <1>2
    <3>. QED
      BY <3>1, Weights
  <2>. QED
    BY <1>5, <2>1
<1>7. ASSUME NEW k \in 1 .. n PROVE Picks(options)[node + 1][k] = c[k]
  <2>1. Picks(options)[node + 1][k] = options[k][1 + Digit(lens, (node + 1) - 1, k)]
    BY <1>4, <1>6
  <2>2. Digit(lens, (node + 1) - 1, k) = d[k]
    BY <1>5, <1>6
  <2>. QED
    BY <1>1, <1>2, <2>1, <2>2
<1>. QED
  BY <1>4, <1>6, <1>7

\* There are none where one sequence is empty.
LEMMA NoChoice ==
    ASSUME NEW n \in Nat, NEW options, IsOptions(n, options), NEW none \in 1 .. n, options[none] = <<>>
    PROVE  DOMAIN Picks(options) = {}
<1>. DEFINE lens == Lengths(options)
<1>1. DOMAIN options = 1 .. n /\ lens \in [1 .. n -> Nat] /\ lens[none] = 0
  <2>1. \A k \in 1 .. n : Len(options[k]) \in Nat
    BY DEF IsOptions
  <2>. QED
    BY <2>1 DEF IsOptions, Lengths
<1>. HIDE DEF lens
<1>. DEFINE T == {k \in 0 .. n : k >= none => temp(lens, k + 1) = 0}
<1>2. 0 \in T
  OBVIOUS
<1>3. ASSUME NEW k \in 1 .. n, k - 1 \in T PROVE k \in T
  <2>1. /\ k \in 0 .. n /\ k - 1 \in 0 .. n /\ (k - 1) + 1 = k
    OBVIOUS
  <2>2. temp(lens, k + 1) = temp(lens, k) * lens[k] /\ temp(lens, (k - 1) + 1) \in Nat
    BY <1>1, <2>1, Weights
  <2>3. CASE k = none
    BY <1>1, <2>1, <2>2, <2>3
  <2>4. CASE k # none /\ k >= none
    <3>1. k - 1 >= none
      BY <2>4
    <3>2. temp(lens, k) = 0
      BY <1>3, <2>1, <3>1
    <3>. QED
      BY <1>1, <2>1, <2>2, <3>2
  <2>. QED
    BY <2>1, <2>3, <2>4
<1>4. 0 .. n \subseteq T
  <2>. HIDE DEF T
  <2>. QED
    BY <1>2, <1>3, Upwards
<1>5. Times(lens) = 0
  <2>1. n \in 0 .. n /\ n >= none
    OBVIOUS
  <2>2. temp(lens, n + 1) = 0
    BY <1>4, <2>1
  <2>. QED
    BY <1>1, <2>2, Weights
<1>6. DOMAIN permutations(lens) = {}
  BY <1>5 DEF permutations
<1>. QED
  BY <1>6 DEF Picks, lens, Lengths

-----------------------------------------------------------------------------
(***************************************************************************)
(* The enumerations of the initial and of the accepting nodes.             *)
(***************************************************************************)

\* An element in front of a list.
LEMMA Prepended ==
    ASSUME NEW n \in Nat, NEW c, c = [k \in 1 .. n |-> c[k]], NEW x
    PROVE  LET s == <<x>> \o c
           IN  DOMAIN s = 1 .. n + 1 /\ s[1] = x /\ \A k \in 1 .. n : s[k + 1] = c[k]
<1>. DEFINE S == {c[k] : k \in 1 .. n} \cup {x}
<1>1. c \in Seq(S) /\ Len(c) = n /\ <<x>> \in Seq(S)
  <2>1. c \in [1 .. n -> S]
    OBVIOUS
  <2>2. Len(c) = n
    BY DOMAIN c = 1 .. n
  <2>. QED
    BY <2>1, <2>2
<1>. HIDE DEF S
<1>. QED
  BY <1>1

\* Indices are one of the model and one of every automaton.
LEMMA IndicesFromParts ==
    ASSUME NEW p, IsProduct(p), NEW inds
    PROVE  IsIndices(p, inds) <=> /\ inds[1] \in Node(p.model)
                                  /\ \A a \in DOMAIN p.automata : inds[a + 1] \in Node(p.automata[a])
<1>. DEFINE n == Len(p.automata)
<1>1. /\ n \in Nat /\ DOMAIN p.automata = 1 .. n /\ DOMAIN graphs(p) = 1 .. n + 1
      /\ graphs(p)[1] = p.model
      /\ \A a \in 1 .. n : graphs(p)[a + 1] = p.automata[a]
  <2>1. (n + 1) - 1 = n
    BY DEF IsProduct
  <2>. QED
    BY <2>1, GraphsFacts
<1>. HIDE DEF n
<1>2. \A k \in 1 .. n + 1 : k = 1 \/ (k - 1 \in 1 .. n /\ k = (k - 1) + 1)
  BY <1>1
<1>3. 1 \in 1 .. n + 1 /\ \A a \in 1 .. n : a + 1 \in 1 .. n + 1
  BY <1>1
<1>4. IsIndices(p, inds) <=> \A k \in 1 .. n + 1 : inds[k] \in Node(graphs(p)[k])
  BY <1>1 DEF IsIndices
<1>5. ASSUME inds[1] \in Node(p.model), \A a \in 1 .. n : inds[a + 1] \in Node(p.automata[a]), NEW k \in 1 .. n + 1
      PROVE  inds[k] \in Node(graphs(p)[k])
  <2>1. CASE k = 1
    BY <1>1, <1>5, <2>1
  <2>2. CASE k # 1
    <3>. DEFINE a == k - 1
    <3>1. a \in 1 .. n /\ k = a + 1
      BY <1>2, <2>2
    <3>. HIDE DEF a
    <3>. QED
      BY <1>1, <1>5, <3>1
  <2>. QED
    BY <2>1, <2>2
<1>6. ASSUME \A k \in 1 .. n + 1 : inds[k] \in Node(graphs(p)[k])
      PROVE  inds[1] \in Node(p.model) /\ \A a \in 1 .. n : inds[a + 1] \in Node(p.automata[a])
  <2>1. ASSUME NEW a \in 1 .. n PROVE inds[a + 1] \in Node(p.automata[a])
    BY <1>1, <1>3, <1>6
  <2>. QED
    BY <1>1, <1>3, <1>6, <2>1
<1>. QED
  BY <1>1, <1>4, <1>5, <1>6

\* Two nodes with the same parts are the same.
LEMMA SameParts ==
    ASSUME NEW p, IsProduct(p), NEW inds, NEW others,
           inds[1] = others[1], \A a \in DOMAIN p.automata : inds[a + 1] = others[a + 1]
    PROVE  wrap(p, inds) = wrap(p, others)
<1>. DEFINE n == Len(p.automata)
<1>1. n \in Nat /\ DOMAIN p.automata = 1 .. n /\ DOMAIN graphs(p) = 1 .. n + 1
  <2>1. (n + 1) - 1 = n
    BY DEF IsProduct
  <2>. QED
    BY <2>1, GraphsFacts
<1>. HIDE DEF n
<1>2. \A k \in 1 .. n + 1 : k = 1 \/ (k - 1 \in 1 .. n /\ k = (k - 1) + 1)
  BY <1>1
<1>3. \A k \in DOMAIN graphs(p) : inds[k] = others[k]
  BY <1>1, <1>2
<1>. QED
  BY <1>3, SameIndices

\* The parts of a node.
LEMMA Parts ==
    ASSUME NEW p, IsProduct(p), NEW node \in WideNode(p)
    PROVE  /\ unwrap(p, node)[1] \in Node(p.model)
           /\ \A a \in DOMAIN p.automata : unwrap(p, node)[a + 1] \in Node(p.automata[a])
BY Unwrapped, IndicesFromParts

\* getInitNodes() enumerates the nodes whose automata are in initial states.
LEMMA InitNodes ==
    ASSUME NEW p, IsProduct(p), NEW sp \in Node(p.model)
    PROVE  Range(getInitNodes(p, sp)) =
             {node \in WideNode(p) :
                /\ unwrap(p, node)[1] = sp
                /\ \A a \in DOMAIN p.automata : unwrap(p, node)[a + 1] \in Range(p.automata[a].init)}
<1>. DEFINE n == Len(p.automata)
            options == [k \in DOMAIN p.automata |-> p.automata[k].init]
            nodeOf(x) == wrap(p, <<sp>> \o Picks(options)[x])
            Initial(node) == /\ unwrap(p, node)[1] = sp
                             /\ \A a \in DOMAIN p.automata : unwrap(p, node)[a + 1] \in Range(p.automata[a].init)
<1>1. n \in Nat /\ DOMAIN p.automata = 1 .. n
  BY DEF IsProduct
<1>2. /\ IsOptions(n, options)
      /\ \A k \in 1 .. n : options[k] # <<>>
      /\ \A k \in 1 .. n : Range(options[k]) \subseteq Node(p.automata[k])
  BY <1>1 DEF IsProduct, IsOptions
<1>3. getInitNodes(p, sp) = [x \in DOMAIN Picks(options) |-> nodeOf(x)]
  BY Zenon DEF getInitNodes, Mapped
<1>. HIDE DEF n
<1>4. ASSUME NEW x \in DOMAIN Picks(options) PROVE nodeOf(x) \in WideNode(p) /\ Initial(nodeOf(x))
  <2>. DEFINE c == Picks(options)[x]
              inds == <<sp>> \o c
  <2>1. c = [k \in 1 .. n |-> c[k]] /\ \A k \in 1 .. n : c[k] \in Range(options[k])
    <3>. HIDE DEF options
    <3>. QED
      BY <1>1, <1>2, PicksAreChoices
  <2>. HIDE DEF c
  <2>2. inds[1] = sp /\ \A k \in 1 .. n : inds[k + 1] = c[k]
    BY <1>1, <2>1, Prepended
  <2>. HIDE DEF inds
  <2>3. IsIndices(p, inds)
    BY <1>1, <1>2, <2>1, <2>2, IndicesFromParts
  <2>4. wrap(p, inds) \in WideNode(p) /\ \A k \in DOMAIN graphs(p) : unwrap(p, wrap(p, inds))[k] = inds[k]
    BY <2>3, Wrapped
  <2>5. 1 \in DOMAIN graphs(p) /\ \A a \in 1 .. n : a + 1 \in DOMAIN graphs(p)
    BY <1>1, GraphsFacts DEF n
  <2>6. Initial(wrap(p, inds))
    BY <1>1, <2>1, <2>2, <2>4, <2>5
  <2>. QED
    BY <2>4, <2>6 DEF inds, c
<1>5. ASSUME NEW node \in WideNode(p), Initial(node) PROVE \E x \in DOMAIN Picks(options) : nodeOf(x) = node
  <2>. DEFINE u == unwrap(p, node)
              c == [a \in 1 .. n |-> u[a + 1]]
  <2>1. \A k \in 1 .. n : c[k] \in Range(options[k])
    BY <1>1, <1>5
  <2>2. PICK x \in DOMAIN Picks(options) : \A k \in 1 .. n : Picks(options)[x][k] = c[k]
    <3>. HIDE DEF c, options
    <3>. QED
      BY <1>1, <1>2, <2>1, ChoicesArePicked
  <2>. DEFINE pick == Picks(options)[x]
              inds == <<sp>> \o pick
  <2>3. pick = [k \in 1 .. n |-> pick[k]]
    <3>. HIDE DEF options, c
    <3>. QED
      BY <1>1, <1>2, <2>2, PicksAreChoices
  <2>4. \A k \in 1 .. n : pick[k] = u[k + 1]
    BY <2>2
  <2>. HIDE DEF pick, u
  <2>5. inds[1] = sp /\ \A k \in 1 .. n : inds[k + 1] = pick[k]
    BY <1>1, <2>3, Prepended
  <2>. HIDE DEF inds
  <2>6. inds[1] = u[1] /\ \A a \in DOMAIN p.automata : inds[a + 1] = u[a + 1]
    BY <1>1, <1>5, <2>4, <2>5 DEF u
  <2>7. wrap(p, inds) = wrap(p, u)
    BY <2>6, SameParts
  <2>8. wrap(p, u) = node
    BY Unwrapped DEF u
  <2>9. nodeOf(x) = node
    BY <2>7, <2>8 DEF inds, pick
  <2>. QED
    BY <2>2, <2>9
<1>. HIDE DEF nodeOf, options
<1>6. Range(getInitNodes(p, sp)) = {nodeOf(x) : x \in DOMAIN Picks(options)}
  BY <1>3 DEF Range
<1>. QED
  BY <1>4, <1>5, <1>6

\* A list of nodes in order has the ones that were asked for.
LEMMA AscendingNodes ==
    ASSUME NEW g, g.size \in Nat, NEW N
    PROVE  Ascending(g, N) \in Seq(Node(g)) /\ Range(Ascending(g, N)) = Node(g) \cap N
<1>. DEFINE all == [k \in 1 .. g.size |-> k - 1]
<1>1. all \in Seq(Node(g))
  BY DEF Node
<1>2. Range(all) = Node(g)
  <2>1. \A m \in Node(g) : m + 1 \in 1 .. g.size /\ (m + 1) - 1 = m
    BY DEF Node
  <2>2. \A k \in 1 .. g.size : k - 1 \in Node(g)
    BY DEF Node
  <2>3. \A m \in Node(g) : m + 1 \in DOMAIN all /\ all[m + 1] = m
    BY <2>1
  <2>4. \A k \in DOMAIN all : all[k] \in Node(g)
    BY <2>2
  <2>. HIDE DEF all
  <2>. QED
    BY <2>3, <2>4 DEF Range
<1>. HIDE DEF all
<1>3. Among(all, N) \in Seq(Node(g)) /\ Range(Among(all, N)) = Range(all) \cap N
  BY <1>1, AmongElements
<1>. QED
  BY <1>2, <1>3 DEF Ascending, all

\* getAcceptingNodes() enumerates the nodes whose automata all accept.
LEMMA AcceptingNodes ==
    ASSUME NEW p, IsProduct(p)
    PROVE  getAcceptingNodes(p) =
             {node \in WideNode(p) :
                /\ unwrap(p, node)[1] \in Range(nodes(p.model))
                /\ \A a \in DOMAIN p.automata : acc(p, node, a)}
<1>. DEFINE n == Len(p.automata)
            accepting == [k \in DOMAIN p.automata |-> Ascending(p.automata[k], p.automata[k].accepting)]
            options == <<nodes(p.model)>> \o accepting
            nodeOf(x) == wrap(p, Picks(options)[x])
            Accepting(node) == /\ unwrap(p, node)[1] \in Range(nodes(p.model))
                               /\ \A a \in DOMAIN p.automata : unwrap(p, node)[a + 1] \in p.automata[a].accepting
<1>1. n \in Nat /\ DOMAIN p.automata = 1 .. n
  BY DEF IsProduct
<1>2. /\ \A a \in 1 .. n : /\ accepting[a] \in Seq(Node(p.automata[a]))
                           /\ accepting[a] # <<>>
                           /\ Range(accepting[a]) = p.automata[a].accepting
      /\ nodes(p.model) \in Seq(Node(p.model))
  <2>1. p.model.size \in Nat /\ \A a \in 1 .. n : p.automata[a].size \in Nat
    <3>1. /\ 1 \in DOMAIN graphs(p) /\ graphs(p)[1] = p.model
          /\ \A a \in 1 .. n : a + 1 \in DOMAIN graphs(p) /\ graphs(p)[a + 1] = p.automata[a]
      BY <1>1, GraphsFacts
    <3>2. \A k \in DOMAIN graphs(p) : graphs(p)[k].size \in Nat
      BY DEF IsProduct
    <3>. QED
      BY <3>1, <3>2
  <2>2. nodes(p.model) \in Seq(Node(p.model))
    BY <2>1, AscendingNodes DEF nodes
  <2>3. ASSUME NEW a \in 1 .. n
        PROVE  /\ accepting[a] \in Seq(Node(p.automata[a]))
               /\ accepting[a] # <<>>
               /\ Range(accepting[a]) = p.automata[a].accepting
    <3>. DEFINE g == p.automata[a]
                s == Ascending(g, g.accepting)
    <3>1. s \in Seq(Node(g)) /\ Range(s) = Node(g) \cap g.accepting
      BY <2>1, AscendingNodes
    <3>2. g.accepting # {} /\ g.accepting \subseteq Node(g)
      BY <1>1 DEF IsProduct
    <3>3. accepting[a] = s
      BY <1>1
    <3>. HIDE DEF s, g
    <3>4. s # <<>>
      BY <3>1, <3>2 DEF Range
    <3>. QED
      BY <3>1, <3>2, <3>3, <3>4 DEF g
  <2>. QED
    BY <2>2, <2>3
<1>3. DOMAIN options = 1 .. n + 1 /\ options[1] = nodes(p.model) /\ \A a \in 1 .. n : options[a + 1] = accepting[a]
  <2>1. accepting = [k \in 1 .. n |-> accepting[k]]
    BY <1>1
  <2>. HIDE DEF accepting, n
  <2>. QED
    BY <1>1, <2>1, Prepended
<1>4. getAcceptingNodes(p) = Range([x \in DOMAIN Picks(options) |-> nodeOf(x)])
  BY Zenon DEF getAcceptingNodes, Mapped
<1>. HIDE DEF options, accepting, n
<1>5. \A k \in 1 .. n + 1 : k = 1 \/ (k - 1 \in 1 .. n /\ k = (k - 1) + 1)
  BY <1>1
<1>6. IsOptions(n + 1, options)
  <2>1. \A k \in 1 .. n + 1 : options[k] \in Seq(Range(options[k]))
    <3>1. ASSUME NEW s, NEW S, s \in Seq(S) PROVE s \in Seq(Range(s))
      BY <3>1 DEF Range
    <3>2. \A k \in 1 .. n + 1 : \E S : options[k] \in Seq(S)
      BY <1>2, <1>3, <1>5
    <3>. QED
      BY <3>1, <3>2
  <2>. QED
    BY <1>3, <2>1 DEF IsOptions
<1>7. /\ 1 \in DOMAIN graphs(p) /\ \A a \in 1 .. n : a + 1 \in DOMAIN graphs(p)
      /\ n + 1 \in Nat /\ 1 \in 1 .. n + 1 /\ \A a \in 1 .. n : a + 1 \in 1 .. n + 1
  BY <1>1, GraphsFacts DEF n
<1>8. ASSUME NEW x \in DOMAIN Picks(options) PROVE nodeOf(x) \in WideNode(p) /\ Accepting(nodeOf(x))
  <2>. DEFINE c == Picks(options)[x]
  <2>1. \A k \in 1 .. n + 1 : options[k] # <<>>
    <3>1. nodes(p.model) # <<>>
      <4>. SUFFICES ASSUME nodes(p.model) = <<>> PROVE FALSE
        OBVIOUS
      <4>1. DOMAIN Picks(options) = {}
        BY <1>3, <1>6, <1>7, NoChoice
      <4>. QED
        BY <4>1
    <3>. QED
      BY <1>2, <1>3, <1>5, <3>1
  <2>2. \A k \in 1 .. n + 1 : c[k] \in Range(options[k])
    BY <1>6, <1>7, <2>1, PicksAreChoices
  <2>. HIDE DEF c
  <2>3. c[1] \in Range(nodes(p.model)) /\ \A a \in 1 .. n : c[a + 1] \in p.automata[a].accepting
    <3>1. c[1] \in Range(nodes(p.model))
      BY <1>3, <1>7, <2>2
    <3>2. ASSUME NEW a \in 1 .. n PROVE c[a + 1] \in p.automata[a].accepting
      BY <1>2, <1>3, <1>7, <2>2
    <3>. QED
      BY <3>1, <3>2
  <2>4. IsIndices(p, c)
    <3>1. c[1] \in Node(p.model)
      BY <1>2, <2>3 DEF Range
    <3>2. \A a \in 1 .. n : c[a + 1] \in Node(p.automata[a])
      <4>1. \A a \in 1 .. n : p.automata[a].accepting \subseteq Node(p.automata[a])
        BY <1>1 DEF IsProduct
      <4>. QED
        BY <2>3, <4>1
    <3>. QED
      BY <1>1, <3>1, <3>2, IndicesFromParts
  <2>5. wrap(p, c) \in WideNode(p) /\ \A k \in DOMAIN graphs(p) : unwrap(p, wrap(p, c))[k] = c[k]
    BY <2>4, Wrapped
  <2>6. Accepting(wrap(p, c))
    BY <1>1, <1>7, <2>3, <2>5
  <2>. QED
    BY <2>5, <2>6 DEF c
<1>9. ASSUME NEW node \in WideNode(p), Accepting(node) PROVE \E x \in DOMAIN Picks(options) : nodeOf(x) = node
  <2>. DEFINE u == unwrap(p, node)
  <2>1. \A k \in 1 .. n + 1 : u[k] \in Range(options[k])
    <3>1. u[1] \in Range(options[1])
      BY <1>3, <1>9
    <3>2. ASSUME NEW a \in 1 .. n PROVE u[a + 1] \in Range(options[a + 1])
      BY <1>1, <1>2, <1>3, <1>9
    <3>. HIDE DEF u
    <3>. QED
      BY <1>5, <3>1, <3>2
  <2>. HIDE DEF u
  <2>2. PICK x \in DOMAIN Picks(options) : \A k \in 1 .. n + 1 : Picks(options)[x][k] = u[k]
    BY <1>6, <1>7, <2>1, ChoicesArePicked
  <2>3. wrap(p, Picks(options)[x]) = wrap(p, u)
    BY <1>1, <1>7, <2>2, SameParts
  <2>4. wrap(p, u) = node
    BY Unwrapped DEF u
  <2>. QED
    BY <2>2, <2>3, <2>4
<1>10. Range([x \in DOMAIN Picks(options) |-> nodeOf(x)]) = {nodeOf(x) : x \in DOMAIN Picks(options)}
  <2>. HIDE DEF nodeOf
  <2>. QED
    BY DEF Range
<1>. HIDE DEF nodeOf
<1>11. getAcceptingNodes(p) = {node \in WideNode(p) : Accepting(node)}
  BY <1>4, <1>8, <1>9, <1>10
<1>. QED
  BY <1>11 DEF acc

-----------------------------------------------------------------------------
(***************************************************************************)
(* What the neighbors and the edges of a node are made of.                 *)
(***************************************************************************)

\* A list is one of its own elements.
LEMMA OwnRange ==
    ASSUME NEW S, NEW s \in Seq(S)
    PROVE  s \in Seq(Range(s))
BY DEF Range

\* The recursion of FlattenSeq has a solution.
LEMMA FlattenExists ==
    ASSUME NEW n \in Nat, NEW seqs
    PROVE  \E g : g = [i \in 1 .. n |-> IF i = 1 THEN seqs[i] ELSE g[i - 1] \o seqs[i]]
<1>. DEFINE Solved(l) == \E g : g = [i \in 1 .. l |-> IF i = 1 THEN seqs[i] ELSE g[i - 1] \o seqs[i]]
            T == {l \in 0 .. n : Solved(l)}
<1>1. 0 \in T
  <2>1. <<>> = [i \in 1 .. 0 |-> IF i = 1 THEN seqs[i] ELSE <<>>[i - 1] \o seqs[i]]
    OBVIOUS
  <2>2. Solved(0)
    BY <2>1
  <2>. HIDE DEF Solved
  <2>. QED
    BY <2>2
<1>2. ASSUME NEW l \in 1 .. n, l - 1 \in T PROVE l \in T
  <2>1. PICK g : g = [i \in 1 .. l - 1 |-> IF i = 1 THEN seqs[i] ELSE g[i - 1] \o seqs[i]]
    BY <1>2
  <2>. DEFINE h == [i \in 1 .. l |-> IF i = l THEN (IF l = 1 THEN seqs[l] ELSE g[l - 1] \o seqs[l]) ELSE g[i]]
  <2>2. ASSUME NEW i \in 1 .. l PROVE h[i] = IF i = 1 THEN seqs[i] ELSE h[i - 1] \o seqs[i]
    <3>1. CASE i = l
      <4>1. i # 1 => i - 1 \in 1 .. l /\ i - 1 # l
        BY <3>1
      <4>. QED
        BY <3>1, <4>1
    <3>2. CASE i # l
      <4>1. i \in 1 .. l - 1 /\ (i # 1 => i - 1 \in 1 .. l /\ i - 1 # l)
        BY <3>2
      <4>. QED
        BY <2>1, <3>2, <4>1
    <3>. QED
      BY <3>1, <3>2
  <2>3. h = [i \in 1 .. l |-> IF i = 1 THEN seqs[i] ELSE h[i - 1] \o seqs[i]]
    <3>1. h = [i \in 1 .. l |-> h[i]]
      OBVIOUS
    <3>. HIDE DEF h
    <3>. QED
      BY <2>2, <3>1
  <2>. HIDE DEF h
  <2>4. Solved(l)
    BY <2>3
  <2>. HIDE DEF Solved
  <2>. QED
    BY <2>4
<1>. HIDE DEF Solved
<1>3. 0 .. n \subseteq T
  <2>. HIDE DEF T
  <2>. QED
    BY <1>1, <1>2, Upwards
<1>4. Solved(n)
  BY <1>3
<1>. QED
  BY <1>4 DEF Solved

\* A flattened sequence of sequences has the elements of each.
LEMMA Flattened ==
    ASSUME NEW n \in Nat, NEW seqs, seqs = [i \in 1 .. n |-> seqs[i]],
           \A i \in 1 .. n : seqs[i] \in Seq(Range(seqs[i]))
    PROVE  LET S == UNION {Range(seqs[i]) : i \in 1 .. n}
           IN  FlattenSeq(seqs) \in Seq(S) /\ Range(FlattenSeq(seqs)) = S
<1>. DEFINE S == UNION {Range(seqs[i]) : i \in 1 .. n}
<1>1. Len(seqs) = n
  OBVIOUS
<1>2. CASE n = 0
  <2>1. FlattenSeq(seqs) = seqs /\ seqs = <<>>
    BY <1>1, <1>2 DEF FlattenSeq
  <2>2. S = {}
    BY <1>2
  <2>3. <<>> \in Seq({}) /\ Range(<<>>) = {}
    BY DEF Range
  <2>. QED
    BY <2>1, <2>2, <2>3
<1>3. CASE n # 0
  <2>1. PICK g : /\ g = [i \in 1 .. n |-> IF i = 1 THEN seqs[i] ELSE g[i - 1] \o seqs[i]]
                 /\ FlattenSeq(seqs) = g[n]
    BY <1>1, <1>3, FlattenExists DEF FlattenSeq
  <2>. DEFINE Good(i) == g[i] \in Seq(S) /\ Range(g[i]) = UNION {Range(seqs[j]) : j \in 1 .. i}
              T == {i \in 0 .. n : i # 0 => Good(i)}
  <2>2. 0 \in T
    OBVIOUS
  <2>3. ASSUME NEW i \in 1 .. n, i - 1 \in T PROVE i \in T
    <3>1. seqs[i] \in Seq(S) /\ i \in 0 .. n
      <4>1. Range(seqs[i]) \subseteq S
        OBVIOUS
      <4>2. seqs[i] \in Seq(Range(seqs[i]))
        OBVIOUS
      <4>. HIDE DEF S
      <4>. QED
        BY <4>1, <4>2
    <3>2. UNION {Range(seqs[j]) : j \in 1 .. i} = (UNION {Range(seqs[j]) : j \in 1 .. i - 1}) \cup Range(seqs[i])
      <4>1. 1 .. i = (1 .. i - 1) \cup {i}
        OBVIOUS
      <4>. QED
        BY <4>1
    <3>3. CASE i = 1
      <4>1. g[i] = seqs[i]
        BY <2>1, <3>3
      <4>2. UNION {Range(seqs[j]) : j \in 1 .. i} = Range(seqs[i])
        BY <3>3
      <4>. QED
        BY <3>1, <4>1, <4>2
    <3>4. CASE i # 1
      <4>1. g[i] = g[i - 1] \o seqs[i] /\ g[i - 1] \in Seq(S)
            /\ Range(g[i - 1]) = UNION {Range(seqs[j]) : j \in 1 .. i - 1}
        <5>1. i - 1 # 0
          BY <3>4
        <5>2. Good(i - 1)
          BY <2>3, <5>1
        <5>. QED
          BY <2>1, <3>4, <5>2
      <4>. DEFINE x == g[i - 1]
                  y == seqs[i]
      <4>2. x \in Seq(S) /\ y \in Seq(S)
        BY <3>1, <4>1
      <4>. HIDE DEF x, y, S
      <4>3. x \o y \in Seq(S) /\ Range(x \o y) = Range(x) \cup Range(y)
        <5>1. x \o y \in Seq(S) /\ DOMAIN x = 1 .. Len(x) /\ DOMAIN y = 1 .. Len(y) /\ Len(x) \in Nat /\ Len(y) \in Nat
              /\ DOMAIN (x \o y) = 1 .. Len(x) + Len(y)
          BY <4>2
        <5>2. \A k \in DOMAIN (x \o y) : (x \o y)[k] \in Range(x) \cup Range(y)
          <6>1. ASSUME NEW k \in DOMAIN (x \o y) PROVE (x \o y)[k] \in Range(x) \cup Range(y)
            <7>1. CASE k <= Len(x)
              BY <4>2, <5>1, <7>1 DEF Range
            <7>2. CASE ~ (k <= Len(x))
              <8>1. (x \o y)[k] = y[k - Len(x)] /\ k - Len(x) \in DOMAIN y
                BY <4>2, <5>1, <7>2
              <8>. QED
                BY <8>1 DEF Range
            <7>. QED
              BY <7>1, <7>2
          <6>. QED
            BY <6>1
        <5>3. \A k \in DOMAIN x : x[k] \in Range(x \o y)
          <6>1. \A k \in DOMAIN x : k \in DOMAIN (x \o y) /\ (x \o y)[k] = x[k]
            BY <4>2, <5>1
          <6>. QED
            BY <6>1 DEF Range
        <5>4. \A k \in DOMAIN y : y[k] \in Range(x \o y)
          <6>1. \A k \in DOMAIN y : k + Len(x) \in DOMAIN (x \o y) /\ (x \o y)[k + Len(x)] = y[k]
            BY <4>2, <5>1
          <6>. QED
            BY <6>1 DEF Range
        <5>. QED
          BY <5>1, <5>2, <5>3, <5>4 DEF Range
      <4>4. Good(i)
        BY <3>2, <4>1, <4>3 DEF x, y
      <4>. QED
        BY <3>1, <4>4
    <3>. QED
      BY <3>3, <3>4
  <2>. HIDE DEF Good
  <2>4. 0 .. n \subseteq T
    <3>. HIDE DEF T
    <3>. QED
      BY <2>2, <2>3, Upwards
  <2>5. Good(n)
    BY <1>3, <2>4
  <2>. QED
    BY <2>1, <2>5 DEF Good
<1>. QED
  BY <1>2, <1>3

\* The connections at a node of one of the graphs.
LEMMA Connections ==
    ASSUME NEW g, g.connections \in Seq(Range(g.connections)), NEW n
    PROVE  /\ outgoing(g, n) \in Seq(Range(g.connections)) /\ incoming(g, n) \in Seq(Range(g.connections))
           /\ Range(outgoing(g, n)) = {c \in Range(g.connections) : c.src = n}
           /\ Range(incoming(g, n)) = {c \in Range(g.connections) : c.dst = n}
<1>1. /\ outgoing(g, n) \in Seq(Range(g.connections))
      /\ Range(outgoing(g, n)) = Range(g.connections) \cap {c \in Range(g.connections) : c.src = n}
  BY AmongElements DEF outgoing
<1>2. /\ incoming(g, n) \in Seq(Range(g.connections))
      /\ Range(incoming(g, n)) = Range(g.connections) \cap {c \in Range(g.connections) : c.dst = n}
  BY AmongElements DEF incoming
<1>. QED
  BY <1>1, <1>2

\* The graphs of a product, one by one.
LEMMA ProductGraphs ==
    ASSUME NEW p, IsProduct(p)
    PROVE  /\ p.model.connections \in Seq(Range(p.model.connections))
           /\ \A c \in Range(p.model.connections) : c.src \in Node(p.model) /\ c.dst \in Node(p.model)
           /\ \A a \in DOMAIN p.automata :
                /\ p.automata[a].connections \in Seq(Range(p.automata[a].connections))
                /\ \A c \in Range(p.automata[a].connections) :
                      c.src \in Node(p.automata[a]) /\ c.dst \in Node(p.automata[a])
<1>1. ASSUME NEW k \in DOMAIN graphs(p)
      PROVE  /\ graphs(p)[k].connections \in Seq(Range(graphs(p)[k].connections))
             /\ \A c \in Range(graphs(p)[k].connections) : c.src \in Node(graphs(p)[k]) /\ c.dst \in Node(graphs(p)[k])
  BY DEF IsProduct, Range
<1>2. /\ 1 \in DOMAIN graphs(p) /\ graphs(p)[1] = p.model
      /\ \A a \in DOMAIN p.automata : a + 1 \in DOMAIN graphs(p) /\ graphs(p)[a + 1] = p.automata[a]
  <2>. DEFINE n == Len(p.automata)
  <2>1. /\ n \in Nat /\ DOMAIN p.automata = 1 .. n /\ DOMAIN graphs(p) = 1 .. n + 1
        /\ graphs(p)[1] = p.model
        /\ \A a \in 1 .. n : graphs(p)[a + 1] = p.automata[a]
    <3>1. (n + 1) - 1 = n
      BY DEF IsProduct
    <3>. QED
      BY <3>1, GraphsFacts
  <2>. HIDE DEF n
  <2>. QED
    BY <2>1
<1>. QED
  BY <1>1, <1>2

\* The options an automaton has, as indices into its connections.
LEMMA OptionsElements ==
    ASSUME NEW p, NEW sp, NEW S, NEW cs \in Seq(S)
    PROVE  /\ OptionsInto(p, sp, cs) \in Seq(Range(OptionsInto(p, sp, cs)))
           /\ Range(OptionsInto(p, sp, cs)) = {i \in DOMAIN cs : observe(p, sp, cs[i].edge)}
<1>. DEFINE all == [k \in DOMAIN cs |-> k]
            good == {k \in DOMAIN cs : observe(p, sp, cs[k].edge)}
<1>1. all \in Seq(DOMAIN cs) /\ Range(all) = DOMAIN cs
  <2>1. DOMAIN cs = 1 .. Len(cs) /\ Len(cs) \in Nat
    OBVIOUS
  <2>2. all \in Seq(DOMAIN cs)
    BY <2>1
  <2>. QED
    BY <2>2 DEF Range
<1>. HIDE DEF all
<1>2. Among(all, good) \in Seq(DOMAIN cs) /\ Range(Among(all, good)) = DOMAIN cs \cap good
  BY <1>1, AmongElements
<1>3. OptionsInto(p, sp, cs) = Among(all, good)
  BY DEF OptionsInto, all
<1>4. Among(all, good) \in Seq(Range(Among(all, good)))
  BY <1>2, OwnRange
<1>. QED
  BY <1>2, <1>3, <1>4

\* A connection of the model is combined with every choice of connections.
CombinesAll(n, options, m, cs) ==
    LET combined == Combine(m, Picks(options), cs)
    IN  /\ combined \in Seq(Range(combined))
        /\ \A c \in Range(combined) :
              /\ c.model = m /\ DOMAIN c.automata = 1 .. n
              /\ \A a \in 1 .. n : \E i \in Range(options[a]) : c.automata[a] = cs[a][i]
        /\ \A f : (\A a \in 1 .. n : f[a] \in Range(options[a])) =>
              \E c \in Range(combined) : c.model = m /\ \A a \in 1 .. n : c.automata[a] = cs[a][f[a]]

\* That is so when every automaton has an option.
LEMMA Combined ==
    ASSUME NEW n \in Nat, NEW options, IsOptions(n, options), \A a \in 1 .. n : options[a] # <<>>,
           NEW m, NEW cs, DOMAIN cs = 1 .. n
    PROVE  CombinesAll(n, options, m, cs)
<1>. DEFINE picks == Picks(options)
            combined == Combine(m, picks, cs)
<1>1. combined = [x \in DOMAIN picks |-> [model |-> m, automata |-> [a \in 1 .. n |-> cs[a][picks[x][a]]]]]
  BY DEF Combine
<1>2. combined \in Seq(Range(combined))
  <2>1. \E l \in Nat : DOMAIN picks = 1 .. l
    <3>. DEFINE lens == Lengths(options)
    <3>1. lens \in [1 .. n -> Nat] /\ n \in 0 .. n
      <4>1. \A k \in 1 .. n : Len(options[k]) \in Nat
        BY DEF IsOptions
      <4>. QED
        BY <4>1 DEF IsOptions, Lengths
    <3>2. DOMAIN picks = 1 .. Times(lens)
      BY DEF Picks, permutations, Lengths
    <3>. HIDE DEF lens, picks
    <3>3. Times(lens) \in Nat
      BY <3>1, Weights
    <3>. QED
      BY <3>2, <3>3
  <2>. HIDE DEF picks
  <2>2. combined = [x \in DOMAIN picks |-> combined[x]] /\ DOMAIN combined = DOMAIN picks
    BY <1>1
  <2>. HIDE DEF combined
  <2>3. PICK l \in Nat : DOMAIN picks = 1 .. l
    BY <2>1
  <2>4. combined \in [1 .. l -> Range(combined)]
    BY <2>2, <2>3 DEF Range
  <2>. QED
    BY <2>3, <2>4
<1>3. ASSUME NEW c \in Range(combined)
      PROVE  /\ c.model = m /\ DOMAIN c.automata = 1 .. n
             /\ \A a \in 1 .. n : \E i \in Range(options[a]) : c.automata[a] = cs[a][i]
  <2>1. PICK x \in DOMAIN picks : c = [model |-> m, automata |-> [a \in 1 .. n |-> cs[a][picks[x][a]]]]
    <3>. HIDE DEF picks, combined
    <3>. QED
      BY <1>1 DEF Range
  <2>2. \A a \in 1 .. n : picks[x][a] \in Range(options[a])
    BY <2>1, PicksAreChoices
  <2>. HIDE DEF picks
  <2>. QED
    BY <2>1, <2>2
<1>4. ASSUME NEW f, \A a \in 1 .. n : f[a] \in Range(options[a])
      PROVE  \E c \in Range(combined) : c.model = m /\ \A a \in 1 .. n : c.automata[a] = cs[a][f[a]]
  <2>1. PICK x \in DOMAIN picks : \A a \in 1 .. n : picks[x][a] = f[a]
    BY <1>4, ChoicesArePicked
  <2>. HIDE DEF picks
  <2>2. combined[x] \in Range(combined)
    BY <1>1, <2>1 DEF Range
  <2>3. combined[x] = [model |-> m, automata |-> [a \in 1 .. n |-> cs[a][picks[x][a]]]]
    BY <1>1, <2>1
  <2>4. combined[x].model = m /\ \A a \in 1 .. n : combined[x].automata[a] = cs[a][f[a]]
    BY <2>1, <2>3
  <2>. QED
    BY <2>2, <2>4
<1>. QED
  BY <1>2, <1>3, <1>4 DEF CombinesAll

\* A connection of the model with one of every automaton, leaving the nodes u
\* or entering them, whose observations the model makes.
Leads(p, u, m, f) ==
    /\ m \in Range(outgoing(p.model, u[1]))
    /\ \A a \in DOMAIN p.automata :
          f[a] \in Range(outgoing(p.automata[a], u[a + 1])) /\ observe(p, m.dst, f[a].edge)

Arrives(p, u, m, f) ==
    /\ m \in Range(incoming(p.model, u[1]))
    /\ \A a \in DOMAIN p.automata :
          f[a] \in Range(incoming(p.automata[a], u[a + 1])) /\ observe(p, u[1], f[a].edge)

\* What children() and outgoingEdges() list.
LEMMA OutwardElements ==
    ASSUME NEW p, IsProduct(p), NEW node
    PROVE  LET u == unwrap(p, node)
               listed == Range(Outward(p, node, post(p, node)))
           IN  /\ \A c \in listed : DOMAIN c.automata = DOMAIN p.automata /\ Leads(p, u, c.model, c.automata)
               /\ \A m, f : Leads(p, u, m, f) =>
                     \E c \in listed : c.model = m /\ \A a \in DOMAIN p.automata : c.automata[a] = f[a]
               /\ Outward(p, node, post(p, node)) \in Seq(listed)
<1>. DEFINE n == Len(p.automata)
            u == unwrap(p, node)
            mc == outgoing(p.model, u[1])
            ac == [a \in DOMAIN p.automata |-> outgoing(p.automata[a], u[a + 1])]
            options(k) == [a \in DOMAIN p.automata |-> OptionsInto(p, mc[k].dst, ac[a])]
            perm(k) == [ts_ind_option |-> k, automaton_set_ind_options |-> options(k)]
            perms == [k \in DOMAIN mc |-> perm(k)]
            array == post(p, node)
            part(k) == Combine(mc[k], Picks(options(k)), ac)
            Open(k) == <<>> \notin Range(options(k))
            parts == [q \in DOMAIN array |-> Combine(mc[array[q].ts_ind_option], Picks(array[q].automaton_set_ind_options), ac)]
<1>1. n \in Nat /\ DOMAIN p.automata = 1 .. n
  BY DEF IsProduct
<1>2. /\ mc \in Seq(Range(p.model.connections))
      /\ DOMAIN ac = 1 .. n
      /\ \A a \in 1 .. n : ac[a] = outgoing(p.automata[a], u[a + 1]) /\ ac[a] \in Seq(Range(p.automata[a].connections))
  BY <1>1, ProductGraphs, Connections
<1>3. array = Among(perms, {q \in Range(perms) : <<>> \notin Range(q.automaton_set_ind_options)})
  BY Zenon DEF post
<1>4. Outward(p, node, array) = FlattenSeq(parts)
  BY Zenon DEF Outward
<1>. HIDE DEF n, u, mc, ac
<1>5. /\ array \in Seq(Range(perms))
      /\ Range(array) = {q \in Range(perms) : <<>> \notin Range(q.automaton_set_ind_options)}
  <2>. DEFINE S == {q \in Range(perms) : <<>> \notin Range(q.automaton_set_ind_options)}
  <2>1. perms \in Seq(Range(perms))
    <3>1. DOMAIN perms = 1 .. Len(mc) /\ Len(mc) \in Nat
      BY <1>2
    <3>2. perms = [k \in DOMAIN perms |-> perms[k]]
      BY Zenon
    <3>. HIDE DEF perms
    <3>3. perms \in [1 .. Len(mc) -> Range(perms)]
      BY <3>1, <3>2 DEF Range
    <3>. QED
      BY <3>1, <3>3
  <2>2. S \subseteq Range(perms)
    OBVIOUS
  <2>. HIDE DEF perms, S
  <2>3. Among(perms, S) \in Seq(Range(perms)) /\ Range(Among(perms, S)) = Range(perms) \cap S
    BY <2>1, AmongElements
  <2>4. Among(perms, S) = array
    BY <1>3 DEF S
  <2>. QED
    BY <2>2, <2>3, <2>4 DEF S
<1>. HIDE DEF array
<1>6. \A k \in DOMAIN mc : perm(k) \in Range(perms)
  BY DEF Range
<1>7. \A q \in Range(perms) : \E k \in DOMAIN mc : q = perm(k)
  BY DEF Range
<1>8. /\ \A i \in DOMAIN array : \E k \in DOMAIN mc : array[i] = perm(k) /\ Open(k)
      /\ \A k \in DOMAIN mc : Open(k) => \E i \in DOMAIN array : array[i] = perm(k)
  <2>1. ASSUME NEW i \in DOMAIN array PROVE \E k \in DOMAIN mc : array[i] = perm(k) /\ Open(k)
    <3>1. array[i] \in Range(array)
      BY DEF Range
    <3>2. array[i] \in Range(perms) /\ <<>> \notin Range(array[i].automaton_set_ind_options)
      <4>. HIDE DEF perms
      <4>. QED
        BY <1>5, <3>1
    <3>3. PICK k \in DOMAIN mc : array[i] = perm(k)
      BY <1>7, <3>2
    <3>4. perm(k).automaton_set_ind_options = options(k)
      <4>. HIDE DEF options
      <4>. QED
        OBVIOUS
    <3>. HIDE DEF perm, options
    <3>. QED
      BY <3>2, <3>3, <3>4
  <2>2. ASSUME NEW k \in DOMAIN mc, Open(k) PROVE \E i \in DOMAIN array : array[i] = perm(k)
    <3>1. perm(k).automaton_set_ind_options = options(k)
      <4>. HIDE DEF options
      <4>. QED
        OBVIOUS
    <3>. HIDE DEF perm, options, perms
    <3>2. perm(k) \in Range(array)
      BY <1>5, <1>6, <2>2, <3>1
    <3>. QED
      BY <3>2 DEF Range
  <2>. HIDE DEF Open, perm
  <2>. QED
    BY <2>1, <2>2
<1>9. \A k : perm(k).ts_ind_option = k /\ perm(k).automaton_set_ind_options = options(k)
  <2>. HIDE DEF options
  <2>. QED
    OBVIOUS
<1>10. ASSUME NEW k \in DOMAIN mc
       PROVE  /\ IsOptions(n, options(k))
              /\ \A a \in 1 .. n : Range(options(k)[a]) = {i \in DOMAIN ac[a] : observe(p, mc[k].dst, ac[a][i].edge)}
  <2>1. \A a \in 1 .. n : /\ options(k)[a] = OptionsInto(p, mc[k].dst, ac[a])
                          /\ options(k)[a] \in Seq(Range(options(k)[a]))
                          /\ Range(options(k)[a]) = {i \in DOMAIN ac[a] : observe(p, mc[k].dst, ac[a][i].edge)}
    BY <1>1, <1>2, OptionsElements
  <2>2. DOMAIN options(k) = 1 .. n
    BY <1>1
  <2>. HIDE DEF options
  <2>. QED
    BY <2>1, <2>2 DEF IsOptions
<1>11. ASSUME NEW k \in DOMAIN mc, Open(k)
       PROVE  /\ \A a \in 1 .. n : options(k)[a] # <<>>
              /\ part(k) \in Seq(Range(part(k)))
              /\ \A c \in Range(part(k)) : DOMAIN c.automata = 1 .. n /\ Leads(p, u, c.model, c.automata)
              /\ \A f : Leads(p, u, mc[k], f) =>
                    \E c \in Range(part(k)) : c.model = mc[k] /\ \A a \in 1 .. n : c.automata[a] = f[a]
  <2>. DEFINE opt == options(k)
  <2>1. /\ IsOptions(n, opt)
        /\ \A a \in 1 .. n : opt[a] # <<>>
        /\ \A a \in 1 .. n : Range(opt[a]) = {i \in DOMAIN ac[a] : observe(p, mc[k].dst, ac[a][i].edge)}
    <3>1. DOMAIN opt = 1 .. n /\ <<>> \notin Range(opt)
      BY <1>1, <1>11
    <3>2. IsOptions(n, opt) /\ \A a \in 1 .. n : Range(opt[a]) = {i \in DOMAIN ac[a] : observe(p, mc[k].dst, ac[a][i].edge)}
      BY <1>10
    <3>. HIDE DEF opt
    <3>3. \A a \in 1 .. n : opt[a] # <<>>
      BY <3>1 DEF Range
    <3>. QED
      BY <3>2, <3>3
  <2>. HIDE DEF opt
  <2>. DEFINE combined == Combine(mc[k], Picks(opt), ac)
  <2>2. /\ combined \in Seq(Range(combined))
        /\ \A c \in Range(combined) :
              /\ c.model = mc[k] /\ DOMAIN c.automata = 1 .. n
              /\ \A a \in 1 .. n : \E i \in Range(opt[a]) : c.automata[a] = ac[a][i]
        /\ \A f : (\A a \in 1 .. n : f[a] \in Range(opt[a])) =>
              \E c \in Range(combined) : c.model = mc[k] /\ \A a \in 1 .. n : c.automata[a] = ac[a][f[a]]
    <3>1. CombinesAll(n, opt, mc[k], ac)
      BY <1>1, <1>2, <2>1, Combined
    <3>. QED
      BY <3>1 DEF CombinesAll
  <2>3. combined = part(k)
    BY DEF opt
  <2>. HIDE DEF combined, part
  <2>4. ASSUME NEW c \in Range(combined) PROVE Leads(p, u, c.model, c.automata)
    <3>1. c.model = mc[k] /\ mc[k] \in Range(mc)
      BY <2>2 DEF Range
    <3>2. ASSUME NEW a \in 1 .. n
          PROVE  c.automata[a] \in Range(ac[a]) /\ observe(p, mc[k].dst, c.automata[a].edge)
      <4>1. PICK i \in Range(opt[a]) : c.automata[a] = ac[a][i]
        BY <2>2
      <4>2. i \in DOMAIN ac[a] /\ observe(p, mc[k].dst, ac[a][i].edge)
        BY <2>1, <4>1
      <4>. QED
        BY <4>1, <4>2 DEF Range
    <3>3. Range(mc) = Range(outgoing(p.model, u[1])) /\ \A a \in 1 .. n : Range(ac[a]) = Range(outgoing(p.automata[a], u[a + 1]))
      BY <1>2 DEF mc
    <3>. QED
      BY <1>1, <3>1, <3>2, <3>3 DEF Leads
  <2>5. ASSUME NEW f, Leads(p, u, mc[k], f)
        PROVE  \E c \in Range(combined) : c.model = mc[k] /\ \A a \in 1 .. n : c.automata[a] = f[a]
    <3>. DEFINE at == [a \in 1 .. n |-> CHOOSE i \in DOMAIN ac[a] : ac[a][i] = f[a]]
    <3>1. \A a \in 1 .. n : f[a] \in Range(ac[a]) /\ observe(p, mc[k].dst, f[a].edge)
      BY <1>1, <1>2, <2>5 DEF Leads
    <3>2. \A a \in 1 .. n : at[a] \in DOMAIN ac[a] /\ ac[a][at[a]] = f[a]
      <4>1. \A a \in 1 .. n : \E i \in DOMAIN ac[a] : ac[a][i] = f[a]
        BY <3>1 DEF Range
      <4>. QED
        BY <4>1
    <3>. HIDE DEF at
    <3>3. \A a \in 1 .. n : at[a] \in Range(opt[a])
      BY <2>1, <3>1, <3>2
    <3>4. PICK c \in Range(combined) : c.model = mc[k] /\ \A a \in 1 .. n : c.automata[a] = ac[a][at[a]]
      BY <2>2, <3>3
    <3>. QED
      BY <3>2, <3>4
  <2>. QED
    BY <2>1, <2>2, <2>3, <2>4, <2>5 DEF opt
<1>. HIDE DEF perm, options, part, Open, perms
<1>12. \A i \in DOMAIN array : \E k \in DOMAIN mc : array[i] = perm(k) /\ Open(k) /\ parts[i] = part(k)
  BY <1>8, <1>9 DEF part
<1>13. \A k \in DOMAIN mc : Open(k) => \E i \in DOMAIN array : parts[i] = part(k)
  BY <1>8, <1>9 DEF part
<1>14. \E l \in Nat : DOMAIN array = 1 .. l
  BY <1>5
<1>15. parts = [i \in DOMAIN array |-> parts[i]]
  BY Zenon
<1>. HIDE DEF parts
<1>16. PICK l \in Nat : DOMAIN array = 1 .. l
  BY <1>14
<1>. DEFINE S == UNION {Range(parts[i]) : i \in 1 .. l}
<1>17. FlattenSeq(parts) \in Seq(S) /\ Range(FlattenSeq(parts)) = S
  <2>1. \A i \in 1 .. l : parts[i] \in Seq(Range(parts[i]))
    BY <1>11, <1>12, <1>16
  <2>2. parts = [i \in 1 .. l |-> parts[i]]
    BY <1>15, <1>16
  <2>. HIDE DEF S
  <2>3. LET all == UNION {Range(parts[i]) : i \in 1 .. l}
        IN  FlattenSeq(parts) \in Seq(all) /\ Range(FlattenSeq(parts)) = all
    BY <1>16, <2>1, <2>2, Flattened
  <2>. QED
    BY <2>3 DEF S
<1>18. ASSUME NEW c \in S PROVE DOMAIN c.automata = DOMAIN p.automata /\ Leads(p, u, c.model, c.automata)
  <2>1. PICK i \in 1 .. l : c \in Range(parts[i])
    OBVIOUS
  <2>2. PICK k \in DOMAIN mc : Open(k) /\ parts[i] = part(k)
    BY <1>12, <1>16
  <2>. QED
    BY <1>1, <1>11, <2>1, <2>2
<1>19. ASSUME NEW m, NEW f, Leads(p, u, m, f)
       PROVE  \E c \in S : c.model = m /\ \A a \in DOMAIN p.automata : c.automata[a] = f[a]
  <2>1. PICK k \in DOMAIN mc : mc[k] = m
    BY <1>19 DEF Leads, Range, mc
  <2>2. Open(k)
    <3>1. ASSUME NEW a \in 1 .. n PROVE options(k)[a] # <<>>
      <4>1. f[a] \in Range(ac[a]) /\ observe(p, mc[k].dst, f[a].edge)
        BY <1>1, <1>2, <1>19, <2>1 DEF Leads
      <4>2. PICK i \in DOMAIN ac[a] : ac[a][i] = f[a]
        BY <4>1 DEF Range
      <4>3. i \in Range(options(k)[a])
        BY <1>10, <4>1, <4>2
      <4>. QED
        BY <4>3 DEF Range
    <3>2. DOMAIN options(k) = 1 .. n
      BY <1>10 DEF IsOptions
    <3>3. <<>> \notin Range(options(k))
      BY <3>1, <3>2 DEF Range
    <3>. QED
      BY <3>3 DEF Open
  <2>3. PICK c \in Range(part(k)) : c.model = mc[k] /\ \A a \in 1 .. n : c.automata[a] = f[a]
    BY <1>11, <1>19, <2>1, <2>2
  <2>4. PICK i \in 1 .. l : parts[i] = part(k)
    BY <1>13, <1>16, <2>2
  <2>5. c \in S
    BY <2>3, <2>4
  <2>. HIDE DEF S
  <2>. QED
    BY <1>1, <2>1, <2>3, <2>5
<1>. HIDE DEF S
<1>20. Range(Outward(p, node, array)) = S /\ Outward(p, node, array) \in Seq(S)
  BY <1>4, <1>17
<1>21. Range(Outward(p, node, post(p, node))) = S /\ Outward(p, node, post(p, node)) \in Seq(S)
  BY <1>20 DEF array
<1>. QED
  BY <1>18, <1>19, <1>21 DEF u

\* What parents() and incomingEdges() list.
LEMMA InwardElements ==
    ASSUME NEW p, IsProduct(p), NEW node
    PROVE  LET u == unwrap(p, node)
               listed == Range(Inward(p, node, pre(p, node)))
           IN  /\ \A c \in listed : DOMAIN c.automata = DOMAIN p.automata /\ Arrives(p, u, c.model, c.automata)
               /\ \A m, f : Arrives(p, u, m, f) =>
                     \E c \in listed : c.model = m /\ \A a \in DOMAIN p.automata : c.automata[a] = f[a]
               /\ Inward(p, node, pre(p, node)) \in Seq(listed)
<1>. DEFINE n == Len(p.automata)
            u == unwrap(p, node)
            mp == incoming(p.model, u[1])
            ap == [a \in DOMAIN p.automata |-> incoming(p.automata[a], u[a + 1])]
            opt == [a \in DOMAIN p.automata |-> OptionsInto(p, u[1], ap[a])]
            one == [ts_ind_option |-> Uninitialized, automaton_set_ind_options |-> opt]
            array == pre(p, node)
            parts == [k \in DOMAIN mp |-> Combine(mp[k], Picks(opt), ap)]
<1>1. n \in Nat /\ DOMAIN p.automata = 1 .. n
  BY DEF IsProduct
<1>2. /\ mp \in Seq(Range(p.model.connections))
      /\ DOMAIN ap = 1 .. n
      /\ \A a \in 1 .. n : ap[a] = incoming(p.automata[a], u[a + 1]) /\ ap[a] \in Seq(Range(p.automata[a].connections))
  BY <1>1, ProductGraphs, Connections
<1>3. array = IF <<>> \in Range(opt) THEN <<>> ELSE <<one>>
  <2>1. opt = [a \in DOMAIN p.automata |-> OptionsInto(p, u[1], incoming(p.automata[a], u[a + 1]))]
    OBVIOUS
  <2>. QED
    BY <2>1, Zenon DEF pre
<1>4. <<>> \notin Range(opt) => Inward(p, node, array) = FlattenSeq(parts)
  <2>. SUFFICES ASSUME <<>> \notin Range(opt) PROVE Inward(p, node, array) = FlattenSeq(parts)
    OBVIOUS
  <2>1. array = <<one>>
    BY <1>3, Zenon
  <2>2. <<one>> # <<>> /\ <<one>>[1] = one
    <3>. HIDE DEF one
    <3>. QED
      OBVIOUS
  <2>3. one.automaton_set_ind_options = opt
    <3>. HIDE DEF opt
    <3>. QED
      OBVIOUS
  <2>4. array # <<>> /\ array[1].automaton_set_ind_options = opt
    BY <2>1, <2>2, <2>3, Zenon
  <2>5. Inward(p, node, array) = FlattenSeq([k \in DOMAIN mp |-> Combine(mp[k], Picks(array[1].automaton_set_ind_options), ap)])
    <3>. HIDE DEF array
    <3>. QED
      BY <2>4, Zenon DEF Inward
  <2>. QED
    BY <2>4, <2>5, Zenon
<1>5. <<>> \in Range(opt) => Inward(p, node, array) = <<>>
  BY <1>3, Zenon DEF Inward
<1>. HIDE DEF n, u, mp, ap
<1>6. /\ IsOptions(n, opt)
      /\ \A a \in 1 .. n : Range(opt[a]) = {i \in DOMAIN ap[a] : observe(p, u[1], ap[a][i].edge)}
  <2>1. \A a \in 1 .. n : /\ opt[a] = OptionsInto(p, u[1], ap[a])
                          /\ opt[a] \in Seq(Range(opt[a]))
                          /\ Range(opt[a]) = {i \in DOMAIN ap[a] : observe(p, u[1], ap[a][i].edge)}
    BY <1>1, <1>2, OptionsElements
  <2>2. DOMAIN opt = 1 .. n
    BY <1>1
  <2>. HIDE DEF opt
  <2>. QED
    BY <2>1, <2>2 DEF IsOptions
<1>. HIDE DEF opt
<1>7. ASSUME <<>> \notin Range(opt), NEW k \in DOMAIN mp
      PROVE  /\ parts[k] \in Seq(Range(parts[k]))
             /\ \A c \in Range(parts[k]) : DOMAIN c.automata = 1 .. n /\ Arrives(p, u, c.model, c.automata)
             /\ \A f : Arrives(p, u, mp[k], f) =>
                   \E c \in Range(parts[k]) : c.model = mp[k] /\ \A a \in 1 .. n : c.automata[a] = f[a]
  <2>. DEFINE combined == Combine(mp[k], Picks(opt), ap)
  <2>1. \A a \in 1 .. n : opt[a] # <<>>
    BY <1>6, <1>7 DEF IsOptions, Range
  <2>2. /\ combined \in Seq(Range(combined))
        /\ \A c \in Range(combined) :
              /\ c.model = mp[k] /\ DOMAIN c.automata = 1 .. n
              /\ \A a \in 1 .. n : \E i \in Range(opt[a]) : c.automata[a] = ap[a][i]
        /\ \A f : (\A a \in 1 .. n : f[a] \in Range(opt[a])) =>
              \E c \in Range(combined) : c.model = mp[k] /\ \A a \in 1 .. n : c.automata[a] = ap[a][f[a]]
    <3>1. CombinesAll(n, opt, mp[k], ap)
      BY <1>1, <1>2, <1>6, <2>1, Combined
    <3>. QED
      BY <3>1 DEF CombinesAll
  <2>3. combined = parts[k]
    BY <1>7
  <2>. HIDE DEF combined, parts
  <2>4. ASSUME NEW c \in Range(combined) PROVE Arrives(p, u, c.model, c.automata)
    <3>1. c.model = mp[k] /\ mp[k] \in Range(mp)
      BY <2>2 DEF Range
    <3>2. ASSUME NEW a \in 1 .. n
          PROVE  c.automata[a] \in Range(ap[a]) /\ observe(p, u[1], c.automata[a].edge)
      <4>1. PICK i \in Range(opt[a]) : c.automata[a] = ap[a][i]
        BY <2>2
      <4>2. i \in DOMAIN ap[a] /\ observe(p, u[1], ap[a][i].edge)
        BY <1>6, <4>1
      <4>. QED
        BY <4>1, <4>2 DEF Range
    <3>3. Range(mp) = Range(incoming(p.model, u[1])) /\ \A a \in 1 .. n : Range(ap[a]) = Range(incoming(p.automata[a], u[a + 1]))
      BY <1>2 DEF mp
    <3>. QED
      BY <1>1, <3>1, <3>2, <3>3 DEF Arrives
  <2>5. ASSUME NEW f, Arrives(p, u, mp[k], f)
        PROVE  \E c \in Range(combined) : c.model = mp[k] /\ \A a \in 1 .. n : c.automata[a] = f[a]
    <3>. DEFINE at == [a \in 1 .. n |-> CHOOSE i \in DOMAIN ap[a] : ap[a][i] = f[a]]
    <3>1. \A a \in 1 .. n : f[a] \in Range(ap[a]) /\ observe(p, u[1], f[a].edge)
      BY <1>1, <1>2, <2>5 DEF Arrives
    <3>2. \A a \in 1 .. n : at[a] \in DOMAIN ap[a] /\ ap[a][at[a]] = f[a]
      <4>1. \A a \in 1 .. n : \E i \in DOMAIN ap[a] : ap[a][i] = f[a]
        BY <3>1 DEF Range
      <4>. QED
        BY <4>1
    <3>. HIDE DEF at
    <3>3. \A a \in 1 .. n : at[a] \in Range(opt[a])
      BY <1>6, <3>1, <3>2
    <3>4. PICK c \in Range(combined) : c.model = mp[k] /\ \A a \in 1 .. n : c.automata[a] = ap[a][at[a]]
      BY <2>2, <3>3
    <3>. QED
      BY <3>2, <3>4
  <2>. QED
    BY <2>2, <2>3, <2>4, <2>5
<1>8. \E l \in Nat : DOMAIN mp = 1 .. l
  BY <1>2
<1>9. parts = [i \in DOMAIN mp |-> parts[i]]
  BY Zenon
<1>. HIDE DEF parts
<1>10. CASE <<>> \notin Range(opt)
  <2>1. PICK l \in Nat : DOMAIN mp = 1 .. l
    BY <1>8
  <2>. DEFINE S == UNION {Range(parts[i]) : i \in 1 .. l}
  <2>2. FlattenSeq(parts) \in Seq(S) /\ Range(FlattenSeq(parts)) = S
    <3>1. \A i \in 1 .. l : parts[i] \in Seq(Range(parts[i]))
      BY <1>7, <1>10, <2>1
    <3>2. parts = [i \in 1 .. l |-> parts[i]]
      BY <1>9, <2>1
    <3>. HIDE DEF S
    <3>3. LET all == UNION {Range(parts[i]) : i \in 1 .. l}
          IN  FlattenSeq(parts) \in Seq(all) /\ Range(FlattenSeq(parts)) = all
      BY <2>1, <3>1, <3>2, Flattened
    <3>. QED
      BY <3>3 DEF S
  <2>3. ASSUME NEW c \in S PROVE DOMAIN c.automata = DOMAIN p.automata /\ Arrives(p, u, c.model, c.automata)
    <3>1. PICK i \in 1 .. l : c \in Range(parts[i])
      OBVIOUS
    <3>. QED
      BY <1>1, <1>7, <1>10, <2>1, <3>1
  <2>4. ASSUME NEW m, NEW f, Arrives(p, u, m, f)
        PROVE  \E c \in S : c.model = m /\ \A a \in DOMAIN p.automata : c.automata[a] = f[a]
    <3>1. PICK k \in 1 .. l : mp[k] = m
      BY <2>1, <2>4 DEF Arrives, Range, mp
    <3>2. PICK c \in Range(parts[k]) : c.model = mp[k] /\ \A a \in 1 .. n : c.automata[a] = f[a]
      BY <1>7, <1>10, <2>1, <2>4, <3>1
    <3>3. c \in S
      BY <3>2
    <3>. HIDE DEF S
    <3>. QED
      BY <1>1, <3>1, <3>2, <3>3
  <2>. HIDE DEF S
  <2>5. Range(Inward(p, node, array)) = S /\ Inward(p, node, array) \in Seq(S)
    BY <1>4, <1>10, <2>2
  <2>6. Range(Inward(p, node, pre(p, node))) = S /\ Inward(p, node, pre(p, node)) \in Seq(S)
    BY <2>5 DEF array
  <2>. QED
    BY <2>3, <2>4, <2>6 DEF u
<1>11. CASE <<>> \in Range(opt)
  <2>1. Inward(p, node, pre(p, node)) = <<>>
    BY <1>5, <1>11 DEF array
  <2>2. Range(<<>>) = {} /\ <<>> \in Seq({})
    BY DEF Range
  <2>3. ASSUME NEW m, NEW f, Arrives(p, u, m, f) PROVE FALSE
    <3>1. PICK a \in 1 .. n : opt[a] = <<>>
      BY <1>6, <1>11 DEF Range, IsOptions
    <3>2. f[a] \in Range(ap[a]) /\ observe(p, u[1], f[a].edge)
      BY <1>1, <1>2, <2>3, <3>1 DEF Arrives
    <3>3. PICK i \in DOMAIN ap[a] : ap[a][i] = f[a]
      BY <3>2 DEF Range
    <3>4. i \in Range(opt[a])
      BY <1>6, <3>1, <3>2, <3>3
    <3>. QED
      BY <3>1, <3>4 DEF Range
  <2>. QED
    BY <2>1, <2>2, <2>3 DEF u
<1>. QED
  BY <1>10, <1>11

-----------------------------------------------------------------------------
(***************************************************************************)
(* Projections.                                                            *)
(***************************************************************************)

\* A node put together from a part of the model and one of every automaton.
HasParts(p, node, sp, f) ==
    /\ node \in WideNode(p) /\ unwrap(p, node)[1] = sp
    /\ \A a \in DOMAIN p.automata : unwrap(p, node)[a + 1] = f[a]

\* Whichever nodes of the graphs they are.
LEMMA PutTogether ==
    ASSUME NEW p, IsProduct(p), NEW sp \in Node(p.model),
           NEW f, f = [a \in DOMAIN p.automata |-> f[a]],
           \A a \in DOMAIN p.automata : f[a] \in Node(p.automata[a])
    PROVE  HasParts(p, wrap(p, <<sp>> \o f), sp, f)
<1>. DEFINE n == Len(p.automata)
            inds == <<sp>> \o f
<1>1. n \in Nat /\ DOMAIN p.automata = 1 .. n
  BY DEF IsProduct
<1>2. 1 \in DOMAIN graphs(p) /\ \A a \in 1 .. n : a + 1 \in DOMAIN graphs(p)
  BY <1>1, GraphsFacts
<1>. HIDE DEF n
<1>3. inds[1] = sp /\ \A a \in 1 .. n : inds[a + 1] = f[a]
  BY <1>1, Prepended
<1>. HIDE DEF inds
<1>4. IsIndices(p, inds)
  BY <1>1, <1>3, IndicesFromParts
<1>5. wrap(p, inds) \in WideNode(p) /\ \A k \in DOMAIN graphs(p) : unwrap(p, wrap(p, inds))[k] = inds[k]
  BY <1>4, Wrapped
<1>6. unwrap(p, wrap(p, inds))[1] = sp /\ \A a \in 1 .. n : unwrap(p, wrap(p, inds))[a + 1] = f[a]
  BY <1>2, <1>3, <1>5
<1>. QED
  BY <1>1, <1>5, <1>6 DEF inds, HasParts

\* A choice of some of a product's automata.
IsOnto(p, onto) == \E k \in Nat \ {0} : onto \in [1 .. k -> DOMAIN p.automata]

\* What a product is projected onto is a product.
LEMMA ProjectedProduct ==
    ASSUME NEW p, IsProduct(p), NEW onto, IsOnto(p, onto)
    PROVE  /\ IsProduct(Onto(p, onto))
           /\ Onto(p, onto).model = p.model
           /\ Onto(p, onto).observe = p.observe
           /\ DOMAIN Onto(p, onto).automata = DOMAIN onto
           /\ \A b \in DOMAIN onto : onto[b] \in DOMAIN p.automata /\ Onto(p, onto).automata[b] = p.automata[onto[b]]
<1>. DEFINE q == Onto(p, onto)
<1>1. PICK k \in Nat \ {0} : onto \in [1 .. k -> DOMAIN p.automata]
  BY DEF IsOnto
<1>2. {"model", "automata", "observe"} \subseteq DOMAIN p
  BY DEF IsProduct
<1>3. q.model = p.model /\ q.observe = p.observe /\ DOMAIN q = DOMAIN p
      /\ q.automata = [b \in DOMAIN onto |-> p.automata[onto[b]]]
  BY <1>2 DEF Onto
<1>. HIDE DEF q
<1>4. DOMAIN onto = 1 .. k /\ DOMAIN q.automata = 1 .. k
      /\ \A b \in 1 .. k : onto[b] \in DOMAIN p.automata /\ q.automata[b] = p.automata[onto[b]]
  BY <1>1, <1>3
<1>5. q.automata \in Seq(Range(q.automata)) /\ Len(q.automata) = k /\ q.automata # <<>>
  <2>1. q.automata \in [1 .. k -> Range(q.automata)]
    BY <1>3, <1>4 DEF Range
  <2>2. q.automata \in Seq(Range(q.automata))
    BY <1>1, <2>1
  <2>3. Len(q.automata) = k
    BY <1>1, <1>4, <2>2
  <2>. QED
    BY <1>1, <2>2, <2>3
<1>6. /\ DOMAIN graphs(q) = 1 .. k + 1
      /\ graphs(q)[1] = p.model
      /\ \A b \in 1 .. k : graphs(q)[b + 1] = p.automata[onto[b]]
  <2>. DEFINE S == Range(q.automata) \cup {q.model}
  <2>1. q.automata \in Seq(S) /\ <<q.model>> \in Seq(S)
    BY <1>5
  <2>. HIDE DEF S
  <2>2. q.automata = [b \in 1 .. k |-> q.automata[b]] /\ k \in Nat
    BY <1>1, <1>4, <1>5
  <2>3. DOMAIN graphs(q) = 1 .. k + 1 /\ graphs(q)[1] = q.model /\ \A b \in 1 .. k : graphs(q)[b + 1] = q.automata[b]
    BY <2>2, Prepended DEF graphs
  <2>. QED
    BY <1>3, <1>4, <2>3
<1>7. ASSUME NEW j \in DOMAIN graphs(q) PROVE \E i \in DOMAIN graphs(p) : graphs(q)[j] = graphs(p)[i]
  <2>1. 1 \in DOMAIN graphs(p) /\ graphs(p)[1] = p.model
        /\ \A a \in DOMAIN p.automata : a + 1 \in DOMAIN graphs(p) /\ graphs(p)[a + 1] = p.automata[a]
    <3>. DEFINE n == Len(p.automata)
    <3>1. /\ n \in Nat /\ DOMAIN p.automata = 1 .. n /\ DOMAIN graphs(p) = 1 .. n + 1
          /\ graphs(p)[1] = p.model
          /\ \A a \in 1 .. n : graphs(p)[a + 1] = p.automata[a]
      <4>1. (n + 1) - 1 = n
        BY DEF IsProduct
      <4>. QED
        BY <4>1, GraphsFacts
    <3>. HIDE DEF n
    <3>. QED
      BY <3>1
  <2>2. CASE j = 1
    BY <1>6, <2>1, <2>2
  <2>3. CASE j # 1
    <3>. DEFINE b == j - 1
    <3>1. b \in 1 .. k /\ j = b + 1
      BY <1>1, <1>6, <2>3
    <3>. HIDE DEF b
    <3>. QED
      BY <1>4, <1>6, <2>1, <3>1
  <2>. QED
    BY <2>2, <2>3
<1>8. \A j \in DOMAIN graphs(q) :
         LET g == graphs(q)[j]
         IN  /\ g.size \in Nat \ {0}
             /\ g.connections \in Seq(Range(g.connections))
             /\ \A i \in DOMAIN g.connections : {g.connections[i].src, g.connections[i].dst} \subseteq Node(g)
  BY <1>7 DEF IsProduct
<1>9. Times(m_graph_sizes(q)) \in Nat \ {0}
  <2>. DEFINE sizes == m_graph_sizes(q)
              n == k + 1
  <2>1. n \in Nat /\ sizes \in [1 .. n -> Nat \ {0}]
    BY <1>1, <1>6, <1>8 DEF m_graph_sizes
  <2>. HIDE DEF sizes, n
  <2>2. n \in 0 .. n /\ sizes \in [1 .. n -> Nat]
    BY <2>1
  <2>3. Times(sizes) = temp(sizes, n + 1) /\ temp(sizes, n + 1) \in Nat /\ temp(sizes, n + 1) > 0
    BY <2>1, <2>2, Weights, PositiveWeights
  <2>. QED
    BY <2>3 DEF sizes
<1>10. \A b \in DOMAIN q.automata :
          /\ q.automata[b].init # <<>> /\ q.automata[b].init \in Seq(Range(q.automata[b].init))
          /\ Range(q.automata[b].init) \subseteq Node(q.automata[b])
          /\ q.automata[b].accepting # {} /\ q.automata[b].accepting \subseteq Node(q.automata[b])
  BY <1>4 DEF IsProduct
<1>11. IsProduct(q)
  <2>1. {"model", "automata", "observe"} \subseteq DOMAIN q
    BY <1>2, <1>3
  <2>. QED
    BY <1>5, <1>8, <1>9, <1>10, <2>1, Zenon DEF IsProduct
<1>. QED
  BY <1>3, <1>4, <1>11 DEF q

\* The parts of a projected node.
LEMMA Projected ==
    ASSUME NEW p, IsProduct(p), NEW onto, IsOnto(p, onto), NEW node \in WideNode(p)
    PROVE  LET there == unwrap(Onto(p, onto), project(p, onto, node))
           IN  /\ project(p, onto, node) \in WideNode(Onto(p, onto))
               /\ there[1] = unwrap(p, node)[1]
               /\ \A b \in DOMAIN onto : there[b + 1] = unwrap(p, node)[onto[b] + 1]
<1>. DEFINE q == Onto(p, onto)
            u == unwrap(p, node)
            f == [b \in DOMAIN onto |-> u[onto[b] + 1]]
<1>1. /\ IsProduct(q) /\ q.model = p.model /\ DOMAIN q.automata = DOMAIN onto
      /\ \A b \in DOMAIN onto : onto[b] \in DOMAIN p.automata /\ q.automata[b] = p.automata[onto[b]]
  BY ProjectedProduct
<1>2. u[1] \in Node(p.model) /\ \A a \in DOMAIN p.automata : u[a + 1] \in Node(p.automata[a])
  BY Parts
<1>3. project(p, onto, node) = wrap(q, <<u[1]>> \o f)
  BY DEF project
<1>. HIDE DEF q, u
<1>4. f = [b \in DOMAIN q.automata |-> f[b]] /\ \A b \in DOMAIN q.automata : f[b] \in Node(q.automata[b])
  BY <1>1, <1>2
<1>5. \A b \in DOMAIN onto : f[b] = u[onto[b] + 1]
  OBVIOUS
<1>. HIDE DEF f
<1>6. /\ wrap(q, <<u[1]>> \o f) \in WideNode(q)
      /\ unwrap(q, wrap(q, <<u[1]>> \o f))[1] = u[1]
      /\ \A b \in DOMAIN q.automata : unwrap(q, wrap(q, <<u[1]>> \o f))[b + 1] = f[b]
  BY <1>1, <1>2, <1>4, PutTogether DEF HasParts
<1>. QED
  BY <1>1, <1>3, <1>5, <1>6 DEF q, u

\* Nodes with the same parts have the same number.
LEMMA SameNode ==
    ASSUME NEW p, IsProduct(p), NEW m \in WideNode(p), NEW n \in WideNode(p),
           unwrap(p, m)[1] = unwrap(p, n)[1],
           \A a \in DOMAIN p.automata : unwrap(p, m)[a + 1] = unwrap(p, n)[a + 1]
    PROVE  m = n
<1>1. wrap(p, unwrap(p, m)) = m /\ wrap(p, unwrap(p, n)) = n
  BY Unwrapped
<1>2. wrap(p, unwrap(p, m)) = wrap(p, unwrap(p, n))
  BY SameParts
<1>. QED
  BY <1>1, <1>2

\* The parts of the ends of a product connection.
LEMMA Ends ==
    ASSUME NEW p, IsProduct(p), NEW c, DOMAIN c.automata = DOMAIN p.automata,
           c.model \in Range(p.model.connections),
           \A a \in DOMAIN p.automata : c.automata[a] \in Range(p.automata[a].connections)
    PROVE  /\ Destination(p, c) \in WideNode(p)
           /\ unwrap(p, Destination(p, c))[1] = c.model.dst
           /\ \A a \in DOMAIN p.automata : unwrap(p, Destination(p, c))[a + 1] = c.automata[a].dst
           /\ Source(p, c) \in WideNode(p)
           /\ unwrap(p, Source(p, c))[1] = c.model.src
           /\ \A a \in DOMAIN p.automata : unwrap(p, Source(p, c))[a + 1] = c.automata[a].src
<1>. DEFINE dst == [a \in DOMAIN c.automata |-> c.automata[a].dst]
            src == [a \in DOMAIN c.automata |-> c.automata[a].src]
<1>1. /\ c.model.src \in Node(p.model) /\ c.model.dst \in Node(p.model)
      /\ \A a \in DOMAIN p.automata : c.automata[a].src \in Node(p.automata[a]) /\ c.automata[a].dst \in Node(p.automata[a])
  BY ProductGraphs
<1>2. /\ dst = [a \in DOMAIN p.automata |-> dst[a]] /\ src = [a \in DOMAIN p.automata |-> src[a]]
      /\ \A a \in DOMAIN p.automata : dst[a] = c.automata[a].dst /\ src[a] = c.automata[a].src
  OBVIOUS
<1>3. Destination(p, c) = wrap(p, <<c.model.dst>> \o dst) /\ Source(p, c) = wrap(p, <<c.model.src>> \o src)
  BY DEF Destination, Source
<1>. HIDE DEF dst, src
<1>4. HasParts(p, Destination(p, c), c.model.dst, dst)
  <2>1. \A a \in DOMAIN p.automata : dst[a] \in Node(p.automata[a])
    BY <1>1, <1>2
  <2>2. HasParts(p, wrap(p, <<c.model.dst>> \o dst), c.model.dst, dst)
    BY <1>1, <1>2, <2>1, PutTogether
  <2>. QED
    BY <1>3, <2>2
<1>5. HasParts(p, Source(p, c), c.model.src, src)
  <2>1. \A a \in DOMAIN p.automata : src[a] \in Node(p.automata[a])
    BY <1>1, <1>2
  <2>2. HasParts(p, wrap(p, <<c.model.src>> \o src), c.model.src, src)
    BY <1>1, <1>2, <2>1, PutTogether
  <2>. QED
    BY <1>3, <2>2
<1>. QED
  BY <1>2, <1>4, <1>5 DEF HasParts

\* Two connections, of a product and of the one it is projected onto, made of
\* the same parts: their ends are projected onto each other.
LEMMA EndsFollow ==
    ASSUME NEW p, IsProduct(p), NEW onto, IsOnto(p, onto), NEW c, NEW d,
           DOMAIN c.automata = DOMAIN p.automata, DOMAIN d.automata = DOMAIN onto,
           c.model \in Range(p.model.connections),
           \A a \in DOMAIN p.automata : c.automata[a] \in Range(p.automata[a].connections),
           d.model = c.model, \A b \in DOMAIN onto : d.automata[b] = c.automata[onto[b]]
    PROVE  /\ project(p, onto, Destination(p, c)) = Destination(Onto(p, onto), d)
           /\ project(p, onto, Source(p, c)) = Source(Onto(p, onto), d)
<1>. DEFINE q == Onto(p, onto)
            D == Destination(p, c)
            S == Source(p, c)
<1>1. /\ IsProduct(q) /\ q.model = p.model /\ DOMAIN q.automata = DOMAIN onto
      /\ \A b \in DOMAIN onto : onto[b] \in DOMAIN p.automata /\ q.automata[b] = p.automata[onto[b]]
  BY ProjectedProduct
<1>2. /\ D \in WideNode(p) /\ unwrap(p, D)[1] = c.model.dst
      /\ \A a \in DOMAIN p.automata : unwrap(p, D)[a + 1] = c.automata[a].dst
      /\ S \in WideNode(p) /\ unwrap(p, S)[1] = c.model.src
      /\ \A a \in DOMAIN p.automata : unwrap(p, S)[a + 1] = c.automata[a].src
  BY Ends
<1>. HIDE DEF D, S, q
<1>3. /\ Destination(q, d) \in WideNode(q) /\ unwrap(q, Destination(q, d))[1] = d.model.dst
      /\ \A b \in DOMAIN q.automata : unwrap(q, Destination(q, d))[b + 1] = d.automata[b].dst
      /\ Source(q, d) \in WideNode(q) /\ unwrap(q, Source(q, d))[1] = d.model.src
      /\ \A b \in DOMAIN q.automata : unwrap(q, Source(q, d))[b + 1] = d.automata[b].src
  <2>1. d.model \in Range(q.model.connections) /\ \A b \in DOMAIN q.automata : d.automata[b] \in Range(q.automata[b].connections)
    BY <1>1
  <2>. QED
    BY <1>1, <2>1, Ends
<1>4. ASSUME NEW x \in WideNode(p)
      PROVE  /\ project(p, onto, x) \in WideNode(q)
             /\ unwrap(q, project(p, onto, x))[1] = unwrap(p, x)[1]
             /\ \A b \in DOMAIN onto : unwrap(q, project(p, onto, x))[b + 1] = unwrap(p, x)[onto[b] + 1]
  BY Projected DEF q
<1>5. project(p, onto, D) = Destination(q, d)
  <2>1. \A b \in DOMAIN q.automata : unwrap(q, project(p, onto, D))[b + 1] = unwrap(q, Destination(q, d))[b + 1]
    BY <1>1, <1>2, <1>3, <1>4
  <2>. QED
    BY <1>1, <1>2, <1>3, <1>4, <2>1, SameNode
<1>6. project(p, onto, S) = Source(q, d)
  <2>1. \A b \in DOMAIN q.automata : unwrap(q, project(p, onto, S))[b + 1] = unwrap(q, Source(q, d))[b + 1]
    BY <1>1, <1>2, <1>3, <1>4
  <2>. QED
    BY <1>1, <1>2, <1>3, <1>4, <2>1, SameNode
<1>. QED
  BY <1>5, <1>6 DEF D, S, q

\* A child's projection is a child of the projection.
LEMMA ChildrenFollow ==
    ASSUME NEW p, IsProduct(p), NEW onto, IsOnto(p, onto), NEW node \in WideNode(p),
           NEW k \in DOMAIN children(p, node, post(p, node))
    PROVE  LET q == Onto(p, onto)
               there == project(p, onto, node)
           IN  project(p, onto, children(p, node, post(p, node))[k]) \in Range(children(q, there, post(q, there)))
<1>. DEFINE q == Onto(p, onto)
            there == project(p, onto, node)
            u == unwrap(p, node)
            v == unwrap(q, there)
            listed == Outward(p, node, post(p, node))
            others == Outward(q, there, post(q, there))
            c == listed[k]
            f == [b \in DOMAIN onto |-> c.automata[onto[b]]]
<1>1. /\ IsProduct(q) /\ q.model = p.model /\ q.observe = p.observe /\ DOMAIN q.automata = DOMAIN onto
      /\ \A b \in DOMAIN onto : onto[b] \in DOMAIN p.automata /\ q.automata[b] = p.automata[onto[b]]
  BY ProjectedProduct
<1>2. v[1] = u[1] /\ \A b \in DOMAIN onto : v[b + 1] = u[onto[b] + 1]
  BY Projected
<1>3. k \in DOMAIN listed /\ children(p, node, post(p, node))[k] = Destination(p, c)
  BY DEF children, Mapped
<1>4. children(q, there, post(q, there)) = [j \in DOMAIN others |-> Destination(q, others[j])]
  BY DEF children, Mapped
<1>. HIDE DEF q, there, u, v
<1>5. DOMAIN c.automata = DOMAIN p.automata /\ Leads(p, u, c.model, c.automata)
  <2>1. c \in Range(listed)
    <3>. HIDE DEF listed
    <3>. QED
      BY <1>3 DEF Range
  <2>2. \A x \in Range(listed) : DOMAIN x.automata = DOMAIN p.automata /\ Leads(p, u, x.model, x.automata)
    BY OutwardElements DEF u
  <2>. HIDE DEF listed, c
  <2>. QED
    BY <2>1, <2>2
<1>. HIDE DEF listed, c
<1>6. \A b \in DOMAIN onto : f[b] = c.automata[onto[b]]
  OBVIOUS
<1>. HIDE DEF f
<1>7. Leads(q, v, c.model, f)
  BY <1>1, <1>2, <1>5, <1>6 DEF Leads, observe
<1>8. PICK d \in Range(others) : d.model = c.model /\ \A b \in DOMAIN q.automata : d.automata[b] = f[b]
  <2>1. \A m, g : Leads(q, v, m, g) =>
           \E x \in Range(others) : x.model = m /\ \A b \in DOMAIN q.automata : x.automata[b] = g[b]
    BY <1>1, OutwardElements DEF v
  <2>. HIDE DEF others
  <2>. QED
    BY <1>7, <2>1
<1>9. DOMAIN d.automata = DOMAIN onto
  BY <1>1, <1>8, OutwardElements
<1>10. c.model \in Range(p.model.connections) /\ \A a \in DOMAIN p.automata : c.automata[a] \in Range(p.automata[a].connections)
  <2>1. c.model \in Range(outgoing(p.model, u[1]))
        /\ \A a \in DOMAIN p.automata : c.automata[a] \in Range(outgoing(p.automata[a], u[a + 1]))
    BY <1>5 DEF Leads
  <2>2. Range(outgoing(p.model, u[1])) \subseteq Range(p.model.connections)
    BY ProductGraphs, Connections
  <2>3. \A a \in DOMAIN p.automata : Range(outgoing(p.automata[a], u[a + 1])) \subseteq Range(p.automata[a].connections)
    BY ProductGraphs, Connections
  <2>. QED
    BY <2>1, <2>2, <2>3
<1>. HIDE DEF others
<1>11. project(p, onto, Destination(p, c)) = Destination(q, d)
  BY <1>1, <1>5, <1>6, <1>8, <1>9, <1>10, EndsFollow DEF q
<1>12. Destination(q, d) \in Range(children(q, there, post(q, there)))
  BY <1>4, <1>8 DEF Range
<1>. QED
  BY <1>3, <1>11, <1>12 DEF q, there

\* And a parent's a parent.
LEMMA ParentsFollow ==
    ASSUME NEW p, IsProduct(p), NEW onto, IsOnto(p, onto), NEW node \in WideNode(p),
           NEW k \in DOMAIN parents(p, node, pre(p, node))
    PROVE  LET q == Onto(p, onto)
               there == project(p, onto, node)
           IN  project(p, onto, parents(p, node, pre(p, node))[k]) \in Range(parents(q, there, pre(q, there)))
<1>. DEFINE q == Onto(p, onto)
            there == project(p, onto, node)
            u == unwrap(p, node)
            v == unwrap(q, there)
            listed == Inward(p, node, pre(p, node))
            others == Inward(q, there, pre(q, there))
            c == listed[k]
            f == [b \in DOMAIN onto |-> c.automata[onto[b]]]
<1>1. /\ IsProduct(q) /\ q.model = p.model /\ q.observe = p.observe /\ DOMAIN q.automata = DOMAIN onto
      /\ \A b \in DOMAIN onto : onto[b] \in DOMAIN p.automata /\ q.automata[b] = p.automata[onto[b]]
  BY ProjectedProduct
<1>2. v[1] = u[1] /\ \A b \in DOMAIN onto : v[b + 1] = u[onto[b] + 1]
  BY Projected
<1>3. k \in DOMAIN listed /\ parents(p, node, pre(p, node))[k] = Source(p, c)
  BY DEF parents, Mapped
<1>4. parents(q, there, pre(q, there)) = [j \in DOMAIN others |-> Source(q, others[j])]
  BY DEF parents, Mapped
<1>. HIDE DEF q, there, u, v
<1>5. DOMAIN c.automata = DOMAIN p.automata /\ Arrives(p, u, c.model, c.automata)
  <2>1. c \in Range(listed)
    <3>. HIDE DEF listed
    <3>. QED
      BY <1>3 DEF Range
  <2>2. \A x \in Range(listed) : DOMAIN x.automata = DOMAIN p.automata /\ Arrives(p, u, x.model, x.automata)
    BY InwardElements DEF u
  <2>. HIDE DEF listed, c
  <2>. QED
    BY <2>1, <2>2
<1>. HIDE DEF listed, c
<1>6. \A b \in DOMAIN onto : f[b] = c.automata[onto[b]]
  OBVIOUS
<1>. HIDE DEF f
<1>7. Arrives(q, v, c.model, f)
  BY <1>1, <1>2, <1>5, <1>6 DEF Arrives, observe
<1>8. PICK d \in Range(others) : d.model = c.model /\ \A b \in DOMAIN q.automata : d.automata[b] = f[b]
  <2>1. \A m, g : Arrives(q, v, m, g) =>
           \E x \in Range(others) : x.model = m /\ \A b \in DOMAIN q.automata : x.automata[b] = g[b]
    BY <1>1, InwardElements DEF v
  <2>. HIDE DEF others
  <2>. QED
    BY <1>7, <2>1
<1>9. DOMAIN d.automata = DOMAIN onto
  BY <1>1, <1>8, InwardElements
<1>10. c.model \in Range(p.model.connections) /\ \A a \in DOMAIN p.automata : c.automata[a] \in Range(p.automata[a].connections)
  <2>1. c.model \in Range(incoming(p.model, u[1]))
        /\ \A a \in DOMAIN p.automata : c.automata[a] \in Range(incoming(p.automata[a], u[a + 1]))
    BY <1>5 DEF Arrives
  <2>2. Range(incoming(p.model, u[1])) \subseteq Range(p.model.connections)
    BY ProductGraphs, Connections
  <2>3. \A a \in DOMAIN p.automata : Range(incoming(p.automata[a], u[a + 1])) \subseteq Range(p.automata[a].connections)
    BY ProductGraphs, Connections
  <2>. QED
    BY <2>1, <2>2, <2>3
<1>. HIDE DEF others
<1>11. project(p, onto, Source(p, c)) = Source(q, d)
  BY <1>1, <1>5, <1>6, <1>8, <1>9, <1>10, EndsFollow DEF q
<1>12. Source(q, d) \in Range(parents(q, there, pre(q, there)))
  BY <1>4, <1>8 DEF Range
<1>. QED
  BY <1>3, <1>11, <1>12 DEF q, there

-----------------------------------------------------------------------------
(***************************************************************************)
(* Enumerations: a list has an entry for every member of a set, and says   *)
(* something of it.                                                        *)
(***************************************************************************)
NumbersAll(b, D, T) ==
    /\ b \in [D -> T]
    /\ \A j, k \in D : b[j] = b[k] => j = k
    /\ \A t \in T : \E k \in D : b[k] = t

Enumerates(s, T, g) == \E b : NumbersAll(b, DOMAIN s, T) /\ \A k \in DOMAIN s : s[k] = g[b[k]]

CountedOnce(s, T, g) ==
    /\ Len(s) = Cardinality(T)
    /\ \A c : Cardinality({k \in DOMAIN s : s[k] = c}) = Cardinality({t \in T : g[t] = c})

\* A list that is enumerated has one entry for each.
LEMMA EnumeratedOnce ==
    ASSUME NEW S, NEW s \in Seq(S), NEW T, NEW g, Enumerates(s, T, g)
    PROVE  CountedOnce(s, T, g)
<1>1. PICK b : NumbersAll(b, DOMAIN s, T) /\ \A k \in DOMAIN s : s[k] = g[b[k]]
  BY DEF Enumerates
<1>2. DOMAIN s = 1 .. Len(s) /\ Len(s) \in Nat
  OBVIOUS
<1>3. IsFiniteSet(DOMAIN s) /\ Cardinality(DOMAIN s) = Len(s)
  BY <1>2, FS_Interval
<1>4. ASSUME NEW D \in SUBSET DOMAIN s, NEW U \in SUBSET T,
             \A k \in D : b[k] \in U, \A t \in U : \E k \in D : b[k] = t
      PROVE  Cardinality(D) = Cardinality(U)
  <2>. DEFINE f == [k \in D |-> b[k]]
  <2>1. f \in Bijection(D, U)
    BY <1>1, <1>4 DEF NumbersAll, Bijection, Injection, Surjection, IsInjective
  <2>2. ExistsBijection(D, U)
    BY <2>1 DEF ExistsBijection
  <2>3. IsFiniteSet(D)
    BY <1>3, FS_Subset
  <2>. QED
    BY <2>2, <2>3, FS_Bijection
<1>5. Len(s) = Cardinality(T)
  BY <1>1, <1>3, <1>4 DEF NumbersAll
<1>6. ASSUME NEW c PROVE Cardinality({k \in DOMAIN s : s[k] = c}) = Cardinality({t \in T : g[t] = c})
  <2>. DEFINE D == {k \in DOMAIN s : s[k] = c}
              U == {t \in T : g[t] = c}
  <2>1. D \in SUBSET DOMAIN s /\ U \in SUBSET T
    OBVIOUS
  <2>2. \A k \in D : b[k] \in U
    BY <1>1 DEF NumbersAll
  <2>3. \A t \in U : \E k \in D : b[k] = t
    BY <1>1 DEF NumbersAll
  <2>. HIDE DEF D, U
  <2>4. Cardinality(D) = Cardinality(U)
    BY <1>4, <2>1, <2>2, <2>3
  <2>. QED
    BY <2>4 DEF D, U
<1>. QED
  BY <1>5, <1>6 DEF CountedOnce

\* What is picked from a list has an entry for every place something is picked
\* at.
LEMMA AmongEnumerates ==
    ASSUME NEW D, NEW v \in Seq(D), NEW S
    PROVE  Enumerates(Among(v, S), {j \in DOMAIN v : v[j] \in S}, v)
<1>. DEFINE n == Len(v)
<1>1. DOMAIN v = 1 .. n /\ n \in Nat
  OBVIOUS
<1>2. PICK t : /\ t[0] = <<>>
               /\ \A k \in 1 .. n : t[k] = IF v[k] \in S THEN Append(t[k - 1], v[k]) ELSE t[k - 1]
               /\ t[n] = Among(v, S)
  BY <1>1, PickedPrefixes
<1>. DEFINE P(k) == {j \in 1 .. k : v[j] \in S}
            Good(k) == t[k] \in Seq(D) /\ Enumerates(t[k], P(k), v)
            T == {k \in 0 .. n : Good(k)}
<1>3. Good(0)
  <2>1. DOMAIN <<>> = {} /\ <<>> \in Seq(D) /\ P(0) = {}
    OBVIOUS
  <2>2. NumbersAll(<<>>, {}, {})
    BY <2>1 DEF NumbersAll
  <2>3. Enumerates(<<>>, {}, v)
    BY <2>1, <2>2 DEF Enumerates
  <2>. QED
    BY <1>2, <2>1, <2>3
<1>4. ASSUME NEW k \in 1 .. n, Good(k - 1) PROVE Good(k)
  <2>1. v[k] \in D /\ k \in 1 .. k /\ k \notin 1 .. k - 1 /\ 1 .. k = (1 .. k - 1) \cup {k}
    BY <1>1
  <2>2. CASE v[k] \notin S
    <3>1. P(k) = P(k - 1) /\ t[k] = t[k - 1]
      BY <1>2, <2>1, <2>2
    <3>. HIDE DEF P
    <3>. QED
      BY <1>4, <3>1
  <2>3. CASE v[k] \in S
    <3>. DEFINE old == t[k - 1]
                new == t[k]
    <3>1. PICK b : NumbersAll(b, DOMAIN old, P(k - 1)) /\ \A i \in DOMAIN old : old[i] = v[b[i]]
      BY <1>4 DEF Enumerates
    <3>2. P(k) = P(k - 1) \cup {k} /\ k \notin P(k - 1)
      BY <2>1, <2>3
    <3>3. /\ new \in Seq(D) /\ DOMAIN new = DOMAIN old \cup {Len(old) + 1} /\ Len(old) + 1 \notin DOMAIN old
          /\ new[Len(old) + 1] = v[k] /\ \A i \in DOMAIN old : new[i] = old[i]
      <4>1. new = Append(old, v[k]) /\ old \in Seq(D)
        BY <1>2, <1>4, <2>3
      <4>. HIDE DEF new, old
      <4>. QED
        BY <2>1, <4>1
    <3>. DEFINE c == [i \in DOMAIN new |-> IF i = Len(old) + 1 THEN k ELSE b[i]]
    <3>. HIDE DEF P, new, old
    <3>4. c \in [DOMAIN new -> P(k)]
      BY <3>1, <3>2, <3>3 DEF NumbersAll
    <3>5. \A i, j \in DOMAIN new : c[i] = c[j] => i = j
      BY <3>1, <3>2, <3>3 DEF NumbersAll
    <3>6. \A x \in P(k) : \E i \in DOMAIN new : c[i] = x
      <4>1. c[Len(old) + 1] = k /\ Len(old) + 1 \in DOMAIN new
        BY <3>3
      <4>2. ASSUME NEW x \in P(k - 1) PROVE \E i \in DOMAIN new : c[i] = x
        <5>1. PICK i \in DOMAIN old : b[i] = x
          BY <3>1 DEF NumbersAll
        <5>2. i \in DOMAIN new /\ c[i] = b[i]
          BY <3>3, <5>1
        <5>. QED
          BY <5>1, <5>2
      <4>. HIDE DEF c
      <4>. QED
        BY <3>2, <4>1, <4>2
    <3>7. \A i \in DOMAIN new : new[i] = v[c[i]]
      BY <3>1, <3>3
    <3>. HIDE DEF c
    <3>8. NumbersAll(c, DOMAIN new, P(k))
      BY <3>4, <3>5, <3>6 DEF NumbersAll
    <3>9. Enumerates(new, P(k), v)
      BY <3>7, <3>8 DEF Enumerates
    <3>. QED
      BY <3>3, <3>9 DEF new
  <2>. QED
    BY <2>2, <2>3
<1>. HIDE DEF Good
<1>5. 0 .. n \subseteq T
  <2>1. 0 \in T
    BY <1>1, <1>3
  <2>2. \A k \in 1 .. n : k - 1 \in T => k \in T
    BY <1>1, <1>4
  <2>. HIDE DEF T, n
  <2>. QED
    BY <1>1, <2>1, <2>2, Upwards
<1>6. Good(n)
  BY <1>1, <1>5
<1>. QED
  BY <1>1, <1>2, <1>6 DEF Good

\* The options of an automaton, followed into the connections they are indices
\* of: the places of the connections at the node that the model observes.
LEMMA OptionsEnumerate ==
    ASSUME NEW p, NEW sp, NEW D, NEW v \in Seq(D), NEW S
    PROVE  LET cs == Among(v, S)
               options == OptionsInto(p, sp, cs)
           IN  Enumerates([y \in DOMAIN options |-> cs[options[y]]],
                          {j \in DOMAIN v : v[j] \in S /\ observe(p, sp, v[j].edge)}, v)
<1>. DEFINE cs == Among(v, S)
            options == OptionsInto(p, sp, cs)
            P == {j \in DOMAIN v : v[j] \in S}
            Q == {j \in DOMAIN v : v[j] \in S /\ observe(p, sp, v[j].edge)}
            all == [k \in DOMAIN cs |-> k]
            good == {k \in DOMAIN cs : observe(p, sp, cs[k].edge)}
<1>1. cs \in Seq(D)
  BY AmongElements
<1>2. PICK b : NumbersAll(b, DOMAIN cs, P) /\ \A k \in DOMAIN cs : cs[k] = v[b[k]]
  <2>1. Enumerates(cs, P, v)
    BY AmongEnumerates
  <2>. HIDE DEF cs, P
  <2>. QED
    BY <2>1 DEF Enumerates
<1>3. options = Among(all, good)
  BY DEF OptionsInto
<1>. HIDE DEF cs, options
<1>4. all \in Seq(DOMAIN cs) /\ DOMAIN all = DOMAIN cs /\ \A k \in DOMAIN cs : all[k] = k
  <2>1. DOMAIN cs = 1 .. Len(cs) /\ Len(cs) \in Nat
    BY <1>1
  <2>. QED
    BY <2>1
<1>. HIDE DEF all
<1>5. PICK d : NumbersAll(d, DOMAIN options, {j \in DOMAIN all : all[j] \in good}) /\ \A y \in DOMAIN options : options[y] = all[d[y]]
  <2>. DEFINE places == {j \in DOMAIN all : all[j] \in good}
  <2>1. Enumerates(Among(all, good), places, all)
    BY <1>4, AmongEnumerates
  <2>2. Enumerates(options, places, all)
    BY <1>3, <2>1
  <2>. HIDE DEF places, good
  <2>3. \E d : NumbersAll(d, DOMAIN options, places) /\ \A y \in DOMAIN options : options[y] = all[d[y]]
    BY <2>2 DEF Enumerates
  <2>. QED
    BY <2>3 DEF places
<1>6. NumbersAll(d, DOMAIN options, good) /\ \A y \in DOMAIN options : options[y] = d[y]
  <2>1. {j \in DOMAIN all : all[j] \in good} = good
    BY <1>4
  <2>2. NumbersAll(d, DOMAIN options, good)
    BY <1>5, <2>1
  <2>. QED
    BY <1>4, <1>5, <2>2 DEF NumbersAll
<1>. DEFINE e == [y \in DOMAIN options |-> b[d[y]]]
            list == [y \in DOMAIN options |-> cs[options[y]]]
<1>7. \A k \in DOMAIN cs : k \in good <=> b[k] \in Q
  BY <1>2 DEF NumbersAll
<1>8. NumbersAll(e, DOMAIN options, Q)
  <2>1. e \in [DOMAIN options -> Q]
    BY <1>6, <1>7 DEF NumbersAll
  <2>2. \A y, z \in DOMAIN options : e[y] = e[z] => y = z
    BY <1>2, <1>6 DEF NumbersAll
  <2>3. ASSUME NEW j \in Q PROVE \E y \in DOMAIN options : e[y] = j
    <3>1. PICK k \in DOMAIN cs : b[k] = j
      BY <1>2 DEF NumbersAll
    <3>2. k \in good
      BY <1>7, <3>1
    <3>. HIDE DEF good
    <3>3. PICK y \in DOMAIN options : d[y] = k
      BY <1>6, <3>2 DEF NumbersAll
    <3>. QED
      BY <3>1, <3>3
  <2>. HIDE DEF e, Q
  <2>. QED
    BY <2>1, <2>2, <2>3 DEF NumbersAll
<1>9. \A y \in DOMAIN list : list[y] = v[e[y]]
  BY <1>2, <1>6 DEF NumbersAll
<1>10. Enumerates(list, Q, v)
  <2>1. DOMAIN list = DOMAIN options
    OBVIOUS
  <2>. HIDE DEF list, e, Q
  <2>. QED
    BY <1>8, <1>9, <2>1 DEF Enumerates
<1>. QED
  BY <1>10 DEF cs, options

\* The places of one option each.
Places(n, options) == {f \in [1 .. n -> Nat] : \A k \in 1 .. n : f[k] \in DOMAIN options[k]}

PicksArePlaced(n, options) ==
    \E b : /\ NumbersAll(b, DOMAIN Picks(options), Places(n, options))
           /\ \A x \in DOMAIN Picks(options) : \A k \in 1 .. n : Picks(options)[x][k] = options[k][b[x][k]]

\* Every way to take one option each is picked once.
LEMMA PicksPlaces ==
    ASSUME NEW n \in Nat, NEW options, IsOptions(n, options), \A k \in 1 .. n : options[k] # <<>>
    PROVE  PicksArePlaced(n, options)
<1>. DEFINE lens == Lengths(options)
            picks == Picks(options)
            b == [x \in DOMAIN picks |-> [k \in 1 .. n |-> 1 + Digit(lens, x - 1, k)]]
<1>1. DOMAIN options = 1 .. n /\ lens \in [1 .. n -> Nat \ {0}]
      /\ \A k \in 1 .. n : lens[k] = Len(options[k]) /\ DOMAIN options[k] = 1 .. lens[k]
  <2>1. \A k \in 1 .. n : Len(options[k]) \in Nat \ {0} /\ DOMAIN options[k] = 1 .. Len(options[k])
    BY DEF IsOptions
  <2>. QED
    BY <2>1 DEF IsOptions, Lengths
<1>2. permutations(lens) = [x \in 1 .. Times(lens) |-> [k \in 1 .. n |-> 1 + Digit(lens, x - 1, k)]]
  BY <1>1 DEF permutations, Digit
<1>3. picks = [x \in 1 .. Times(lens) |-> [k \in 1 .. n |-> options[k][1 + Digit(lens, x - 1, k)]]]
  <2>1. picks = [x \in DOMAIN permutations(lens) |-> [k \in 1 .. n |-> options[k][permutations(lens)[x][k]]]]
    BY <1>1, Zenon DEF Picks, Lengths
  <2>. HIDE DEF lens, picks
  <2>. QED
    BY <1>2, <2>1
<1>4. Times(lens) \in Nat
  <2>1. lens \in [1 .. n -> Nat] /\ n \in 0 .. n
    BY <1>1
  <2>. HIDE DEF lens
  <2>. QED
    BY <2>1, Weights
<1>. HIDE DEF lens, picks
<1>5. DOMAIN picks = 1 .. Times(lens) /\ \A x \in DOMAIN picks : x - 1 \in 0 .. Times(lens) - 1 /\ x - 1 \in Nat
  BY <1>3, <1>4
<1>6. ASSUME NEW x \in DOMAIN picks, NEW k \in 1 .. n
      PROVE  /\ Digit(lens, x - 1, k) \in Nat /\ 1 + Digit(lens, x - 1, k) \in DOMAIN options[k]
             /\ picks[x][k] = options[k][1 + Digit(lens, x - 1, k)]
  <2>2. Placed(lens, x - 1, k)
    BY <1>1, <1>5, DigitPlace
  <2>3. Digit(lens, x - 1, k) \in 0 .. lens[k] - 1 /\ lens[k] \in Nat
    BY <1>1, <2>2 DEF Placed
  <2>. DEFINE e == Digit(lens, x - 1, k)
  <2>4. e \in 0 .. lens[k] - 1
    BY <2>3
  <2>5. picks[x][k] = options[k][1 + e]
    BY <1>3, <1>5
  <2>. HIDE DEF e
  <2>6. e \in Nat /\ 1 + e \in 1 .. lens[k]
    BY <2>3, <2>4
  <2>7. 1 + e \in DOMAIN options[k]
    BY <1>1, <2>6
  <2>. QED
    BY <2>5, <2>6, <2>7 DEF e
<1>7. b \in [DOMAIN picks -> Places(n, options)]
  <2>1. ASSUME NEW x \in DOMAIN picks PROVE [k \in 1 .. n |-> 1 + Digit(lens, x - 1, k)] \in Places(n, options)
    <3>1. \A k \in 1 .. n : 1 + Digit(lens, x - 1, k) \in Nat /\ 1 + Digit(lens, x - 1, k) \in DOMAIN options[k]
      BY <1>6
    <3>. QED
      BY <3>1 DEF Places
  <2>. QED
    BY <2>1
<1>8. ASSUME NEW x \in DOMAIN picks, NEW y \in DOMAIN picks, b[x] = b[y] PROVE x = y
  <2>1. \A k \in 1 .. n : Digit(lens, x - 1, k) = Digit(lens, y - 1, k)
    <3>1. \A k \in 1 .. n : b[x][k] = 1 + Digit(lens, x - 1, k) /\ b[y][k] = 1 + Digit(lens, y - 1, k)
      OBVIOUS
    <3>2. ASSUME NEW k \in 1 .. n PROVE Digit(lens, x - 1, k) = Digit(lens, y - 1, k)
      <4>. DEFINE d == Digit(lens, x - 1, k)
                  e == Digit(lens, y - 1, k)
      <4>1. d \in Nat /\ e \in Nat /\ 1 + d = 1 + e
        BY <1>6, <1>8, <3>1
      <4>. HIDE DEF d, e
      <4>2. d = e
        BY <4>1
      <4>. QED
        BY <4>2 DEF d, e
    <3>. QED
      BY <3>2
  <2>2. /\ Plus([k \in 1 .. n |-> temp(lens, k) * Digit(lens, x - 1, k)]) = x - 1
        /\ Plus([k \in 1 .. n |-> temp(lens, k) * Digit(lens, y - 1, k)]) = y - 1
    BY <1>1, <1>5, Together
  <2>3. [k \in 1 .. n |-> temp(lens, k) * Digit(lens, x - 1, k)]
          = [k \in 1 .. n |-> temp(lens, k) * Digit(lens, y - 1, k)]
    BY <2>1
  <2>4. x - 1 = y - 1
    BY <2>2, <2>3
  <2>. QED
    BY <1>5, <2>4
<1>9. ASSUME NEW f \in Places(n, options) PROVE \E x \in DOMAIN picks : b[x] = f
  <2>. DEFINE d == [k \in 1 .. n |-> f[k] - 1]
              node == Plus([k \in 1 .. n |-> temp(lens, k) * d[k]])
  <2>1. f = [k \in 1 .. n |-> f[k]] /\ \A k \in 1 .. n : d[k] \in 0 .. lens[k] - 1 /\ 1 + d[k] = f[k]
    <3>1. f \in [1 .. n -> Nat] /\ \A k \in 1 .. n : f[k] \in 1 .. lens[k] /\ lens[k] \in Nat
      BY <1>1 DEF Places
    <3>. QED
      BY <3>1
  <2>. HIDE DEF d
  <2>2. node \in 0 .. Times(lens) - 1 /\ \A k \in 1 .. n : Digit(lens, node, k) = d[k]
    BY <1>1, <2>1, Apart
  <2>. HIDE DEF node
  <2>3. node + 1 \in DOMAIN picks /\ (node + 1) - 1 = node
    BY <1>4, <1>5, <2>2
  <2>4. b[node + 1] = [k \in 1 .. n |-> f[k]]
    <3>1. b[node + 1] = [k \in 1 .. n |-> 1 + Digit(lens, (node + 1) - 1, k)]
      BY <2>3
    <3>2. \A k \in 1 .. n : 1 + Digit(lens, (node + 1) - 1, k) = f[k]
      BY <2>1, <2>2, <2>3
    <3>. QED
      BY <3>1, <3>2
  <2>. QED
    BY <2>1, <2>3, <2>4
<1>10. \A x \in DOMAIN picks : \A k \in 1 .. n : picks[x][k] = options[k][b[x][k]]
  BY <1>6
<1>. HIDE DEF b
<1>11. NumbersAll(b, DOMAIN picks, Places(n, options))
  BY <1>7, <1>8, <1>9 DEF NumbersAll
<1>. QED
  BY <1>10, <1>11 DEF PicksArePlaced, picks

\* The ways to take a member of each set of indices.
Takes(n, Q) == {f \in [1 .. n -> UNION {Q[a] : a \in 1 .. n}] : \A a \in 1 .. n : f[a] \in Q[a]}

Taken(n, v, m, f) == [model |-> m, automata |-> [a \in 1 .. n |-> v[a][f[a]]]]

CombineEnumerates(n, options, m, cs, Q, v) ==
    Enumerates(Combine(m, Picks(options), cs), Takes(n, Q), [f \in Takes(n, Q) |-> Taken(n, v, m, f)])

\* A connection of the model is combined once with every way to take a
\* connection of each automaton.
LEMMA CombinedOnce ==
    ASSUME NEW n \in Nat, NEW options, IsOptions(n, options), \A a \in 1 .. n : options[a] # <<>>,
           NEW m, NEW cs, DOMAIN cs = 1 .. n, NEW Q, NEW v,
           \A a \in 1 .. n : Enumerates([y \in DOMAIN options[a] |-> cs[a][options[a][y]]], Q[a], v[a])
    PROVE  CombineEnumerates(n, options, m, cs, Q, v)
<1>. DEFINE picks == Picks(options)
            combined == Combine(m, picks, cs)
            Good(e, a) == /\ NumbersAll(e, DOMAIN options[a], Q[a])
                          /\ \A y \in DOMAIN options[a] : cs[a][options[a][y]] = v[a][e[y]]
            at == [a \in 1 .. n |-> CHOOSE e : Good(e, a)]
<1>1. \A a \in 1 .. n : NumbersAll(at[a], DOMAIN options[a], Q[a])
                        /\ \A y \in DOMAIN options[a] : cs[a][options[a][y]] = v[a][at[a][y]]
  <2>1. ASSUME NEW a \in 1 .. n PROVE \E e : Good(e, a)
    <3>. DEFINE list == [y \in DOMAIN options[a] |-> cs[a][options[a][y]]]
    <3>1. DOMAIN list = DOMAIN options[a] /\ \A y \in DOMAIN list : list[y] = cs[a][options[a][y]]
      OBVIOUS
    <3>2. Enumerates(list, Q[a], v[a])
      OBVIOUS
    <3>. HIDE DEF list
    <3>3. PICK e : NumbersAll(e, DOMAIN list, Q[a]) /\ \A y \in DOMAIN list : list[y] = v[a][e[y]]
      BY <3>2 DEF Enumerates
    <3>4. Good(e, a)
      BY <3>1, <3>3
    <3>. QED
      BY <3>4
  <2>2. \A a \in 1 .. n : Good(at[a], a)
    BY <2>1
  <2>. HIDE DEF at
  <2>. QED
    BY <2>2
<1>. HIDE DEF at
<1>2. PICK b : /\ NumbersAll(b, DOMAIN picks, Places(n, options))
               /\ \A x \in DOMAIN picks : \A k \in 1 .. n : picks[x][k] = options[k][b[x][k]]
  <2>1. PicksArePlaced(n, options)
    BY PicksPlaces
  <2>. QED
    BY <2>1 DEF PicksArePlaced
<1>3. combined = [x \in DOMAIN picks |-> [model |-> m, automata |-> [a \in 1 .. n |-> cs[a][picks[x][a]]]]]
  BY DEF Combine
<1>. HIDE DEF picks, combined
<1>. DEFINE c == [x \in DOMAIN picks |-> [a \in 1 .. n |-> at[a][b[x][a]]]]
<1>4. ASSUME NEW x \in DOMAIN picks
      PROVE  /\ b[x] \in [1 .. n -> Nat]
             /\ \A a \in 1 .. n : b[x][a] \in DOMAIN options[a] /\ at[a][b[x][a]] \in Q[a]
             /\ c[x] \in Takes(n, Q)
             /\ combined[x] = Taken(n, v, m, c[x])
  <2>1. b[x] \in Places(n, options)
    BY <1>2 DEF NumbersAll
  <2>2. b[x] \in [1 .. n -> Nat] /\ \A a \in 1 .. n : b[x][a] \in DOMAIN options[a] /\ at[a][b[x][a]] \in Q[a]
    BY <1>1, <2>1 DEF Places, NumbersAll
  <2>3. c[x] = [a \in 1 .. n |-> at[a][b[x][a]]]
    OBVIOUS
  <2>4. c[x] \in Takes(n, Q)
    BY <2>2, <2>3 DEF Takes
  <2>5. \A a \in 1 .. n : cs[a][picks[x][a]] = v[a][c[x][a]]
    BY <1>1, <1>2, <2>2, <2>3
  <2>. HIDE DEF c
  <2>6. combined[x] = Taken(n, v, m, c[x])
    BY <1>3, <2>5 DEF Taken
  <2>. QED
    BY <2>2, <2>4, <2>6
<1>5. c \in [DOMAIN picks -> Takes(n, Q)]
  <2>1. c = [x \in DOMAIN picks |-> c[x]]
    OBVIOUS
  <2>. HIDE DEF c
  <2>. QED
    BY <1>4, <2>1
<1>6. ASSUME NEW x \in DOMAIN picks, NEW y \in DOMAIN picks, c[x] = c[y] PROVE x = y
  <2>1. ASSUME NEW a \in 1 .. n PROVE b[x][a] = b[y][a]
    <3>1. at[a][b[x][a]] = c[x][a] /\ at[a][b[y][a]] = c[y][a]
      OBVIOUS
    <3>2. at[a][b[x][a]] = at[a][b[y][a]]
      BY <1>6, <3>1
    <3>. QED
      BY <1>1, <1>4, <3>2 DEF NumbersAll
  <2>2. b[x] = b[y]
    <3>1. b[x] \in [1 .. n -> Nat] /\ b[y] \in [1 .. n -> Nat]
      BY <1>4
    <3>. HIDE DEF c
    <3>2. b[x] = [a \in 1 .. n |-> b[x][a]] /\ b[y] = [a \in 1 .. n |-> b[y][a]]
      BY <3>1
    <3>. QED
      BY <2>1, <3>2
  <2>. QED
    BY <1>2, <2>2 DEF NumbersAll
<1>7. ASSUME NEW f \in Takes(n, Q) PROVE \E x \in DOMAIN picks : c[x] = f
  <2>. DEFINE g == [a \in 1 .. n |-> CHOOSE y \in DOMAIN options[a] : at[a][y] = f[a]]
  <2>1. \A a \in 1 .. n : g[a] \in DOMAIN options[a] /\ at[a][g[a]] = f[a]
    <3>1. \A a \in 1 .. n : \E y \in DOMAIN options[a] : at[a][y] = f[a]
      BY <1>1 DEF NumbersAll, Takes
    <3>. QED
      BY <3>1
  <2>2. g \in Places(n, options)
    <3>1. \A a \in 1 .. n : DOMAIN options[a] \subseteq Nat
      BY DEF IsOptions
    <3>2. g = [a \in 1 .. n |-> g[a]]
      OBVIOUS
    <3>. HIDE DEF g
    <3>. QED
      BY <2>1, <3>1, <3>2 DEF Places
  <2>. HIDE DEF g
  <2>3. PICK x \in DOMAIN picks : b[x] = g
    BY <1>2, <2>2 DEF NumbersAll
  <2>4. c[x] = [a \in 1 .. n |-> f[a]]
    BY <2>1, <2>3
  <2>5. f = [a \in 1 .. n |-> f[a]]
    BY DEF Takes
  <2>. QED
    BY <2>3, <2>4, <2>5
<1>. HIDE DEF c
<1>8. NumbersAll(c, DOMAIN combined, Takes(n, Q))
  <2>1. DOMAIN combined = DOMAIN picks
    BY <1>3
  <2>. QED
    BY <1>5, <1>6, <1>7, <2>1 DEF NumbersAll
<1>9. \A x \in DOMAIN combined : combined[x] = [f \in Takes(n, Q) |-> Taken(n, v, m, f)][c[x]]
  <2>1. DOMAIN combined = DOMAIN picks
    BY <1>3
  <2>. QED
    BY <1>4, <2>1
<1>. DEFINE g == [f \in Takes(n, Q) |-> Taken(n, v, m, f)]
<1>10. Enumerates(combined, Takes(n, Q), g)
  <2>1. \A x \in DOMAIN combined : combined[x] = g[c[x]]
    BY <1>9
  <2>. HIDE DEF g
  <2>. QED
    BY <1>8, <2>1 DEF Enumerates
<1>. QED
  BY <1>10 DEF CombineEnumerates, combined, picks

\* The members of a sequence of sequences: where each is.
Members(n, seqs) == UNION {{<<i, j>> : j \in DOMAIN seqs[i]} : i \in 1 .. n}

FlattenedOnce(n, seqs) ==
    \E b : /\ NumbersAll(b, DOMAIN FlattenSeq(seqs), Members(n, seqs))
           /\ \A k \in DOMAIN FlattenSeq(seqs) : FlattenSeq(seqs)[k] = seqs[b[k][1]][b[k][2]]

\* A flattened sequence of sequences has every member of each once.
LEMMA FlattenedPlaces ==
    ASSUME NEW n \in Nat, NEW seqs, seqs = [i \in 1 .. n |-> seqs[i]],
           \A i \in 1 .. n : seqs[i] \in Seq(Range(seqs[i]))
    PROVE  FlattenedOnce(n, seqs)
<1>. DEFINE S == UNION {Range(seqs[i]) : i \in 1 .. n}
            Numbered(s, i) == \E b : /\ NumbersAll(b, DOMAIN s, Members(i, seqs))
                                     /\ \A k \in DOMAIN s : s[k] = seqs[b[k][1]][b[k][2]]
<1>1. Len(seqs) = n
  OBVIOUS
<1>2. ASSUME NEW s, DOMAIN s = {} PROVE Numbered(s, 0)
  <2>1. Members(0, seqs) = {}
    BY DEF Members
  <2>2. NumbersAll(<<>>, DOMAIN s, Members(0, seqs))
    BY <1>2, <2>1 DEF NumbersAll
  <2>. QED
    BY <1>2, <2>2
<1>3. ASSUME NEW i \in 1 .. n, NEW x \in Seq(S), Numbered(x, i - 1)
      PROVE  Numbered(x \o seqs[i], i)
  <2>. DEFINE y == seqs[i]
              z == x \o y
              l == Len(x)
  <2>1. y \in Seq(S)
    <3>1. Range(seqs[i]) \subseteq S /\ seqs[i] \in Seq(Range(seqs[i]))
      OBVIOUS
    <3>. HIDE DEF S
    <3>. QED
      BY <3>1
  <2>2. PICK b : NumbersAll(b, DOMAIN x, Members(i - 1, seqs)) /\ \A k \in DOMAIN x : x[k] = seqs[b[k][1]][b[k][2]]
    BY <1>3
  <2>3. Members(i, seqs) = Members(i - 1, seqs) \cup {<<i, j>> : j \in DOMAIN seqs[i]}
    <3>. DEFINE P(q) == {<<q, j>> : j \in DOMAIN seqs[q]}
    <3>1. 1 .. i = (1 .. i - 1) \cup {i}
      BY <1>1
    <3>2. Members(i, seqs) = UNION {P(q) : q \in 1 .. i} /\ Members(i - 1, seqs) = UNION {P(q) : q \in 1 .. i - 1}
      BY DEF Members
    <3>. HIDE DEF P
    <3>3. Members(i, seqs) = Members(i - 1, seqs) \cup P(i)
      BY <3>1, <3>2
    <3>. QED
      BY <3>3 DEF P
  <2>4. \A t \in Members(i - 1, seqs) : t[1] # i
    <3>1. ASSUME NEW t \in Members(i - 1, seqs) PROVE t[1] # i
      <4>1. PICK q \in 1 .. i - 1 : t \in {<<q, j>> : j \in DOMAIN seqs[q]}
        BY DEF Members
      <4>2. t[1] = q /\ q # i
        BY <4>1
      <4>. QED
        BY <4>2
    <3>. QED
      BY <3>1
  <2>. HIDE DEF S, y
  <2>5. /\ l \in Nat /\ DOMAIN x = 1 .. l /\ DOMAIN y = 1 .. Len(y) /\ Len(y) \in Nat
        /\ DOMAIN z = 1 .. l + Len(y)
        /\ \A k \in 1 .. l : z[k] = x[k]
        /\ \A k \in DOMAIN z : k \notin 1 .. l => z[k] = y[k - l] /\ k - l \in DOMAIN y
        /\ \A j \in DOMAIN y : l + j \in DOMAIN z /\ l + j \notin 1 .. l /\ (l + j) - l = j
    BY <2>1
  <2>. HIDE DEF z, l
  <2>. DEFINE c == [k \in DOMAIN z |-> IF k \in 1 .. l THEN b[k] ELSE <<i, k - l>>]
  <2>6. ASSUME NEW k \in DOMAIN z
        PROVE  c[k] \in Members(i, seqs) /\ z[k] = seqs[c[k][1]][c[k][2]] /\ (c[k][1] = i <=> k \notin 1 .. l)
    <3>1. CASE k \in 1 .. l
      <4>1. c[k] = b[k] /\ b[k] \in Members(i - 1, seqs) /\ z[k] = x[k] /\ x[k] = seqs[b[k][1]][b[k][2]]
        BY <2>2, <2>5, <3>1 DEF NumbersAll
      <4>2. b[k][1] # i
        BY <2>4, <4>1
      <4>. HIDE DEF c
      <4>. QED
        BY <2>3, <3>1, <4>1, <4>2
    <3>2. CASE k \notin 1 .. l
      <4>1. c[k] = <<i, k - l>> /\ k - l \in DOMAIN y /\ z[k] = y[k - l]
        BY <2>5, <3>2
      <4>2. <<i, k - l>> \in {<<i, j>> : j \in DOMAIN seqs[i]}
        BY <4>1 DEF y
      <4>3. c[k][1] = i /\ c[k][2] = k - l
        BY <4>1
      <4>. HIDE DEF c
      <4>. QED
        BY <2>3, <3>2, <4>1, <4>2, <4>3 DEF y
    <3>. QED
      BY <3>1, <3>2
  <2>7. ASSUME NEW k \in DOMAIN z, NEW m \in DOMAIN z, c[k] = c[m] PROVE k = m
    <3>1. k \in 1 .. l <=> m \in 1 .. l
      <4>1. (c[k][1] = i <=> k \notin 1 .. l) /\ (c[m][1] = i <=> m \notin 1 .. l)
        BY <2>6
      <4>. HIDE DEF c
      <4>. QED
        BY <2>7, <4>1
    <3>2. CASE k \in 1 .. l
      <4>1. c[k] = b[k] /\ c[m] = b[m]
        BY <3>1, <3>2
      <4>2. b[k] = b[m]
        BY <2>7, <4>1
      <4>. QED
        BY <2>2, <2>5, <3>1, <3>2, <4>2 DEF NumbersAll
    <3>3. CASE k \notin 1 .. l
      <4>1. c[k] = <<i, k - l>> /\ c[m] = <<i, m - l>>
        BY <3>1, <3>3
      <4>2. k - l = m - l
        BY <2>7, <4>1
      <4>3. k \in Nat /\ m \in Nat
        BY <2>5
      <4>. QED
        BY <2>5, <4>2, <4>3
    <3>. QED
      BY <3>2, <3>3
  <2>8. ASSUME NEW t \in Members(i, seqs) PROVE \E k \in DOMAIN z : c[k] = t
    <3>1. CASE t \in Members(i - 1, seqs)
      <4>1. PICK k \in DOMAIN x : b[k] = t
        BY <2>2, <3>1 DEF NumbersAll
      <4>2. k \in 1 .. l /\ k \in DOMAIN z
        BY <2>5, <4>1
      <4>3. c[k] = t
        BY <4>1, <4>2
      <4>. QED
        BY <4>2, <4>3
    <3>2. CASE t \in {<<i, j>> : j \in DOMAIN seqs[i]}
      <4>1. PICK j \in DOMAIN y : t = <<i, j>>
        BY <3>2 DEF y
      <4>2. l + j \in DOMAIN z /\ l + j \notin 1 .. l /\ (l + j) - l = j
        BY <2>5, <4>1
      <4>3. c[l + j] = t
        BY <4>1, <4>2
      <4>. QED
        BY <4>2, <4>3
    <3>. QED
      BY <2>3, <2>8, <3>1, <3>2
  <2>9. c \in [DOMAIN z -> Members(i, seqs)]
    <3>1. c = [k \in DOMAIN z |-> c[k]]
      OBVIOUS
    <3>. HIDE DEF c
    <3>. QED
      BY <2>6, <3>1
  <2>. HIDE DEF c
  <2>10. NumbersAll(c, DOMAIN z, Members(i, seqs))
    BY <2>7, <2>8, <2>9 DEF NumbersAll
  <2>11. Numbered(z, i)
    BY <2>6, <2>10
  <2>. HIDE DEF Numbered
  <2>. QED
    BY <2>11 DEF z, y
<1>. HIDE DEF Numbered
<1>4. CASE n = 0
  <2>1. FlattenSeq(seqs) = seqs
    BY <1>1, <1>4 DEF FlattenSeq
  <2>2. DOMAIN FlattenSeq(seqs) = {}
    <3>1. DOMAIN seqs = 1 .. n
      OBVIOUS
    <3>2. DOMAIN seqs = {}
      BY <1>4, <3>1
    <3>. QED
      BY <2>1, <3>2
  <2>3. Numbered(FlattenSeq(seqs), 0)
    BY <1>2, <2>2
  <2>. QED
    BY <1>4, <2>3 DEF Numbered, FlattenedOnce
<1>5. CASE n # 0
  <2>1. PICK g : /\ g = [i \in 1 .. n |-> IF i = 1 THEN seqs[i] ELSE g[i - 1] \o seqs[i]]
                 /\ FlattenSeq(seqs) = g[n]
    BY <1>1, <1>5, FlattenExists DEF FlattenSeq
  <2>. DEFINE Good(i) == g[i] \in Seq(S) /\ Numbered(g[i], i)
              T == {i \in 0 .. n : i # 0 => Good(i)}
  <2>2. 0 \in T
    OBVIOUS
  <2>3. ASSUME NEW i \in 1 .. n, i - 1 \in T PROVE i \in T
    <3>1. seqs[i] \in Seq(S) /\ i \in 0 .. n
      <4>1. Range(seqs[i]) \subseteq S
        OBVIOUS
      <4>2. seqs[i] \in Seq(Range(seqs[i]))
        OBVIOUS
      <4>. HIDE DEF S
      <4>. QED
        BY <4>1, <4>2
    <3>. HIDE DEF S
    <3>2. CASE i = 1
      <4>1. <<>> \in Seq(S) /\ <<>> \o seqs[i] = seqs[i] /\ i - 1 = 0 /\ DOMAIN <<>> = {}
        BY <3>1, <3>2
      <4>2. Numbered(<<>>, i - 1)
        BY <1>2, <4>1
      <4>3. Numbered(<<>> \o seqs[i], i)
        BY <1>3, <4>1, <4>2
      <4>4. g[i] = seqs[i]
        BY <2>1, <3>2
      <4>. QED
        BY <3>1, <4>1, <4>3, <4>4
    <3>3. CASE i # 1
      <4>1. g[i] = g[i - 1] \o seqs[i] /\ g[i - 1] \in Seq(S) /\ Numbered(g[i - 1], i - 1)
        <5>1. i - 1 # 0
          BY <3>3
        <5>2. Good(i - 1)
          BY <2>3, <5>1
        <5>. QED
          BY <2>1, <3>3, <5>2
      <4>2. g[i - 1] \o seqs[i] \in Seq(S)
        BY <3>1, <4>1
      <4>3. Numbered(g[i - 1] \o seqs[i], i)
        BY <1>3, <4>1
      <4>. QED
        BY <3>1, <4>1, <4>2, <4>3
    <3>. QED
      BY <3>2, <3>3
  <2>. HIDE DEF Good
  <2>4. 0 .. n \subseteq T
    <3>. HIDE DEF T
    <3>. QED
      BY <2>2, <2>3, Upwards
  <2>5. Good(n)
    BY <1>5, <2>4
  <2>. QED
    <3>1. Numbered(FlattenSeq(seqs), n)
      BY <2>1, <2>5 DEF Good
    <3>. QED
      BY <3>1 DEF Numbered, FlattenedOnce
<1>. QED
  BY <1>4, <1>5

\* The members of M with what F has for each.
Nested(M, F) == UNION {{[model |-> x, automata |-> f] : f \in F[x]} : x \in M}

\* Enumerations for the members of an enumeration make one.
LEMMA NestedEnumerations ==
    ASSUME NEW n \in Nat, NEW seqs, seqs = [i \in 1 .. n |-> seqs[i]],
           \A i \in 1 .. n : seqs[i] \in Seq(Range(seqs[i])),
           NEW m, NEW M, NumbersAll(m, 1 .. n, M), NEW F, NEW g, NEW h,
           \A i \in 1 .. n : Enumerates(seqs[i], F[m[i]], h[i]),
           \A i \in 1 .. n : \A f \in F[m[i]] : h[i][f] = g[[model |-> m[i], automata |-> f]]
    PROVE  Enumerates(FlattenSeq(seqs), Nested(M, F), g)
<1>. DEFINE flat == FlattenSeq(seqs)
            Good(e, i) == NumbersAll(e, DOMAIN seqs[i], F[m[i]]) /\ \A k \in DOMAIN seqs[i] : seqs[i][k] = h[i][e[k]]
            at == [i \in 1 .. n |-> CHOOSE e : Good(e, i)]
<1>1. \A i \in 1 .. n : Good(at[i], i)
  <2>1. \A i \in 1 .. n : \E e : Good(e, i)
    BY DEF Enumerates
  <2>. HIDE DEF Good
  <2>. QED
    BY <2>1
<1>. HIDE DEF at
<1>2. PICK b : NumbersAll(b, DOMAIN flat, Members(n, seqs)) /\ \A k \in DOMAIN flat : flat[k] = seqs[b[k][1]][b[k][2]]
  <2>1. FlattenedOnce(n, seqs)
    BY FlattenedPlaces
  <2>. QED
    BY <2>1 DEF FlattenedOnce
<1>. HIDE DEF flat
<1>3. ASSUME NEW k \in DOMAIN flat
      PROVE  b[k] = <<b[k][1], b[k][2]>> /\ b[k][1] \in 1 .. n /\ b[k][2] \in DOMAIN seqs[b[k][1]]
  <2>1. b[k] \in Members(n, seqs)
    BY <1>2 DEF NumbersAll
  <2>2. PICK i \in 1 .. n : b[k] \in {<<i, j>> : j \in DOMAIN seqs[i]}
    BY <2>1 DEF Members
  <2>3. PICK j \in DOMAIN seqs[i] : b[k] = <<i, j>>
    BY <2>2
  <2>. QED
    BY <2>2, <2>3
<1>. DEFINE M1(k) == m[b[k][1]]
            F1(k) == at[b[k][1]][b[k][2]]
            c == [k \in DOMAIN flat |-> [model |-> M1(k), automata |-> F1(k)]]
<1>4. ASSUME NEW k \in DOMAIN flat
      PROVE  /\ c[k].model = M1(k) /\ c[k].automata = F1(k) /\ c[k] = [model |-> M1(k), automata |-> F1(k)]
             /\ M1(k) \in M /\ F1(k) \in F[M1(k)] /\ flat[k] = g[c[k]]
  <2>1. c[k] = [model |-> M1(k), automata |-> F1(k)]
    OBVIOUS
  <2>2. M1(k) \in M
    BY <1>3 DEF NumbersAll
  <2>3. F1(k) \in F[M1(k)] /\ seqs[b[k][1]][b[k][2]] = h[b[k][1]][F1(k)]
    <3>. DEFINE i == b[k][1]
                j == b[k][2]
                e == at[i]
    <3>1. i \in 1 .. n /\ j \in DOMAIN seqs[i]
      BY <1>3
    <3>2. Good(e, i)
      BY <1>1, <3>1
    <3>. HIDE DEF i, j, e
    <3>3. e[j] \in F[m[i]] /\ seqs[i][j] = h[i][e[j]]
      BY <3>1, <3>2 DEF NumbersAll
    <3>. QED
      BY <3>3 DEF i, j, e
  <2>4. h[b[k][1]][F1(k)] = g[[model |-> M1(k), automata |-> F1(k)]]
    <3>. DEFINE f == F1(k)
                i == b[k][1]
    <3>1. i \in 1 .. n /\ f \in F[m[i]]
      BY <1>3, <2>3
    <3>. HIDE DEF f, i
    <3>2. h[i][f] = g[[model |-> m[i], automata |-> f]]
      BY <3>1
    <3>. QED
      BY <3>2 DEF f, i
  <2>5. flat[k] = g[[model |-> M1(k), automata |-> F1(k)]]
    BY <1>2, <2>3, <2>4
  <2>. HIDE DEF M1, F1
  <2>. QED
    BY <2>1, <2>2, <2>3, <2>5
<1>5. c \in [DOMAIN flat -> Nested(M, F)]
  <2>1. \A k \in DOMAIN flat : [model |-> M1(k), automata |-> F1(k)] \in Nested(M, F)
    <3>. HIDE DEF M1, F1, c
    <3>. QED
      BY <1>4 DEF Nested
  <2>. HIDE DEF M1, F1
  <2>. QED
    BY <2>1
<1>6. ASSUME NEW k \in DOMAIN flat, NEW l \in DOMAIN flat, c[k] = c[l] PROVE k = l
  <2>1. M1(k) = M1(l) /\ F1(k) = F1(l)
    <3>. HIDE DEF M1, F1, c
    <3>. QED
      BY <1>4, <1>6
  <2>2. b[k][1] = b[l][1]
    <3>1. b[k][1] \in 1 .. n /\ b[l][1] \in 1 .. n /\ m[b[k][1]] = m[b[l][1]]
      BY <1>3, <2>1
    <3>. HIDE DEF M1, F1, c
    <3>. QED
      BY <3>1 DEF NumbersAll
  <2>3. b[k][2] = b[l][2]
    <3>. DEFINE i == b[k][1]
                e == at[i]
    <3>1. i \in 1 .. n /\ b[k][2] \in DOMAIN seqs[i] /\ b[l][2] \in DOMAIN seqs[i] /\ e[b[k][2]] = e[b[l][2]]
      BY <1>3, <2>1, <2>2
    <3>2. Good(e, i)
      BY <1>1, <3>1
    <3>. HIDE DEF i, e, M1, F1, c
    <3>. QED
      BY <3>1, <3>2 DEF NumbersAll
  <2>4. b[k] = b[l]
    BY <1>3, <2>2, <2>3
  <2>. QED
    BY <1>2, <2>4 DEF NumbersAll
<1>7. ASSUME NEW t \in Nested(M, F) PROVE \E k \in DOMAIN flat : c[k] = t
  <2>1. PICK x \in M : t \in {[model |-> x, automata |-> f] : f \in F[x]}
    BY DEF Nested
  <2>2. PICK f \in F[x] : t = [model |-> x, automata |-> f]
    BY <2>1
  <2>3. PICK i \in 1 .. n : m[i] = x
    BY DEF NumbersAll
  <2>4. PICK j \in DOMAIN seqs[i] : at[i][j] = f
    BY <1>1, <2>2, <2>3 DEF NumbersAll
  <2>5. <<i, j>> \in Members(n, seqs)
    BY <2>4 DEF Members
  <2>6. PICK k \in DOMAIN flat : b[k] = <<i, j>>
    BY <1>2, <2>5 DEF NumbersAll
  <2>7. M1(k) = x /\ F1(k) = f
    BY <2>3, <2>4, <2>6
  <2>. HIDE DEF M1, F1
  <2>. QED
    BY <1>4, <2>2, <2>7
<1>8. \A k \in DOMAIN flat : flat[k] = g[c[k]]
  BY <1>4
<1>. HIDE DEF c
<1>9. NumbersAll(c, DOMAIN flat, Nested(M, F))
  BY <1>5, <1>6, <1>7 DEF NumbersAll
<1>10. Enumerates(flat, Nested(M, F), g)
  BY <1>8, <1>9 DEF Enumerates
<1>. QED
  BY <1>10 DEF flat

\* The connections of each automaton that are at a node, D, and that the model
\* observes at sp: the places they have.
Ways(p, n, v, D, sp) ==
    [a \in 1 .. n |-> {j \in DOMAIN v[a] : v[a][j] \in D[a] /\ observe(p, sp, v[a][j].edge)}]

StepsEnumerated(p, n, v, D, sp, m, cs) ==
    LET options == [a \in 1 .. n |-> OptionsInto(p, sp, cs[a])]
        steps == Combine(m, Picks(options), cs)
    IN  IF <<>> \in Range(options) THEN Takes(n, Ways(p, n, v, D, sp)) = {}
        ELSE /\ steps \in Seq(Range(steps))
             /\ Enumerates(steps, Takes(n, Ways(p, n, v, D, sp)),
                           [f \in Takes(n, Ways(p, n, v, D, sp)) |-> Taken(n, v, m, f)])

\* Every way to follow a connection of the model is a step, once.
LEMMA StepsOnce ==
    ASSUME NEW p, NEW n \in Nat, NEW v, NEW D, NEW sp, NEW m, NEW cs, DOMAIN cs = 1 .. n,
           \A a \in 1 .. n : v[a] \in Seq(Range(v[a])) /\ cs[a] = Among(v[a], D[a])
    PROVE  StepsEnumerated(p, n, v, D, sp, m, cs)
<1>. DEFINE options == [a \in 1 .. n |-> OptionsInto(p, sp, cs[a])]
            Q == Ways(p, n, v, D, sp)
            steps == Combine(m, Picks(options), cs)
<1>1. DOMAIN options = 1 .. n /\ \A a \in 1 .. n : options[a] = OptionsInto(p, sp, cs[a])
  OBVIOUS
<1>2. \A a \in 1 .. n : Q[a] = {j \in DOMAIN v[a] : v[a][j] \in D[a] /\ observe(p, sp, v[a][j].edge)}
  BY DEF Ways
<1>. HIDE DEF options, Q
<1>3. IsOptions(n, options)
  <2>1. ASSUME NEW a \in 1 .. n PROVE options[a] \in Seq(Range(options[a]))
    <3>1. cs[a] \in Seq(Range(v[a]))
      BY AmongElements
    <3>2. OptionsInto(p, sp, cs[a]) \in Seq(Range(OptionsInto(p, sp, cs[a])))
      BY <3>1, OptionsElements
    <3>. QED
      BY <1>1, <3>2
  <2>. QED
    BY <1>1, <2>1 DEF IsOptions
<1>4. ASSUME NEW a \in 1 .. n PROVE Enumerates([y \in DOMAIN options[a] |-> cs[a][options[a][y]]], Q[a], v[a])
  <2>. DEFINE o == OptionsInto(p, sp, Among(v[a], D[a]))
  <2>1. Enumerates([y \in DOMAIN o |-> Among(v[a], D[a])[o[y]]],
                   {j \in DOMAIN v[a] : v[a][j] \in D[a] /\ observe(p, sp, v[a][j].edge)}, v[a])
    BY OptionsEnumerate
  <2>2. o = options[a] /\ Among(v[a], D[a]) = cs[a]
    BY <1>1
  <2>. HIDE DEF o
  <2>. QED
    BY <1>2, <2>1, <2>2
<1>5. CASE <<>> \in Range(options)
  <2>1. PICK a \in 1 .. n : options[a] = <<>>
    BY <1>1, <1>5 DEF Range
  <2>2. Q[a] = {}
    <3>. DEFINE list == [y \in DOMAIN options[a] |-> cs[a][options[a][y]]]
    <3>1. Enumerates(list, Q[a], v[a])
      BY <1>4
    <3>2. DOMAIN list = {}
      BY <2>1
    <3>. HIDE DEF list
    <3>. QED
      BY <3>1, <3>2 DEF Enumerates, NumbersAll
  <2>3. Takes(n, Q) = {}
    BY <2>1, <2>2 DEF Takes
  <2>. QED
    BY <1>5, <2>3, Zenon DEF StepsEnumerated, options, Q
<1>6. CASE <<>> \notin Range(options)
  <2>1. \A a \in 1 .. n : options[a] # <<>>
    BY <1>1, <1>6 DEF Range
  <2>2. CombineEnumerates(n, options, m, cs, Q, v)
    BY <1>3, <1>4, <2>1, CombinedOnce
  <2>3. Enumerates(steps, Takes(n, Q), [f \in Takes(n, Q) |-> Taken(n, v, m, f)])
    BY <2>2 DEF CombineEnumerates
  <2>4. CombinesAll(n, options, m, cs)
    BY <1>3, <2>1, Combined
  <2>5. steps \in Seq(Range(steps))
    BY <2>4 DEF CombinesAll
  <2>. HIDE DEF steps
  <2>. QED
    BY <1>6, <2>3, <2>5, Zenon DEF StepsEnumerated, options, Q, steps
<1>. QED
  BY <1>5, <1>6

-----------------------------------------------------------------------------
(***************************************************************************)
(* The transitions of a product, and where they are listed.                *)
(***************************************************************************)
TransitionsOf(p) ==
    {t \in [model    : DOMAIN p.model.connections,
            automata : {f \in [DOMAIN p.automata -> UNION {DOMAIN p.automata[a].connections : a \in DOMAIN p.automata}] :
                          \A a \in DOMAIN f : f[a] \in DOMAIN p.automata[a].connections}] :
       \A a \in DOMAIN t.automata :
          observe(p, p.model.connections[t.model].dst, p.automata[a].connections[t.automata[a]].edge)}

ConnectionOf(p, t) ==
    [model    |-> p.model.connections[t.model],
     automata |-> [a \in DOMAIN t.automata |-> p.automata[a].connections[t.automata[a]]]]

LeavingOf(p, node) == {t \in TransitionsOf(p) : Source(p, ConnectionOf(p, t)) = node}
EnteringOf(p, node) == {t \in TransitionsOf(p) : Destination(p, ConnectionOf(p, t)) = node}

\* A transition has a connection of each graph.
LEMMA TransitionParts ==
    ASSUME NEW p, IsProduct(p)
    PROVE  \A t : t \in TransitionsOf(p) <=>
              \E j \in DOMAIN p.model.connections :
              \E f \in [DOMAIN p.automata -> UNION {DOMAIN p.automata[a].connections : a \in DOMAIN p.automata}] :
                 /\ t = [model |-> j, automata |-> f]
                 /\ \A a \in DOMAIN p.automata :
                      /\ f[a] \in DOMAIN p.automata[a].connections
                      /\ observe(p, p.model.connections[j].dst, p.automata[a].connections[f[a]].edge)
<1>. DEFINE X == UNION {DOMAIN p.automata[a].connections : a \in DOMAIN p.automata}
            D == DOMAIN p.automata
            Fs == {f \in [D -> X] : \A a \in DOMAIN f : f[a] \in DOMAIN p.automata[a].connections}
<1>1. TransitionsOf(p) = {t \in [model : DOMAIN p.model.connections, automata : Fs] :
          \A a \in DOMAIN t.automata :
            observe(p, p.model.connections[t.model].dst, p.automata[a].connections[t.automata[a]].edge)}
  BY DEF TransitionsOf
<1>2. Fs = {f \in [D -> X] : \A a \in D : f[a] \in DOMAIN p.automata[a].connections}
  <2>. HIDE DEF X, D
  <2>. QED
    OBVIOUS
<1>3. \A f \in Fs : DOMAIN f = D
  <2>. HIDE DEF X, D
  <2>. QED
    OBVIOUS
<1>. HIDE DEF Fs, X, D
<1>4. ASSUME NEW t \in TransitionsOf(p)
      PROVE  \E j \in DOMAIN p.model.connections : \E f \in [D -> X] :
                 /\ t = [model |-> j, automata |-> f]
                 /\ \A a \in D : /\ f[a] \in DOMAIN p.automata[a].connections
                                 /\ observe(p, p.model.connections[j].dst, p.automata[a].connections[f[a]].edge)
  <2>1. /\ t.model \in DOMAIN p.model.connections /\ t.automata \in Fs /\ t = [model |-> t.model, automata |-> t.automata]
        /\ \A a \in DOMAIN t.automata :
            observe(p, p.model.connections[t.model].dst, p.automata[a].connections[t.automata[a]].edge)
    BY <1>1
  <2>. QED
    BY <1>2, <1>3, <2>1
<1>5. ASSUME NEW t, NEW j \in DOMAIN p.model.connections, NEW f \in [D -> X], t = [model |-> j, automata |-> f],
             \A a \in D : /\ f[a] \in DOMAIN p.automata[a].connections
                          /\ observe(p, p.model.connections[j].dst, p.automata[a].connections[f[a]].edge)
      PROVE  t \in TransitionsOf(p)
  <2>1. f \in Fs /\ t.model = j /\ t.automata = f
    BY <1>2, <1>5
  <2>. QED
    BY <1>1, <1>3, <1>5, <2>1
<1>. QED
  BY <1>4, <1>5 DEF D, X

AutomatonConnections(p) == [a \in DOMAIN p.automata |-> p.automata[a].connections]

\* The product connection of a transition.
LEMMA TransitionConnection ==
    ASSUME NEW p, IsProduct(p), NEW t \in TransitionsOf(p)
    PROVE  LET c == ConnectionOf(p, t)
           IN  /\ t.model \in DOMAIN p.model.connections
               /\ DOMAIN t.automata = DOMAIN p.automata
               /\ \A a \in DOMAIN p.automata : t.automata[a] \in DOMAIN p.automata[a].connections
               /\ c = Taken(Len(p.automata), AutomatonConnections(p), p.model.connections[t.model], t.automata)
               /\ c.model = p.model.connections[t.model]
               /\ \A a \in DOMAIN p.automata : c.automata[a] = p.automata[a].connections[t.automata[a]]
               /\ DOMAIN c.automata = DOMAIN p.automata
               /\ c.model \in Range(p.model.connections)
               /\ \A a \in DOMAIN p.automata : c.automata[a] \in Range(p.automata[a].connections)
<1>. DEFINE n == Len(p.automata)
            mine == [a \in DOMAIN t.automata |-> p.automata[a].connections[t.automata[a]]]
<1>1. DOMAIN p.automata = 1 .. n
  BY DEF IsProduct
<1>2. PICK j \in DOMAIN p.model.connections, f \in [DOMAIN p.automata -> UNION {DOMAIN p.automata[a].connections : a \in DOMAIN p.automata}] :
                 /\ t = [model |-> j, automata |-> f]
                 /\ \A a \in DOMAIN p.automata : f[a] \in DOMAIN p.automata[a].connections
  BY TransitionParts
<1>3. t.model = j /\ t.automata = f /\ DOMAIN f = DOMAIN p.automata
  BY <1>2
<1>4. ConnectionOf(p, t) = [model |-> p.model.connections[j], automata |-> mine]
  BY <1>3 DEF ConnectionOf
<1>5. mine = [a \in 1 .. n |-> AutomatonConnections(p)[a][f[a]]]
  BY <1>1, <1>3 DEF AutomatonConnections
<1>6. DOMAIN mine = DOMAIN p.automata /\ \A a \in DOMAIN p.automata : mine[a] = p.automata[a].connections[f[a]]
  BY <1>3
<1>. HIDE DEF mine, n
<1>7. ConnectionOf(p, t).model = p.model.connections[j] /\ ConnectionOf(p, t).automata = mine
  BY <1>4
<1>8. ConnectionOf(p, t) = Taken(n, AutomatonConnections(p), p.model.connections[j], f)
  BY <1>4, <1>5 DEF Taken
<1>. QED
  BY <1>2, <1>3, <1>6, <1>7, <1>8 DEF Range, n

AtNode(p, u, T) ==
    \A t \in TransitionsOf(p) :
       t \in T <=> /\ p.model.connections[t.model].src = u[1]
                   /\ \A a \in DOMAIN p.automata : p.automata[a].connections[t.automata[a]].src = u[a + 1]

IntoNode(p, u, T) ==
    \A t \in TransitionsOf(p) :
       t \in T <=> /\ p.model.connections[t.model].dst = u[1]
                   /\ \A a \in DOMAIN p.automata : p.automata[a].connections[t.automata[a]].dst = u[a + 1]

\* A transition leaves or enters a node part by part.
LEMMA PartByPart ==
    ASSUME NEW p, IsProduct(p), NEW node \in WideNode(p)
    PROVE  AtNode(p, unwrap(p, node), LeavingOf(p, node)) /\ IntoNode(p, unwrap(p, node), EnteringOf(p, node))
<1>. DEFINE u == unwrap(p, node)
<1>1. ASSUME NEW t \in TransitionsOf(p)
      PROVE  /\ t \in LeavingOf(p, node) <=> /\ p.model.connections[t.model].src = u[1]
                 /\ \A a \in DOMAIN p.automata : p.automata[a].connections[t.automata[a]].src = u[a + 1]
             /\ t \in EnteringOf(p, node) <=> /\ p.model.connections[t.model].dst = u[1]
                 /\ \A a \in DOMAIN p.automata : p.automata[a].connections[t.automata[a]].dst = u[a + 1]
  <2>. DEFINE c == ConnectionOf(p, t)
  <2>1. /\ c.model = p.model.connections[t.model]
        /\ \A a \in DOMAIN p.automata : c.automata[a] = p.automata[a].connections[t.automata[a]]
        /\ DOMAIN c.automata = DOMAIN p.automata
        /\ c.model \in Range(p.model.connections)
        /\ \A a \in DOMAIN p.automata : c.automata[a] \in Range(p.automata[a].connections)
    BY TransitionConnection
  <2>2. t \in LeavingOf(p, node) <=> Source(p, c) = node
    BY DEF LeavingOf
  <2>3. t \in EnteringOf(p, node) <=> Destination(p, c) = node
    BY DEF EnteringOf
  <2>. HIDE DEF c, u
  <2>4. /\ Destination(p, c) \in WideNode(p)
        /\ unwrap(p, Destination(p, c))[1] = c.model.dst
        /\ \A a \in DOMAIN p.automata : unwrap(p, Destination(p, c))[a + 1] = c.automata[a].dst
        /\ Source(p, c) \in WideNode(p)
        /\ unwrap(p, Source(p, c))[1] = c.model.src
        /\ \A a \in DOMAIN p.automata : unwrap(p, Source(p, c))[a + 1] = c.automata[a].src
    BY <2>1, Ends
  <2>5. Source(p, c) = node <=> c.model.src = u[1] /\ \A a \in DOMAIN p.automata : c.automata[a].src = u[a + 1]
    <3>1. ASSUME c.model.src = u[1], \A a \in DOMAIN p.automata : c.automata[a].src = u[a + 1]
          PROVE  Source(p, c) = node
      <4>1. unwrap(p, Source(p, c))[1] = unwrap(p, node)[1]
            /\ \A a \in DOMAIN p.automata : unwrap(p, Source(p, c))[a + 1] = unwrap(p, node)[a + 1]
        BY <2>4, <3>1 DEF u
      <4>. QED
        BY <2>4, <4>1, SameNode
    <3>. QED
      BY <2>4, <3>1 DEF u
  <2>6. Destination(p, c) = node <=> c.model.dst = u[1] /\ \A a \in DOMAIN p.automata : c.automata[a].dst = u[a + 1]
    <3>1. ASSUME c.model.dst = u[1], \A a \in DOMAIN p.automata : c.automata[a].dst = u[a + 1]
          PROVE  Destination(p, c) = node
      <4>1. unwrap(p, Destination(p, c))[1] = unwrap(p, node)[1]
            /\ \A a \in DOMAIN p.automata : unwrap(p, Destination(p, c))[a + 1] = unwrap(p, node)[a + 1]
        BY <2>4, <3>1 DEF u
      <4>. QED
        BY <2>4, <4>1, SameNode
    <3>. QED
      BY <2>4, <3>1 DEF u
  <2>. QED
    BY <2>1, <2>2, <2>3, <2>5, <2>6
<1>. QED
  BY <1>1 DEF AtNode, IntoNode

\* The ways to follow a connection of the model, as transitions.
WaysInto(p, D, j) ==
    Takes(Len(p.automata), Ways(p, Len(p.automata), AutomatonConnections(p), D, p.model.connections[j].dst))

\* A way to follow the model's j-th connection, among the connections in D, is
\* a transition.
LEMMA WaysAreTransitions ==
    ASSUME NEW p, IsProduct(p), NEW D, NEW j \in DOMAIN p.model.connections
    PROVE  \A f : f \in WaysInto(p, D, j) <=>
              /\ [model |-> j, automata |-> f] \in TransitionsOf(p)
              /\ \A a \in DOMAIN p.automata : p.automata[a].connections[f[a]] \in D[a]
<1>. DEFINE n == Len(p.automata)
            v == AutomatonConnections(p)
            Q == Ways(p, n, v, D, p.model.connections[j].dst)
            X == UNION {DOMAIN p.automata[a].connections : a \in DOMAIN p.automata}
            Y == UNION {Q[a] : a \in 1 .. n}
<1>1. DOMAIN p.automata = 1 .. n
  BY DEF IsProduct
<1>2. \A a \in 1 .. n : v[a] = p.automata[a].connections
  BY <1>1 DEF AutomatonConnections
<1>. HIDE DEF n, v
<1>3. \A a \in 1 .. n : Q[a] = {i \in DOMAIN v[a] : v[a][i] \in D[a] /\ observe(p, p.model.connections[j].dst, v[a][i].edge)}
  BY DEF Ways
<1>. HIDE DEF Q
<1>4. WaysInto(p, D, j) = {f \in [1 .. n -> Y] : \A a \in 1 .. n : f[a] \in Q[a]}
  BY DEF WaysInto, Takes, n, v, Q
<1>5. Y \subseteq X
  BY <1>1, <1>2, <1>3
<1>6. ASSUME NEW f \in WaysInto(p, D, j)
      PROVE  /\ [model |-> j, automata |-> f] \in TransitionsOf(p)
             /\ \A a \in DOMAIN p.automata : p.automata[a].connections[f[a]] \in D[a]
  <2>1. f \in [1 .. n -> Y] /\ \A a \in 1 .. n : f[a] \in Q[a]
    BY <1>4
  <2>2. f \in [DOMAIN p.automata -> X]
    <3>. HIDE DEF X, Y
    <3>. QED
      BY <1>1, <1>5, <2>1
  <2>3. \A a \in 1 .. n : /\ f[a] \in DOMAIN p.automata[a].connections
                          /\ p.automata[a].connections[f[a]] \in D[a]
                          /\ observe(p, p.model.connections[j].dst, p.automata[a].connections[f[a]].edge)
    BY <1>2, <1>3, <2>1
  <2>. DEFINE t == [model |-> j, automata |-> f]
  <2>4. t \in TransitionsOf(p)
    <3>. HIDE DEF t, Y
    <3>1. /\ t = [model |-> j, automata |-> f]
          /\ \A a \in DOMAIN p.automata :
                /\ f[a] \in DOMAIN p.automata[a].connections
                /\ observe(p, p.model.connections[j].dst, p.automata[a].connections[f[a]].edge)
      BY <1>1, <2>3 DEF t
    <3>. QED
      BY <2>2, <3>1, TransitionParts
  <2>. QED
    BY <1>1, <2>3, <2>4
<1>7. ASSUME NEW f, [model |-> j, automata |-> f] \in TransitionsOf(p),
             \A a \in DOMAIN p.automata : p.automata[a].connections[f[a]] \in D[a]
      PROVE  f \in WaysInto(p, D, j)
  <2>. DEFINE t == [model |-> j, automata |-> f]
  <2>1. t.model = j /\ t.automata = f
    OBVIOUS
  <2>2. PICK k \in DOMAIN p.model.connections, g \in [DOMAIN p.automata -> X] :
           /\ t = [model |-> k, automata |-> g]
           /\ \A a \in DOMAIN p.automata :
                /\ g[a] \in DOMAIN p.automata[a].connections
                /\ observe(p, p.model.connections[k].dst, p.automata[a].connections[g[a]].edge)
    <3>1. t \in TransitionsOf(p)
      BY <1>7
    <3>. HIDE DEF t
    <3>. QED
      BY <3>1, TransitionParts DEF X
  <2>3. k = j /\ g = f
    BY <2>1, <2>2
  <2>4. \A a \in 1 .. n : f[a] \in Q[a]
    BY <1>1, <1>2, <1>3, <1>7, <2>2, <2>3
  <2>5. f = [a \in 1 .. n |-> f[a]]
    <3>. HIDE DEF X, t
    <3>. QED
      BY <1>1, <2>2, <2>3
  <2>6. f \in [1 .. n -> Y]
    <3>1. \A a \in 1 .. n : f[a] \in Y
      BY <2>4
    <3>. HIDE DEF Y, t
    <3>. QED
      BY <2>5, <3>1
  <2>. QED
    BY <1>4, <2>4, <2>6
<1>. QED
  BY <1>6, <1>7

\* The transitions T are those that follow one of the model's connections J
\* among the connections in D; the connections at of J, which are all that can
\* be followed, have their steps listed in parts.
IsAssembly(p, D, J, T, l, at, parts) ==
    /\ T \in SUBSET TransitionsOf(p)
    /\ \A t \in TransitionsOf(p) :
          t \in T <=> t.model \in J /\ \A a \in DOMAIN p.automata : p.automata[a].connections[t.automata[a]] \in D[a]
    /\ \A i \in 1 .. l : at[i] \in J /\ at[i] \in DOMAIN p.model.connections
    /\ \A i, k \in 1 .. l : at[i] = at[k] => i = k
    /\ \A j \in J : j \in DOMAIN p.model.connections => WaysInto(p, D, j) = {} \/ \E i \in 1 .. l : at[i] = j
    /\ parts = [i \in 1 .. l |-> parts[i]]
    /\ \A i \in 1 .. l : parts[i] \in Seq(Range(parts[i]))
    /\ \A i \in 1 .. l : Enumerates(parts[i], WaysInto(p, D, at[i]),
          [f \in WaysInto(p, D, at[i]) |->
             Taken(Len(p.automata), AutomatonConnections(p), p.model.connections[at[i]], f)])

\* So flattened the parts list them.
LEMMA Assembled ==
    ASSUME NEW p, IsProduct(p), NEW D, NEW J, NEW T, NEW l \in Nat, NEW at, NEW parts,
           IsAssembly(p, D, J, T, l, at, parts)
    PROVE  Enumerates(FlattenSeq(parts), T, [t \in T |-> ConnectionOf(p, t)])
<1>. DEFINE Fw(j) == WaysInto(p, D, j)
            mv == p.model.connections
            m == [i \in 1 .. l |-> at[i]]
            M == {at[i] : i \in 1 .. l}
            F == [j \in M |-> Fw(j)]
            Tk(c, f) == Taken(Len(p.automata), AutomatonConnections(p), c, f)
            H(i) == [f \in Fw(at[i]) |-> Tk(mv[at[i]], f)]
            h == [i \in 1 .. l |-> H(i)]
            g == [t \in T |-> ConnectionOf(p, t)]
<1>. USE DEF IsAssembly
<1>1. ASSUME NEW i \in 1 .. l, NEW f \in Fw(at[i])
      PROVE  [model |-> at[i], automata |-> f] \in T /\ g[[model |-> at[i], automata |-> f]] = Tk(mv[at[i]], f)
  <2>. DEFINE t == [model |-> at[i], automata |-> f]
  <2>1. t \in TransitionsOf(p) /\ \A a \in DOMAIN p.automata : p.automata[a].connections[f[a]] \in D[a]
    BY WaysAreTransitions
  <2>2. t.model = at[i] /\ t.automata = f
    OBVIOUS
  <2>. HIDE DEF t
  <2>3. t \in T
    BY <2>1, <2>2
  <2>4. ConnectionOf(p, t) = Tk(mv[at[i]], f)
    BY <2>1, <2>2, TransitionConnection
  <2>. QED
    BY <2>3, <2>4 DEF t
<1>2. NumbersAll(m, 1 .. l, M)
  <2>1. m \in [1 .. l -> M]
    OBVIOUS
  <2>. QED
    BY <2>1 DEF NumbersAll
<1>3. \A i \in 1 .. l : m[i] = at[i] /\ F[m[i]] = Fw(at[i]) /\ h[i] = H(i)
  <2>. HIDE DEF Fw, H
  <2>. QED
    OBVIOUS
<1>4. \A i \in 1 .. l : Enumerates(parts[i], F[m[i]], h[i])
  <2>1. \A i \in 1 .. l : Enumerates(parts[i], Fw(at[i]), H(i))
    OBVIOUS
  <2>. HIDE DEF Fw, H, m, F, h
  <2>. QED
    BY <1>3, <2>1
<1>5. \A i \in 1 .. l : \A f \in F[m[i]] : h[i][f] = g[[model |-> m[i], automata |-> f]]
  <2>1. \A i \in 1 .. l : \A f \in Fw(at[i]) : H(i)[f] = Tk(mv[at[i]], f)
    <3>. HIDE DEF Fw, Tk
    <3>. QED
      OBVIOUS
  <2>. HIDE DEF Fw, H, m, F, h, g, Tk
  <2>. QED
    BY <1>1, <1>3, <2>1
<1>6. Nested(M, F) = T
  <2>1. ASSUME NEW t \in Nested(M, F) PROVE t \in T
    <3>1. PICK j \in M : t \in {[model |-> j, automata |-> f] : f \in F[j]}
      BY DEF Nested
    <3>2. PICK f \in F[j] : t = [model |-> j, automata |-> f]
      BY <3>1
    <3>3. PICK i \in 1 .. l : j = at[i]
      OBVIOUS
    <3>4. F[j] = Fw(at[i])
      <4>. HIDE DEF Fw, M
      <4>. QED
        BY <3>1, <3>3
    <3>5. f \in Fw(at[i])
      BY <3>2, <3>4
    <3>. QED
      BY <1>1, <3>2, <3>3, <3>5
  <2>2. ASSUME NEW t \in T PROVE t \in Nested(M, F)
    <3>1. PICK j \in DOMAIN mv,
               f \in [DOMAIN p.automata -> UNION {DOMAIN p.automata[a].connections : a \in DOMAIN p.automata}] :
             t = [model |-> j, automata |-> f]
      BY TransitionParts
    <3>2. t.model = j /\ t.automata = f
      BY <3>1
    <3>3. j \in J /\ \A a \in DOMAIN p.automata : p.automata[a].connections[f[a]] \in D[a]
      BY <3>2
    <3>4. f \in Fw(j)
      BY <3>1, <3>3, WaysAreTransitions
    <3>5. PICK i \in 1 .. l : at[i] = j
      BY <3>3, <3>4
    <3>6. j \in M /\ F[j] = Fw(j)
      <4>1. j \in M
        BY <3>5
      <4>. HIDE DEF Fw, M
      <4>. QED
        BY <4>1
    <3>7. f \in F[j]
      BY <3>4, <3>6
    <3>. HIDE DEF F, M, Fw
    <3>. QED
      BY <3>1, <3>6, <3>7 DEF Nested
  <2>. QED
    BY <2>1, <2>2
<1>7. parts = [i \in 1 .. l |-> parts[i]] /\ \A i \in 1 .. l : parts[i] \in Seq(Range(parts[i]))
  OBVIOUS
<1>. HIDE DEF m, M, F, h, g, IsAssembly
<1>8. Enumerates(FlattenSeq(parts), Nested(M, F), g)
  BY <1>2, <1>4, <1>5, <1>7, NestedEnumerations
<1>. QED
  BY <1>6, <1>8 DEF g

\* What children() and outgoingEdges() list are the transitions that leave.
LEMMA OutwardOnce ==
    ASSUME NEW p, IsProduct(p), NEW node \in WideNode(p)
    PROVE  Enumerates(Outward(p, node, post(p, node)), LeavingOf(p, node),
                      [t \in LeavingOf(p, node) |-> ConnectionOf(p, t)])
<1>. DEFINE n == Len(p.automata)
            u == unwrap(p, node)
            mv == p.model.connections
            v == AutomatonConnections(p)
            S0 == {c \in Range(mv) : c.src = u[1]}
            D == [a \in DOMAIN p.automata |-> {c \in Range(p.automata[a].connections) : c.src = u[a + 1]}]
            mc == outgoing(p.model, u[1])
            ac == [a \in DOMAIN p.automata |-> outgoing(p.automata[a], u[a + 1])]
            options(k) == [a \in DOMAIN p.automata |-> OptionsInto(p, mc[k].dst, ac[a])]
            perm(k) == [ts_ind_option |-> k, automaton_set_ind_options |-> options(k)]
            perms == [k \in DOMAIN mc |-> perm(k)]
            good == {q \in Range(perms) : <<>> \notin Range(q.automaton_set_ind_options)}
            array == post(p, node)
            part(k) == Combine(mc[k], Picks(options(k)), ac)
            Open(k) == <<>> \notin Range(options(k))
            parts == [q \in DOMAIN array |-> Combine(mc[array[q].ts_ind_option], Picks(array[q].automaton_set_ind_options), ac)]
            T == LeavingOf(p, node)
<1>1. n \in Nat /\ DOMAIN p.automata = 1 .. n
  BY DEF IsProduct
<1>2. mv \in Seq(Range(mv)) /\ \A a \in 1 .. n : v[a] = p.automata[a].connections /\ v[a] \in Seq(Range(v[a]))
  BY <1>1, ProductGraphs DEF AutomatonConnections
<1>3. /\ mc = Among(mv, S0)
      /\ DOMAIN ac = 1 .. n
      /\ \A a \in 1 .. n : ac[a] = Among(v[a], D[a])
  BY <1>1, <1>2 DEF outgoing
<1>4. array = Among(perms, good)
  BY Zenon DEF post
<1>5. Outward(p, node, array) = FlattenSeq(parts)
  BY Zenon DEF Outward
<1>6. /\ T \in SUBSET TransitionsOf(p)
      /\ \A t \in TransitionsOf(p) :
              t \in T <=> /\ t.model \in {j \in DOMAIN mv : mv[j] \in S0}
                          /\ \A a \in DOMAIN p.automata : p.automata[a].connections[t.automata[a]] \in D[a]
  <2>1. AtNode(p, u, T)
    BY PartByPart
  <2>2. T \subseteq TransitionsOf(p)
    BY DEF LeavingOf
  <2>3. ASSUME NEW t \in TransitionsOf(p)
        PROVE  /\ mv[t.model].src = u[1] <=> t.model \in {j \in DOMAIN mv : mv[j] \in S0}
               /\ \A a \in DOMAIN p.automata :
                    p.automata[a].connections[t.automata[a]].src = u[a + 1]
                      <=> p.automata[a].connections[t.automata[a]] \in D[a]
    <3>1. /\ t.model \in DOMAIN mv
          /\ \A a \in DOMAIN p.automata : t.automata[a] \in DOMAIN p.automata[a].connections
      BY TransitionConnection
    <3>2. mv[t.model] \in Range(mv)
          /\ \A a \in DOMAIN p.automata : p.automata[a].connections[t.automata[a]] \in Range(p.automata[a].connections)
      BY <3>1 DEF Range
    <3>. HIDE DEF u, mv
    <3>. QED
      BY <3>1, <3>2
  <2>. HIDE DEF T, u, D, S0
  <2>. QED
    BY <2>1, <2>2, <2>3 DEF AtNode
<1>. HIDE DEF n, u, mc, ac, array, v, mv, T, D, S0
<1>7. PICK mb : NumbersAll(mb, DOMAIN mc, {j \in DOMAIN mv : mv[j] \in S0}) /\ \A k \in DOMAIN mc : mc[k] = mv[mb[k]]
  <2>. DEFINE J == {j \in DOMAIN mv : mv[j] \in S0}
  <2>1. Enumerates(mc, J, mv)
    BY <1>2, <1>3, AmongEnumerates
  <2>. HIDE DEF J
  <2>2. \E b : NumbersAll(b, DOMAIN mc, J) /\ \A k \in DOMAIN mc : mc[k] = mv[b[k]]
    BY <2>1 DEF Enumerates
  <2>. QED
    BY <2>2 DEF J
<1>8. \A k : perm(k).ts_ind_option = k /\ perm(k).automaton_set_ind_options = options(k)
  <2>. HIDE DEF options
  <2>. QED
    OBVIOUS
<1>9. mc \in Seq(Range(mv))
  BY <1>2, <1>3, AmongElements
<1>10. perms \in Seq(Range(perms)) /\ DOMAIN perms = DOMAIN mc /\ \A k \in DOMAIN mc : perms[k] = perm(k) /\ (perms[k] \in good <=> Open(k))
  <2>1. DOMAIN mc = 1 .. Len(mc) /\ Len(mc) \in Nat
    BY <1>9
  <2>2. perms \in Seq(Range(perms))
    <3>1. perms = [k \in DOMAIN perms |-> perms[k]] /\ DOMAIN perms = 1 .. Len(mc)
      BY <2>1
    <3>. HIDE DEF perms
    <3>2. perms \in [1 .. Len(mc) -> Range(perms)]
      BY <3>1 DEF Range
    <3>. QED
      BY <2>1, <3>2
  <2>3. DOMAIN perms = DOMAIN mc /\ \A k \in DOMAIN mc : perms[k] = perm(k)
    <3>. HIDE DEF perm
    <3>. QED
      OBVIOUS
  <2>4. ASSUME NEW k \in DOMAIN mc PROVE perms[k] \in good <=> Open(k)
    <3>1. perms[k] \in Range(perms) /\ perms[k].automaton_set_ind_options = options(k)
      <4>. HIDE DEF perms, perm, options
      <4>. QED
        BY <1>8, <2>3 DEF Range
    <3>. HIDE DEF perms, options
    <3>. QED
      BY <3>1
  <2>. HIDE DEF perms, good, perm, Open
  <2>. QED
    BY <2>2, <2>3, <2>4
<1>. HIDE DEF perms, good
<1>11. array \in Seq(Range(perms))
  BY <1>4, <1>10, AmongElements
<1>12. PICK ab : NumbersAll(ab, DOMAIN array, {k \in DOMAIN perms : perms[k] \in good}) /\ \A i \in DOMAIN array : array[i] = perms[ab[i]]
  <2>. DEFINE K == {k \in DOMAIN perms : perms[k] \in good}
  <2>1. Enumerates(array, K, perms)
    BY <1>4, <1>10, AmongEnumerates
  <2>. HIDE DEF K
  <2>2. \E b : NumbersAll(b, DOMAIN array, K) /\ \A i \in DOMAIN array : array[i] = perms[b[i]]
    BY <2>1 DEF Enumerates
  <2>. QED
    BY <2>2 DEF K
<1>13. ASSUME NEW k \in DOMAIN mc
       PROVE  IF Open(k) THEN /\ part(k) \in Seq(Range(part(k)))
                              /\ Enumerates(part(k), WaysInto(p, D, mb[k]), [f \in WaysInto(p, D, mb[k]) |-> Taken(n, v, mc[k], f)])
              ELSE WaysInto(p, D, mb[k]) = {}
  <2>. DEFINE opt == [a \in 1 .. n |-> OptionsInto(p, mc[k].dst, ac[a])]
              W == Takes(n, Ways(p, n, v, D, mc[k].dst))
              steps == Combine(mc[k], Picks(opt), ac)
  <2>1. StepsEnumerated(p, n, v, D, mc[k].dst, mc[k], ac)
    BY <1>1, <1>2, <1>3, StepsOnce
  <2>2. IF <<>> \in Range(opt) THEN W = {}
        ELSE steps \in Seq(Range(steps)) /\ Enumerates(steps, W, [f \in W |-> Taken(n, v, mc[k], f)])
    BY <2>1, Zenon DEF StepsEnumerated
  <2>3. opt = options(k) /\ steps = part(k)
    <3>1. opt = options(k)
      BY <1>1
    <3>. HIDE DEF opt, options
    <3>. QED
      BY <3>1
  <2>4. W = WaysInto(p, D, mb[k])
    BY <1>7 DEF WaysInto, n, v, mv
  <2>5. Open(k) <=> <<>> \notin Range(opt)
    <3>. HIDE DEF opt, options
    <3>. QED
      BY <2>3
  <2>. HIDE DEF opt, W, steps, part, options, Open
  <2>. QED
    BY <2>2, <2>3, <2>4, <2>5
<1>14. ASSUME NEW i \in DOMAIN array
       PROVE  ab[i] \in DOMAIN mc /\ Open(ab[i]) /\ parts[i] = part(ab[i]) /\ mb[ab[i]] \in DOMAIN mv /\ mv[mb[ab[i]]] \in S0
              /\ mc[ab[i]] = mv[mb[ab[i]]]
  <2>1. ab[i] \in DOMAIN mc /\ perms[ab[i]] \in good
    BY <1>10, <1>12 DEF NumbersAll
  <2>2. Open(ab[i]) /\ array[i] = perm(ab[i])
    <3>. HIDE DEF Open, perm
    <3>. QED
      BY <1>10, <1>12, <2>1
  <2>3. mb[ab[i]] \in DOMAIN mv /\ mv[mb[ab[i]]] \in S0 /\ mc[ab[i]] = mv[mb[ab[i]]]
    BY <1>7, <2>1 DEF NumbersAll
  <2>4. parts[i] = part(ab[i])
    <3>1. parts[i] = Combine(mc[array[i].ts_ind_option], Picks(array[i].automaton_set_ind_options), ac)
      OBVIOUS
    <3>. HIDE DEF parts, perm, options
    <3>. QED
      BY <1>8, <2>2, <3>1
  <2>. HIDE DEF parts, part, Open, perm
  <2>. QED
    BY <2>1, <2>2, <2>3, <2>4
<1>15. PICK l \in Nat : DOMAIN array = 1 .. l
  BY <1>11
<1>16. parts = [i \in 1 .. l |-> parts[i]]
  BY <1>15
<1>. HIDE DEF parts, part, Open, options, perm
<1>. DEFINE at == [i \in 1 .. l |-> mb[ab[i]]]
            J == {j \in DOMAIN mv : mv[j] \in S0}
<1>17. \A i \in 1 .. l : at[i] = mb[ab[i]] /\ at[i] \in J /\ at[i] \in DOMAIN mv
  BY <1>14, <1>15
<1>18. \A i, k \in 1 .. l : at[i] = at[k] => i = k
  <2>1. ASSUME NEW i \in 1 .. l, NEW k \in 1 .. l, mb[ab[i]] = mb[ab[k]] PROVE i = k
    <3>1. ab[i] = ab[k]
      BY <1>7, <1>14, <1>15, <2>1 DEF NumbersAll
    <3>. QED
      BY <1>12, <1>15, <3>1 DEF NumbersAll
  <2>. HIDE DEF at
  <2>. QED
    BY <1>17, <2>1
<1>19. ASSUME NEW j \in J PROVE WaysInto(p, D, j) = {} \/ \E i \in 1 .. l : at[i] = j
  <2>1. PICK k \in DOMAIN mc : mb[k] = j
    BY <1>7 DEF NumbersAll
  <2>2. CASE Open(k)
    <3>1. perms[k] \in good /\ k \in DOMAIN perms
      BY <1>10, <2>1, <2>2
    <3>2. PICK i \in DOMAIN array : ab[i] = k
      BY <1>12, <3>1 DEF NumbersAll
    <3>. QED
      BY <1>15, <1>17, <2>1, <3>2
  <2>3. CASE ~Open(k)
    BY <1>13, <2>1, <2>3
  <2>. QED
    BY <2>2, <2>3
<1>20. ASSUME NEW i \in 1 .. l
       PROVE  /\ parts[i] \in Seq(Range(parts[i]))
              /\ Enumerates(parts[i], WaysInto(p, D, at[i]), [f \in WaysInto(p, D, at[i]) |-> Taken(n, v, mv[at[i]], f)])
  <2>. DEFINE k == ab[i]
  <2>1. k \in DOMAIN mc /\ Open(k) /\ parts[i] = part(k) /\ at[i] = mb[k] /\ mv[at[i]] = mc[k]
    BY <1>14, <1>15, <1>17
  <2>. HIDE DEF k, at
  <2>. QED
    BY <1>13, <2>1
<1>21. Enumerates(FlattenSeq(parts), T, [t \in T |-> ConnectionOf(p, t)])
  <2>. HIDE DEF at, J
  <2>1. \A i \in 1 .. l : Enumerates(parts[i], WaysInto(p, D, at[i]),
              [f \in WaysInto(p, D, at[i]) |->
                 Taken(Len(p.automata), AutomatonConnections(p), p.model.connections[at[i]], f)])
    BY <1>20 DEF n, v, mv
  <2>2. \A t \in TransitionsOf(p) :
              t \in T <=> t.model \in J /\ \A a \in DOMAIN p.automata : p.automata[a].connections[t.automata[a]] \in D[a]
    BY <1>6 DEF J
  <2>3. \A i \in 1 .. l : at[i] \in J /\ at[i] \in DOMAIN p.model.connections
    BY <1>17 DEF mv
  <2>4. \A j \in J : j \in DOMAIN p.model.connections => WaysInto(p, D, j) = {} \/ \E i \in 1 .. l : at[i] = j
    BY <1>19
  <2>5. IsAssembly(p, D, J, T, l, at, parts)
    BY <1>6, <1>16, <1>18, <1>20, <2>1, <2>2, <2>3, <2>4 DEF IsAssembly
  <2>. QED
    BY <2>5, Assembled
<1>. QED
  BY <1>5, <1>21 DEF array, T

\* What parents() and incomingEdges() list are the transitions that enter.
LEMMA InwardOnce ==
    ASSUME NEW p, IsProduct(p), NEW node \in WideNode(p)
    PROVE  Enumerates(Inward(p, node, pre(p, node)), EnteringOf(p, node),
                      [t \in EnteringOf(p, node) |-> ConnectionOf(p, t)])
<1>. DEFINE n == Len(p.automata)
            u == unwrap(p, node)
            mv == p.model.connections
            v == AutomatonConnections(p)
            S0 == {c \in Range(mv) : c.dst = u[1]}
            D == [a \in DOMAIN p.automata |-> {c \in Range(p.automata[a].connections) : c.dst = u[a + 1]}]
            mp == incoming(p.model, u[1])
            ap == [a \in DOMAIN p.automata |-> incoming(p.automata[a], u[a + 1])]
            opt == [a \in DOMAIN p.automata |-> OptionsInto(p, u[1], ap[a])]
            one == [ts_ind_option |-> Uninitialized, automaton_set_ind_options |-> opt]
            array == pre(p, node)
            parts == [k \in DOMAIN mp |-> Combine(mp[k], Picks(opt), ap)]
            T == EnteringOf(p, node)
<1>1. n \in Nat /\ DOMAIN p.automata = 1 .. n
  BY DEF IsProduct
<1>2. mv \in Seq(Range(mv)) /\ \A a \in 1 .. n : v[a] = p.automata[a].connections /\ v[a] \in Seq(Range(v[a]))
  BY <1>1, ProductGraphs DEF AutomatonConnections
<1>3. /\ mp = Among(mv, S0)
      /\ DOMAIN ap = 1 .. n
      /\ \A a \in 1 .. n : ap[a] = Among(v[a], D[a])
  BY <1>1, <1>2 DEF incoming
<1>4. array = IF <<>> \in Range(opt) THEN <<>> ELSE <<one>>
  <2>1. opt = [a \in DOMAIN p.automata |-> OptionsInto(p, u[1], incoming(p.automata[a], u[a + 1]))]
    OBVIOUS
  <2>. QED
    BY <2>1, Zenon DEF pre
<1>5. <<>> \notin Range(opt) => Inward(p, node, array) = FlattenSeq(parts)
  <2>. SUFFICES ASSUME <<>> \notin Range(opt) PROVE Inward(p, node, array) = FlattenSeq(parts)
    OBVIOUS
  <2>1. array = <<one>>
    BY <1>4, Zenon
  <2>2. <<one>> # <<>> /\ <<one>>[1] = one
    <3>. HIDE DEF one
    <3>. QED
      OBVIOUS
  <2>3. one.automaton_set_ind_options = opt
    <3>. HIDE DEF opt
    <3>. QED
      OBVIOUS
  <2>4. array # <<>> /\ array[1].automaton_set_ind_options = opt
    BY <2>1, <2>2, <2>3, Zenon
  <2>5. Inward(p, node, array) = FlattenSeq([k \in DOMAIN mp |-> Combine(mp[k], Picks(array[1].automaton_set_ind_options), ap)])
    <3>. HIDE DEF array
    <3>. QED
      BY <2>4, Zenon DEF Inward
  <2>. QED
    BY <2>4, <2>5, Zenon
<1>6. <<>> \in Range(opt) => Inward(p, node, array) = <<>>
  BY <1>4, Zenon DEF Inward
<1>7. /\ T \in SUBSET TransitionsOf(p)
      /\ \A t \in TransitionsOf(p) :
              t \in T <=> /\ t.model \in {j \in DOMAIN mv : mv[j] \in S0}
                          /\ \A a \in DOMAIN p.automata : p.automata[a].connections[t.automata[a]] \in D[a]
  <2>1. IntoNode(p, u, T)
    BY PartByPart
  <2>2. T \subseteq TransitionsOf(p)
    BY DEF EnteringOf
  <2>3. ASSUME NEW t \in TransitionsOf(p)
        PROVE  /\ mv[t.model].dst = u[1] <=> t.model \in {j \in DOMAIN mv : mv[j] \in S0}
               /\ \A a \in DOMAIN p.automata :
                    p.automata[a].connections[t.automata[a]].dst = u[a + 1]
                      <=> p.automata[a].connections[t.automata[a]] \in D[a]
    <3>1. /\ t.model \in DOMAIN mv
          /\ \A a \in DOMAIN p.automata : t.automata[a] \in DOMAIN p.automata[a].connections
      BY TransitionConnection
    <3>2. mv[t.model] \in Range(mv)
          /\ \A a \in DOMAIN p.automata : p.automata[a].connections[t.automata[a]] \in Range(p.automata[a].connections)
      BY <3>1 DEF Range
    <3>. HIDE DEF u, mv
    <3>. QED
      BY <3>1, <3>2
  <2>. HIDE DEF T, u, D, S0
  <2>. QED
    BY <2>1, <2>2, <2>3 DEF IntoNode
<1>8. \A c \in S0 : c.dst = u[1]
  OBVIOUS
<1>. HIDE DEF n, u, mp, ap, array, v, mv, T, D, S0
<1>9. PICK mb : NumbersAll(mb, DOMAIN mp, {j \in DOMAIN mv : mv[j] \in S0}) /\ \A k \in DOMAIN mp : mp[k] = mv[mb[k]]
  <2>. DEFINE J == {j \in DOMAIN mv : mv[j] \in S0}
  <2>1. Enumerates(mp, J, mv)
    BY <1>2, <1>3, AmongEnumerates
  <2>. HIDE DEF J
  <2>2. \E b : NumbersAll(b, DOMAIN mp, J) /\ \A k \in DOMAIN mp : mp[k] = mv[b[k]]
    BY <2>1 DEF Enumerates
  <2>. QED
    BY <2>2 DEF J
<1>10. mp \in Seq(Range(mv))
  BY <1>2, <1>3, AmongElements
<1>11. ASSUME NEW k \in DOMAIN mp
       PROVE  /\ mb[k] \in DOMAIN mv /\ mv[mb[k]] \in S0 /\ mp[k] = mv[mb[k]]
              /\ IF <<>> \notin Range(opt)
                   THEN /\ parts[k] \in Seq(Range(parts[k]))
                        /\ Enumerates(parts[k], WaysInto(p, D, mb[k]), [f \in WaysInto(p, D, mb[k]) |-> Taken(n, v, mp[k], f)])
                   ELSE WaysInto(p, D, mb[k]) = {}
  <2>. DEFINE o == [a \in 1 .. n |-> OptionsInto(p, u[1], ap[a])]
              W == Takes(n, Ways(p, n, v, D, u[1]))
              steps == Combine(mp[k], Picks(o), ap)
  <2>1. StepsEnumerated(p, n, v, D, u[1], mp[k], ap)
    BY <1>1, <1>2, <1>3, StepsOnce
  <2>2. IF <<>> \in Range(o) THEN W = {}
        ELSE steps \in Seq(Range(steps)) /\ Enumerates(steps, W, [f \in W |-> Taken(n, v, mp[k], f)])
    BY <2>1, Zenon DEF StepsEnumerated
  <2>3. o = opt /\ steps = parts[k]
    <3>1. o = opt
      BY <1>1
    <3>. HIDE DEF o, opt
    <3>. QED
      BY <3>1
  <2>4. mb[k] \in DOMAIN mv /\ mv[mb[k]] \in S0 /\ mp[k] = mv[mb[k]]
    BY <1>9 DEF NumbersAll
  <2>5. W = WaysInto(p, D, mb[k])
    <3>1. mv[mb[k]].dst = u[1]
      BY <1>8, <2>4
    <3>. QED
      BY <3>1 DEF WaysInto, n, v, mv
  <2>. HIDE DEF o, W, steps, opt, parts
  <2>. QED
    BY <2>2, <2>3, <2>4, <2>5
<1>12. PICK l \in Nat : DOMAIN mp = 1 .. l
  BY <1>10
<1>13. parts = [i \in 1 .. l |-> parts[i]]
  BY <1>12
<1>. HIDE DEF parts, opt
<1>. DEFINE J == {j \in DOMAIN mv : mv[j] \in S0}
<1>14. \A i \in 1 .. l : mb[i] \in J /\ mb[i] \in DOMAIN p.model.connections
  BY <1>11, <1>12 DEF mv
<1>15. \A i, k \in 1 .. l : mb[i] = mb[k] => i = k
  BY <1>9, <1>12 DEF NumbersAll
<1>16. \A j \in J : \E i \in 1 .. l : mb[i] = j
  BY <1>9, <1>12 DEF NumbersAll
<1>17. \A t \in TransitionsOf(p) :
              t \in T <=> t.model \in J /\ \A a \in DOMAIN p.automata : p.automata[a].connections[t.automata[a]] \in D[a]
  BY <1>7
<1>. HIDE DEF J
<1>18. CASE <<>> \notin Range(opt)
  <2>1. \A i \in 1 .. l : /\ parts[i] \in Seq(Range(parts[i]))
                          /\ Enumerates(parts[i], WaysInto(p, D, mb[i]), [f \in WaysInto(p, D, mb[i]) |-> Taken(n, v, mv[mb[i]], f)])
    BY <1>11, <1>12, <1>18
  <2>2. \A i \in 1 .. l : Enumerates(parts[i], WaysInto(p, D, mb[i]),
              [f \in WaysInto(p, D, mb[i]) |->
                 Taken(Len(p.automata), AutomatonConnections(p), p.model.connections[mb[i]], f)])
    BY <2>1 DEF n, v, mv
  <2>3. Enumerates(FlattenSeq(parts), T, [t \in T |-> ConnectionOf(p, t)])
    <3>1. IsAssembly(p, D, J, T, l, mb, parts)
      BY <1>7, <1>13, <1>14, <1>15, <1>16, <1>17, <2>1, <2>2 DEF IsAssembly
    <3>. QED
      BY <3>1, Assembled
  <2>. QED
    BY <1>5, <1>18, <2>3 DEF array, T
<1>19. CASE <<>> \in Range(opt)
  <2>1. T = {}
    <3>. SUFFICES ASSUME NEW t \in T PROVE FALSE
      OBVIOUS
    <3>1. t \in TransitionsOf(p) /\ t.model \in J
          /\ \A a \in DOMAIN p.automata : p.automata[a].connections[t.automata[a]] \in D[a]
      BY <1>7, <1>17
    <3>2. PICK i \in 1 .. l : mb[i] = t.model
      BY <1>16, <3>1
    <3>3. WaysInto(p, D, t.model) = {}
      BY <1>11, <1>12, <1>19, <3>2
    <3>4. t = [model |-> t.model, automata |-> t.automata] /\ t.model \in DOMAIN p.model.connections
      <4>1. PICK j \in DOMAIN p.model.connections,
                 f \in [DOMAIN p.automata -> UNION {DOMAIN p.automata[a].connections : a \in DOMAIN p.automata}] :
              t = [model |-> j, automata |-> f]
        BY <3>1, TransitionParts
      <4>. QED
        BY <4>1
    <3>5. t.automata \in WaysInto(p, D, t.model)
      BY <3>1, <3>4, WaysAreTransitions
    <3>. QED
      BY <3>3, <3>5
  <2>2. Inward(p, node, pre(p, node)) = <<>>
    BY <1>6, <1>19 DEF array
  <2>3. NumbersAll(<<>>, DOMAIN <<>>, {})
    BY DEF NumbersAll
  <2>. DEFINE g == [t \in T |-> ConnectionOf(p, t)]
  <2>4. Enumerates(<<>>, {}, g)
    <3>. HIDE DEF g
    <3>. QED
      BY <2>3 DEF Enumerates
  <2>. QED
    BY <2>1, <2>2, <2>4 DEF T
<1>. QED
  BY <1>18, <1>19

\* Every member of T is listed once: the list says of it what h does.
Listed(w, T, h) ==
    /\ Len(w) = Cardinality(T)
    /\ \A t \in T : Cardinality({k \in DOMAIN w : w[k] = h[t]}) = Cardinality({u \in T : h[u] = h[t]})

\* What is said of the entries of an enumeration.
LEMMA MappedOnce ==
    ASSUME NEW S, NEW s \in Seq(S), NEW T, NEW g, Enumerates(s, T, g),
           NEW w, w = [k \in DOMAIN s |-> w[k]],
           NEW h, \A k \in DOMAIN s : \A t \in T : s[k] = g[t] => w[k] = h[t]
    PROVE  Listed(w, T, h)
<1>1. PICK b : NumbersAll(b, DOMAIN s, T) /\ \A k \in DOMAIN s : s[k] = g[b[k]]
  BY DEF Enumerates
<1>2. DOMAIN w = DOMAIN s
  BY Zenon
<1>3. \A k \in DOMAIN w : w[k] = h[b[k]]
  BY <1>1, <1>2 DEF NumbersAll
<1>4. Enumerates(w, T, h)
  BY <1>1, <1>2, <1>3 DEF Enumerates
<1>5. w \in Seq(Range(w))
  <2>1. PICK l \in Nat : DOMAIN s = 1 .. l
    OBVIOUS
  <2>2. w = [k \in 1 .. l |-> w[k]]
    BY <2>1
  <2>3. w \in [1 .. l -> Range(w)]
    BY <2>2 DEF Range
  <2>. QED
    BY <2>3
<1>6. CountedOnce(w, T, h)
  BY <1>4, <1>5, EnumeratedOnce
<1>. QED
  BY <1>6 DEF CountedOnce, Listed

\* Of each entry some member of T is what both lists say.
Paired(w, x, T, h, i) ==
    /\ Len(w) = Len(x)
    /\ \A k \in DOMAIN w : \E t \in T : h[t] = w[k] /\ i[t] = x[k]

LEMMA MappedTogether ==
    ASSUME NEW S, NEW s \in Seq(S), NEW T, NEW g, Enumerates(s, T, g),
           NEW w, w = [k \in DOMAIN s |-> w[k]], NEW x, x = [k \in DOMAIN s |-> x[k]],
           NEW h, \A k \in DOMAIN s : \A t \in T : s[k] = g[t] => w[k] = h[t],
           NEW i, \A k \in DOMAIN s : \A t \in T : s[k] = g[t] => x[k] = i[t]
    PROVE  Paired(w, x, T, h, i)
<1>1. PICK b : NumbersAll(b, DOMAIN s, T) /\ \A k \in DOMAIN s : s[k] = g[b[k]]
  BY DEF Enumerates
<1>2. DOMAIN w = DOMAIN s /\ DOMAIN x = DOMAIN s
  BY Zenon
<1>3. \A k \in DOMAIN s : b[k] \in T /\ h[b[k]] = w[k] /\ i[b[k]] = x[k]
  BY <1>1 DEF NumbersAll
<1>4. Len(w) = Len(x)
  <2>1. PICK l \in Nat : DOMAIN s = 1 .. l
    OBVIOUS
  <2>. QED
    BY <1>2, <2>1
<1>. QED
  BY <1>2, <1>3, <1>4 DEF Paired

Destinations(p, T) == [t \in T |-> Destination(p, ConnectionOf(p, t))]
Sources(p, T) == [t \in T |-> Source(p, ConnectionOf(p, t))]
Edges(p, T) == [t \in T |-> Inherited(ConnectionOf(p, t))]

\* What the four operations list is what there is.
OutwardIsListed(p, node) ==
    LET T == LeavingOf(p, node)
        array == post(p, node)
    IN  /\ Listed(children(p, node, array), T, Destinations(p, T))
        /\ Listed(outgoingEdges(p, node, array), T, Edges(p, T))
        /\ Paired(children(p, node, array), outgoingEdges(p, node, array), T, Destinations(p, T), Edges(p, T))

LEMMA OutwardListed ==
    ASSUME NEW p, IsProduct(p), NEW node \in WideNode(p)
    PROVE  OutwardIsListed(p, node)
<1>. DEFINE T == LeavingOf(p, node)
            s == Outward(p, node, post(p, node))
            g == [t \in T |-> ConnectionOf(p, t)]
            w == children(p, node, post(p, node))
            x == outgoingEdges(p, node, post(p, node))
            h == Destinations(p, T)
            i == Edges(p, T)
<1>1. s \in Seq(Range(s))
  BY OutwardElements
<1>2. Enumerates(s, T, g)
  BY OutwardOnce
<1>3. w = [k \in DOMAIN s |-> Destination(p, s[k])] /\ x = [k \in DOMAIN s |-> Inherited(s[k])]
  BY Zenon DEF children, outgoingEdges, Mapped
<1>4. /\ \A t \in T : g[t] = ConnectionOf(p, t)
      /\ \A t \in T : h[t] = Destination(p, ConnectionOf(p, t))
      /\ \A t \in T : i[t] = Inherited(ConnectionOf(p, t))
  BY DEF Destinations, Edges
<1>. HIDE DEF T, s, g, w, x, h, i
<1>5. w = [k \in DOMAIN s |-> w[k]] /\ \A k \in DOMAIN s : w[k] = Destination(p, s[k])
  BY <1>3
<1>6. x = [k \in DOMAIN s |-> x[k]] /\ \A k \in DOMAIN s : x[k] = Inherited(s[k])
  BY <1>3
<1>7. /\ \A k \in DOMAIN s : \A t \in T : s[k] = g[t] => w[k] = h[t]
      /\ \A k \in DOMAIN s : \A t \in T : s[k] = g[t] => x[k] = i[t]
  BY <1>4, <1>5, <1>6
<1>8. Listed(w, T, h)
  BY <1>1, <1>2, <1>5, <1>7, MappedOnce
<1>9. Listed(x, T, i)
  BY <1>1, <1>2, <1>6, <1>7, MappedOnce
<1>10. Paired(w, x, T, h, i)
  BY <1>1, <1>2, <1>5, <1>6, <1>7, MappedTogether
<1>. QED
  BY <1>8, <1>9, <1>10 DEF OutwardIsListed, T, w, x, h, i

InwardIsListed(p, node) ==
    LET T == EnteringOf(p, node)
        array == pre(p, node)
    IN  /\ Listed(parents(p, node, array), T, Sources(p, T))
        /\ Listed(incomingEdges(p, node, array), T, Edges(p, T))
        /\ Paired(parents(p, node, array), incomingEdges(p, node, array), T, Sources(p, T), Edges(p, T))

LEMMA InwardListed ==
    ASSUME NEW p, IsProduct(p), NEW node \in WideNode(p)
    PROVE  InwardIsListed(p, node)
<1>. DEFINE T == EnteringOf(p, node)
            s == Inward(p, node, pre(p, node))
            g == [t \in T |-> ConnectionOf(p, t)]
            w == parents(p, node, pre(p, node))
            x == incomingEdges(p, node, pre(p, node))
            h == Sources(p, T)
            i == Edges(p, T)
<1>1. s \in Seq(Range(s))
  BY InwardElements
<1>2. Enumerates(s, T, g)
  BY InwardOnce
<1>3. w = [k \in DOMAIN s |-> Source(p, s[k])] /\ x = [k \in DOMAIN s |-> Inherited(s[k])]
  BY Zenon DEF parents, incomingEdges, Mapped
<1>4. /\ \A t \in T : g[t] = ConnectionOf(p, t)
      /\ \A t \in T : h[t] = Source(p, ConnectionOf(p, t))
      /\ \A t \in T : i[t] = Inherited(ConnectionOf(p, t))
  BY DEF Sources, Edges
<1>. HIDE DEF T, s, g, w, x, h, i
<1>5. w = [k \in DOMAIN s |-> w[k]] /\ \A k \in DOMAIN s : w[k] = Source(p, s[k])
  BY <1>3
<1>6. x = [k \in DOMAIN s |-> x[k]] /\ \A k \in DOMAIN s : x[k] = Inherited(s[k])
  BY <1>3
<1>7. /\ \A k \in DOMAIN s : \A t \in T : s[k] = g[t] => w[k] = h[t]
      /\ \A k \in DOMAIN s : \A t \in T : s[k] = g[t] => x[k] = i[t]
  BY <1>4, <1>5, <1>6
<1>8. Listed(w, T, h)
  BY <1>1, <1>2, <1>5, <1>7, MappedOnce
<1>9. Listed(x, T, i)
  BY <1>1, <1>2, <1>6, <1>7, MappedOnce
<1>10. Paired(w, x, T, h, i)
  BY <1>1, <1>2, <1>5, <1>6, <1>7, MappedTogether
<1>. QED
  BY <1>8, <1>9, <1>10 DEF InwardIsListed, T, w, x, h, i

-----------------------------------------------------------------------------
(***************************************************************************)
(* What a step does, whichever operation is called.                        *)
(***************************************************************************)

\* A step of an operation looks up or makes one cache element and touches
\* neither the product nor its clients.
LEMMA StepFacts ==
    ASSUME Next
    PROVE  \E op \in uses, node \in WideNode(product) : \E made \in {post(product, node), pre(product, node)} :
              /\ m_cache' = IF has(node) THEN m_cache ELSE make(node, made)
              /\ UNCHANGED <<product, max_size, uses>>
              /\ status' \in {"running", "assertion failed", "undefined"}
              /\ last' = last \/ (last'.op = op /\ last'.node = node)
<1>1. PICK node \in WideNode(product) :
         Children(node) \/ OutgoingEdges(node) \/ Parents(node) \/ IncomingEdges(node)
  BY DEF Next
<1>2. CASE Children(node)
  BY <1>2 DEF Children, Serve, OutwardStatus
<1>3. CASE OutgoingEdges(node)
  BY <1>3 DEF OutgoingEdges, Serve, OutwardStatus
<1>4. CASE Parents(node)
  BY <1>4 DEF Parents, Serve, InwardStatus
<1>5. CASE IncomingEdges(node)
  BY <1>5 DEF IncomingEdges, Serve, InwardStatus
<1>. QED
  BY <1>1, <1>2, <1>3, <1>4, <1>5

\* make() adds the node's element and at most drops another one.
LEMMA MakeFacts ==
    ASSUME NEW node, NEW made
    PROVE  /\ node \in DOMAIN make(node, made)
           /\ DOMAIN make(node, made) \subseteq DOMAIN m_cache \cup {node}
           /\ make(node, made)[node] = made
           /\ \A k \in DOMAIN make(node, made) \ {node} :
                 /\ k \in DOMAIN m_cache
                 /\ make(node, made)[k] = m_cache[k]
<1>. DEFINE least == CHOOSE k \in DOMAIN m_cache : \A o \in DOMAIN m_cache : k <= o
            kept == IF Cardinality(DOMAIN m_cache) >= max_size
                      THEN Restrict(m_cache, DOMAIN m_cache \ {least}) ELSE m_cache
<1>1. make(node, made) = Extend(kept, node, made)
  BY DEF make, key
<1>2. /\ DOMAIN kept \subseteq DOMAIN m_cache
      /\ \A k \in DOMAIN kept : kept[k] = m_cache[k]
  BY DEF Restrict
<1>. HIDE DEF kept
<1>. QED
  BY <1>1, <1>2 DEF Extend

-----------------------------------------------------------------------------
(***************************************************************************)
(* Type correctness.  That the cache keeps to its size takes its being a   *)
(* finite set.                                                             *)
(***************************************************************************)
CacheFinite == IsFiniteSet(DOMAIN m_cache)

\* When an element is made in a full cache, the least one leaves it.
LEMMA MakeKeepsSize ==
    ASSUME TypeOK, CacheFinite, NEW node \in WideNode(product), NEW made, ~ has(node)
    PROVE  /\ IsFiniteSet(DOMAIN make(node, made))
           /\ Cardinality(DOMAIN make(node, made)) <= max_size
<1>. DEFINE D == DOMAIN m_cache
            least == CHOOSE k \in D : \A o \in D : k <= o
<1>1. /\ max_size \in Nat /\ max_size > 0
      /\ D \in SUBSET Nat
      /\ IsFiniteSet(D)
      /\ Cardinality(D) \in Nat
      /\ Cardinality(D) <= max_size
      /\ node \notin D
  <2>1. max_size \in Nat /\ max_size > 0
    <3>1. max_size \in Nat \ {0}
      BY CacheSizesAssumption, Zenon DEF TypeOK
    <3>. QED
      BY <3>1
  <2>2. D \in SUBSET Nat
    <3>. DEFINE size == Times(m_graph_sizes(product))
    <3>1. size \in Nat
      BY ProductAssumption, Zenon DEF TypeOK, IsProduct
    <3>2. D \subseteq 0 .. size - 1
      BY Zenon DEF TypeOK, WideNode
    <3>. HIDE DEF size
    <3>. QED
      BY <3>1, <3>2
  <2>3. IsFiniteSet(D) /\ Cardinality(D) \in Nat /\ Cardinality(D) <= max_size
    BY FS_CardinalityType, Zenon DEF TypeOK, CacheFinite
  <2>. QED
    BY <2>1, <2>2, <2>3 DEF has, key
<1>2. CASE Cardinality(D) >= max_size
  <2>1. D # {}
    BY <1>1, <1>2, FS_EmptySet
  <2>2. least \in D
    BY <1>1, <2>1, LeastKey
  <2>3. DOMAIN make(node, made) = (D \ {least}) \cup {node}
    BY <1>2 DEF make, Extend, key, Restrict
  <2>4. IsFiniteSet(D \ {least}) /\ Cardinality(D \ {least}) = Cardinality(D) - 1
    BY <1>1, <2>2, FS_RemoveElement
  <2>5. /\ IsFiniteSet((D \ {least}) \cup {node})
        /\ Cardinality((D \ {least}) \cup {node}) = Cardinality(D \ {least}) + 1
    BY <1>1, <2>4, FS_AddElement
  <2>. QED
    BY <1>1, <2>3, <2>4, <2>5
<1>3. CASE ~ (Cardinality(D) >= max_size)
  <2>1. DOMAIN make(node, made) = D \cup {node}
    BY <1>3 DEF make, Extend, key
  <2>2. IsFiniteSet(D \cup {node}) /\ Cardinality(D \cup {node}) = Cardinality(D) + 1
    BY <1>1, FS_AddElement
  <2>. QED
    BY <1>1, <1>3, <2>1, <2>2
<1>. QED
  BY <1>2, <1>3

\* The type invariant holds at first.
LEMMA InitTypeOK == Init => TypeOK /\ CacheFinite
<1>. SUFFICES ASSUME Init PROVE TypeOK /\ CacheFinite
  OBVIOUS
<1>1. DOMAIN m_cache = {}
  BY DEF Init
<1>2. IsFiniteSet({}) /\ Cardinality({}) = 0
  BY FS_EmptySet
<1>3. max_size \in Nat /\ 0 <= max_size
  BY CacheSizesAssumption DEF Init
<1>. QED
  BY <1>1, <1>2, <1>3 DEF Init, TypeOK, CacheFinite

\* And every step keeps it.
LEMMA NextTypeOK == TypeOK /\ CacheFinite /\ [Next]_vars => (TypeOK /\ CacheFinite)'
<1>. SUFFICES ASSUME TypeOK, CacheFinite, [Next]_vars PROVE (TypeOK /\ CacheFinite)'
  OBVIOUS
<1>1. CASE Next
  <2>1. PICK op \in uses, node \in WideNode(product) : \E made \in {post(product, node), pre(product, node)} :
           /\ m_cache' = IF has(node) THEN m_cache ELSE make(node, made)
           /\ UNCHANGED <<product, max_size, uses>>
           /\ status' \in {"running", "assertion failed", "undefined"}
           /\ last' = last \/ (last'.op = op /\ last'.node = node)
    BY <1>1, StepFacts
  <2>2. /\ DOMAIN m_cache' \subseteq WideNode(product)
        /\ IsFiniteSet(DOMAIN m_cache')
        /\ Cardinality(DOMAIN m_cache') <= max_size
    <3>1. CASE has(node)
      BY <2>1, <3>1 DEF TypeOK, CacheFinite
    <3>2. CASE ~ has(node)
      BY <2>1, <3>2, MakeFacts, MakeKeepsSize DEF TypeOK
    <3>. QED
      BY <3>1, <3>2
  <2>3. /\ last'.op \in uses \cup {"none"}
        /\ last'.op # "none" => last'.node \in WideNode(product)
    BY <2>1 DEF TypeOK
  <2>4. WideNode(product)' = WideNode(product)
    BY <2>1
  <2>. QED
    BY <2>1, <2>2, <2>3, <2>4 DEF TypeOK, CacheFinite
<1>2. CASE UNCHANGED vars
  BY <1>2 DEF vars, TypeOK, CacheFinite
<1>. QED
  BY <1>1, <1>2

\* Every variable keeps its type, and the cache never outgrows cache_size,
\* whatever its clients ask (SymbolicCache::make).
THEOREM TypeCorrect == Spec => []TypeOK
<1>1. Spec => [](TypeOK /\ CacheFinite)
  BY InitTypeOK, NextTypeOK, PTL DEF Spec
<1>. QED
  BY <1>1, PTL

-----------------------------------------------------------------------------
(***************************************************************************)
(* The cache is faithful: an element holds what would be found out about   *)
(* its node now.  It takes clients that go one way, as those in the code   *)
(* do; the key of an element does not tell which way it is for.            *)
(***************************************************************************)
OneDirection ==
    \A u \in Uses : \/ u \subseteq {"children", "outgoingEdges"}
                    \/ u \subseteq {"parents", "incomingEdges"}

CacheFaithful ==
    \A node \in DOMAIN m_cache :
        /\ uses \cap {"children", "outgoingEdges"} # {} => m_cache[node] = post(product, node)
        /\ uses \cap {"parents", "incomingEdges"} # {} => m_cache[node] = pre(product, node)

IInv == uses \in Uses /\ CacheFaithful /\ AssertionHolds

\* A faithful cache retrieves what would be made.
LEMMA RetrievedFacts ==
    ASSUME CacheFaithful, NEW node
    PROVE  /\ uses \cap {"children", "outgoingEdges"} # {} =>
                 Retrieved(node, post(product, node)) = post(product, node)
           /\ uses \cap {"parents", "incomingEdges"} # {} =>
                 Retrieved(node, pre(product, node)) = pre(product, node)
BY DEF CacheFaithful, Retrieved, has, key

\* pre() finds one permutation or none.
LEMMA PreIsShort ==
    ASSUME NEW p, NEW node
    PROVE  ~ (Len(pre(p, node)) > 1)
<1>. DEFINE options == [a \in DOMAIN p.automata |->
                          OptionsInto(p, unwrap(p, node)[1],
                                      incoming(p.automata[a], unwrap(p, node)[a + 1]))]
            one == [ts_ind_option |-> Uninitialized, automaton_set_ind_options |-> options]
<1>1. pre(p, node) = IF <<>> \in Range(options) THEN <<>> ELSE <<one>>
  BY DEF pre
<1>2. Len(<<>>) = 0
  OBVIOUS
<1>3. Len(<<one>>) = 1
  OBVIOUS
<1>. QED
  BY <1>1, <1>2, <1>3

\* Every step keeps the cache faithful.
LEMMA NextIInv == OneDirection /\ IInv /\ [Next]_vars => IInv'
<1>. SUFFICES ASSUME OneDirection, IInv, [Next]_vars PROVE IInv'
  OBVIOUS
<1>. USE DEF IInv
<1>1. CASE Next
  <2>1. PICK node \in WideNode(product) :
           Children(node) \/ OutgoingEdges(node) \/ Parents(node) \/ IncomingEdges(node)
    BY <1>1 DEF Next
  <2>2. /\ UNCHANGED <<product, max_size, uses>>
        /\ \/ /\ uses \cap {"children", "outgoingEdges"} # {}
              /\ m_cache' = IF has(node) THEN m_cache ELSE make(node, post(product, node))
              /\ status' = OutwardStatus(node, Retrieved(node, post(product, node)))
           \/ /\ uses \cap {"parents", "incomingEdges"} # {}
              /\ m_cache' = IF has(node) THEN m_cache ELSE make(node, pre(product, node))
              /\ status' = InwardStatus(node, Retrieved(node, pre(product, node)))
    <3>1. CASE Children(node)
      BY <3>1 DEF Children, Serve
    <3>2. CASE OutgoingEdges(node)
      BY <3>2 DEF OutgoingEdges, Serve
    <3>3. CASE Parents(node)
      BY <3>3 DEF Parents, Serve
    <3>4. CASE IncomingEdges(node)
      BY <3>4 DEF IncomingEdges, Serve
    <3>. QED
      BY <2>1, <3>1, <3>2, <3>3, <3>4
  <2>3. ~ (uses \cap {"children", "outgoingEdges"} # {} /\ uses \cap {"parents", "incomingEdges"} # {})
    BY DEF OneDirection
  <2>4. AssertionHolds'
    <3>1. OutwardStatus(node, Retrieved(node, post(product, node))) # "assertion failed"
      BY DEF OutwardStatus
    <3>2. uses \cap {"parents", "incomingEdges"} # {} =>
             InwardStatus(node, Retrieved(node, pre(product, node))) # "assertion failed"
      BY RetrievedFacts, PreIsShort DEF InwardStatus
    <3>. QED
      BY <2>2, <3>1, <3>2 DEF AssertionHolds
  <2>5. CacheFaithful'
    <3>1. CASE has(node)
      BY <2>2, <3>1 DEF CacheFaithful
    <3>2. CASE ~ has(node)
      BY <2>2, <2>3, <3>2, MakeFacts DEF CacheFaithful
    <3>. QED
      BY <3>1, <3>2
  <2>. QED
    BY <2>2, <2>4, <2>5
<1>2. CASE UNCHANGED vars
  BY <1>2 DEF vars, CacheFaithful, AssertionHolds
<1>. QED
  BY <1>1, <1>2

\* An empty cache is faithful.
LEMMA InitIInv == Init => IInv
BY DEF Init, IInv, CacheFaithful, AssertionHolds

\* The ASSERT of parents() and incomingEdges() never fails in a product whose
\* clients go one way.
THEOREM AssertionNeverFails ==
    ASSUME OneDirection
    PROVE  Spec => []AssertionHolds
<1>1. IInv /\ [Next]_vars => IInv'
  BY NextIInv
<1>2. IInv => AssertionHolds
  BY DEF IInv
<1>. QED
  BY InitIInv, <1>1, <1>2, PTL DEF Spec

-----------------------------------------------------------------------------
(***************************************************************************)
(* Refinement.                                                             *)
(***************************************************************************)

\* A question is answered as the built product answers it, or ends the program.
LEMMA StepImplements ==
    ASSUME IInv, Next
    PROVE  Uncached!Next \/ UNCHANGED <<product, last>>
<1>1. PICK node \in WideNode(product) :
         Children(node) \/ OutgoingEdges(node) \/ Parents(node) \/ IncomingEdges(node)
  BY DEF Next
<1>2. SUFFICES ASSUME last' # last
               PROVE  \E op \in {"children", "outgoingEdges", "parents", "incomingEdges"} :
                         Uncached!Ask(op, node)
  <2>1. UNCHANGED product
    BY StepFacts
  <2>. QED
    BY <1>1, <1>2, <2>1 DEF Uncached!Next
<1>. USE DEF IInv, Uncached!Ask, AnswerOf
<1>3. CASE Children(node)
  <2>1. Retrieved(node, post(product, node)) = post(product, node)
    BY <1>3, RetrievedFacts DEF Children, Serve
  <2>. QED
    BY <1>2, <1>3, <2>1 DEF Children, Serve
<1>4. CASE OutgoingEdges(node)
  <2>1. Retrieved(node, post(product, node)) = post(product, node)
    BY <1>4, RetrievedFacts DEF OutgoingEdges, Serve
  <2>. QED
    BY <1>2, <1>4, <2>1 DEF OutgoingEdges, Serve
<1>5. CASE Parents(node)
  <2>1. Retrieved(node, pre(product, node)) = pre(product, node)
    BY <1>5, RetrievedFacts DEF Parents, Serve
  <2>. QED
    BY <1>2, <1>5, <2>1 DEF Parents, Serve
<1>6. CASE IncomingEdges(node)
  <2>1. Retrieved(node, pre(product, node)) = pre(product, node)
    BY <1>6, RetrievedFacts DEF IncomingEdges, Serve
  <2>. QED
    BY <1>2, <1>6, <2>1 DEF IncomingEdges, Serve
<1>. QED
  BY <1>1, <1>3, <1>4, <1>5, <1>6

\* A product whose clients go one way answers as if it were built: neither the
\* order of the questions nor what the cache erases can be told from outside.
THEOREM Refinement ==
    ASSUME OneDirection
    PROVE  Spec => ImplementsProductGraph
<1>1. Init => Uncached!Init
  BY DEF Init, Uncached!Init
<1>2. IInv /\ [Next]_vars => IInv'
  BY NextIInv
<1>3. IInv /\ [Next]_vars => [Uncached!Next]_<<product, last>>
  BY StepImplements DEF vars
<1>. QED
  BY InitIInv, <1>1, <1>2, <1>3, PTL DEF Spec, ImplementsProductGraph, Uncached!Spec

-----------------------------------------------------------------------------
(***************************************************************************)
(* What was answered last is what the operation answers without a cache.   *)
(***************************************************************************)
AnswerIsOwn ==
    \/ last.op = "none" /\ last.answer = <<>>
    \/ /\ last.op \in {"children", "outgoingEdges", "parents", "incomingEdges"}
       /\ last.node \in WideNode(product)
       /\ last.answer = AnswerOf(product, last.op, last.node)

NumberingInv == IInv /\ product \in Products /\ AnswerIsOwn

\* Every step answers as without a cache.
LEMMA NextNumberingInv == OneDirection /\ NumberingInv /\ [Next]_vars => NumberingInv'
<1>. SUFFICES ASSUME OneDirection, NumberingInv, [Next]_vars PROVE NumberingInv'
  OBVIOUS
<1>1. IInv /\ product \in Products /\ AnswerIsOwn /\ IInv'
  BY NextIInv DEF NumberingInv
<1>2. CASE UNCHANGED vars
  BY <1>1, <1>2 DEF vars, NumberingInv, AnswerIsOwn
<1>3. CASE Next
  <2>1. product' = product
    BY <1>3, StepFacts
  <2>2. PICK node \in WideNode(product) :
           Children(node) \/ OutgoingEdges(node) \/ Parents(node) \/ IncomingEdges(node)
    BY <1>3 DEF Next
  <2>3. \/ last' = last
        \/ \E op \in {"children", "outgoingEdges", "parents", "incomingEdges"} :
              last' = [op |-> op, node |-> node, answer |-> AnswerOf(product, op, node)]
    <3>. USE DEF IInv, AnswerOf
    <3>1. CASE Children(node)
      <4>1. Retrieved(node, post(product, node)) = post(product, node)
        BY <1>1, <3>1, RetrievedFacts DEF Children, Serve
      <4>. QED
        BY <3>1, <4>1 DEF Children, Serve
    <3>2. CASE OutgoingEdges(node)
      <4>1. Retrieved(node, post(product, node)) = post(product, node)
        BY <1>1, <3>2, RetrievedFacts DEF OutgoingEdges, Serve
      <4>. QED
        BY <3>2, <4>1 DEF OutgoingEdges, Serve
    <3>3. CASE Parents(node)
      <4>1. Retrieved(node, pre(product, node)) = pre(product, node)
        BY <1>1, <3>3, RetrievedFacts DEF Parents, Serve
      <4>. QED
        BY <3>3, <4>1 DEF Parents, Serve
    <3>4. CASE IncomingEdges(node)
      <4>1. Retrieved(node, pre(product, node)) = pre(product, node)
        BY <1>1, <3>4, RetrievedFacts DEF IncomingEdges, Serve
      <4>. QED
        BY <3>4, <4>1 DEF IncomingEdges, Serve
    <3>. QED
      BY <2>2, <3>1, <3>2, <3>3, <3>4
  <2>4. AnswerIsOwn'
    <3>1. CASE last' = last
      BY <1>1, <2>1, <3>1 DEF AnswerIsOwn
    <3>2. ASSUME NEW op \in {"children", "outgoingEdges", "parents", "incomingEdges"}, last' = [op |-> op, node |-> node, answer |-> AnswerOf(product, op, node)]
          PROVE  AnswerIsOwn'
      BY <2>1, <3>2 DEF AnswerIsOwn
    <3>. QED
      BY <2>3, <3>1, <3>2
  <2>. QED
    BY <1>1, <2>1, <2>4 DEF NumberingInv
<1>. QED
  BY <1>2, <1>3

\* So the numbers of its answers agree.
LEMMA NumberingInvGivesIt == NumberingInv => NumberingAgrees
<1>. SUFFICES ASSUME NumberingInv PROVE NumberingAgrees
  OBVIOUS
<1>1. IsProduct(product)
  BY ProductAssumption DEF NumberingInv
<1>2. InitNodesAgree
  BY <1>1, InitNodes DEF InitNodesAgree
<1>3. AcceptanceAgrees
  BY <1>1, AcceptingNodes DEF AcceptanceAgrees
<1>4. ProjectionFollows
  <2>. SUFFICES ASSUME last.op \in {"children", "parents"}, NEW onto \in Ontos
                PROVE  LET p == Onto(product, onto)
                           node == project(product, onto, last.node)
                           there == IF last.op = "children" THEN children(p, node, post(p, node))
                                                            ELSE parents(p, node, pre(p, node))
                       IN  \A k \in DOMAIN last.answer : project(product, onto, last.answer[k]) \in Range(there)
    BY Zenon DEF ProjectionFollows
  <2>1. IsOnto(product, onto)
    <3>1. PICK k \in 1 .. Len(product.automata) - 1 : onto \in [1 .. k -> DOMAIN product.automata]
      BY DEF Ontos
    <3>2. Len(product.automata) \in Nat
      BY <1>1 DEF IsProduct
    <3>3. k \in Nat \ {0}
      BY <3>1, <3>2
    <3>. QED
      BY <3>1, <3>3 DEF IsOnto
  <2>2. last.node \in WideNode(product) /\ last.answer = AnswerOf(product, last.op, last.node)
    BY DEF NumberingInv, AnswerIsOwn
  <2>3. CASE last.op = "children"
    <3>1. last.answer = children(product, last.node, post(product, last.node))
      BY <2>2, <2>3 DEF AnswerOf
    <3>. DEFINE p == Onto(product, onto)
                node == project(product, onto, last.node)
    <3>2. \A k \in DOMAIN last.answer :
             project(product, onto, last.answer[k]) \in Range(children(p, node, post(p, node)))
      BY <1>1, <2>1, <2>2, <3>1, ChildrenFollow
    <3>. QED
      BY <2>3, <3>2
  <2>4. CASE last.op = "parents"
    <3>1. last.answer = parents(product, last.node, pre(product, last.node))
      BY <2>2, <2>4 DEF AnswerOf
    <3>. DEFINE p == Onto(product, onto)
                node == project(product, onto, last.node)
    <3>2. \A k \in DOMAIN last.answer :
             project(product, onto, last.answer[k]) \in Range(parents(p, node, pre(p, node)))
      BY <1>1, <2>1, <2>2, <3>1, ParentsFollow
    <3>. QED
      BY <2>4, <3>2
  <2>. QED
    BY <2>3, <2>4
<1>. QED
  BY <1>2, <1>3, <1>4 DEF NumberingAgrees

\* In a product whose clients go one way the numbers of the nodes mean the same
\* wherever they are put together and taken apart: neighbors are projected onto
\* neighbors, and the initial and the accepting nodes that are enumerated are
\* those that have initial and accepting parts - in products of any number of
\* graphs of any sizes.
THEOREM NumbersAgree ==
    ASSUME OneDirection
    PROVE  Spec => []NumberingAgrees
<1>1. Init => NumberingInv
  BY InitIInv DEF Init, NumberingInv, AnswerIsOwn
<1>2. NumberingInv /\ [Next]_vars => NumberingInv'
  BY NextNumberingInv
<1>3. NumberingInv => NumberingAgrees
  BY NumberingInvGivesIt
<1>. QED
  BY <1>1, <1>2, <1>3, PTL DEF Spec

\* In such a product the answers are exact.
LEMMA NumberingInvGivesAnswers == NumberingInv => AnswersExact
<1>. SUFFICES ASSUME NumberingInv PROVE AnswersExact
  OBVIOUS
<1>1. IsProduct(product)
  BY ProductAssumption DEF NumberingInv
<1>2. Transitions = TransitionsOf(product) /\ \A t : Connection(t) = ConnectionOf(product, t)
  BY DEF Transitions, TransitionsOf, Connection, ConnectionOf
<1>3. \A node : Leaving(node) = LeavingOf(product, node) /\ Entering(node) = EnteringOf(product, node)
  BY <1>2 DEF Leaving, Entering, LeavingOf, EnteringOf
<1>4. ASSUME last.node \in WideNode(product)
      PROVE  OutwardIsListed(product, last.node) /\ InwardIsListed(product, last.node)
  BY <1>1, <1>4, OutwardListed, InwardListed
<1>. DEFINE L == Leaving(last.node)
            E == Entering(last.node)
            Dst == Destinations(product, L)
            Src == Sources(product, E)
<1>5. /\ \A t \in L : Dst[t] = Destination(product, Connection(t))
      /\ \A t \in E : Src[t] = Source(product, Connection(t))
      /\ \A t \in L : Edges(product, L)[t] = Inherited(Connection(t))
      /\ \A t \in E : Edges(product, E)[t] = Inherited(Connection(t))
  BY <1>2 DEF Destinations, Sources, Edges
<1>6. /\ OutwardIsListed(product, last.node) =>
            LET w == children(product, last.node, post(product, last.node))
                x == outgoingEdges(product, last.node, post(product, last.node))
            IN  Listed(w, L, Dst) /\ Listed(x, L, Edges(product, L)) /\ Paired(w, x, L, Dst, Edges(product, L))
      /\ InwardIsListed(product, last.node) =>
            LET w == parents(product, last.node, pre(product, last.node))
                x == incomingEdges(product, last.node, pre(product, last.node))
            IN  Listed(w, E, Src) /\ Listed(x, E, Edges(product, E)) /\ Paired(w, x, E, Src, Edges(product, E))
  BY <1>3 DEF OutwardIsListed, InwardIsListed
<1>. HIDE DEF L, E, Dst, Src
<1>7. CASE last.op = "none"
  BY <1>7 DEF NumberingInv, AnswerIsOwn, AnswersExact
<1>8. CASE last.op = "children"
  <2>1. last.answer = children(product, last.node, post(product, last.node)) /\ last.node \in WideNode(product)
    BY <1>8 DEF NumberingInv, AnswerIsOwn, AnswerOf
  <2>. DEFINE x == AnswerOf(product, "outgoingEdges", last.node)
  <2>2. x = outgoingEdges(product, last.node, post(product, last.node))
    BY DEF AnswerOf
  <2>. HIDE DEF x
  <2>3. Listed(last.answer, L, Dst) /\ Paired(last.answer, x, L, Dst, Edges(product, L))
    BY <1>4, <1>6, <2>1, <2>2
  <2>4. Lists(last.answer, L, LAMBDA t : Destination(product, Connection(t)))
    BY <1>5, <2>3 DEF Listed, Lists
  <2>5. Parallel(last.answer, x, L, Destination)
    BY <1>5, <2>3 DEF Paired, Parallel
  <2>. QED
    BY <1>8, <2>4, <2>5 DEF AnswersExact, L, x
<1>9. CASE last.op = "outgoingEdges"
  <2>1. last.answer = outgoingEdges(product, last.node, post(product, last.node)) /\ last.node \in WideNode(product)
    BY <1>9 DEF NumberingInv, AnswerIsOwn, AnswerOf
  <2>2. Listed(last.answer, L, Edges(product, L))
    BY <1>4, <1>6, <2>1
  <2>3. Lists(last.answer, L, LAMBDA t : Inherited(Connection(t)))
    BY <1>5, <2>2 DEF Listed, Lists
  <2>. QED
    BY <1>9, <2>3 DEF AnswersExact, L
<1>10. CASE last.op = "parents"
  <2>1. last.answer = parents(product, last.node, pre(product, last.node)) /\ last.node \in WideNode(product)
    BY <1>10 DEF NumberingInv, AnswerIsOwn, AnswerOf
  <2>. DEFINE x == AnswerOf(product, "incomingEdges", last.node)
  <2>2. x = incomingEdges(product, last.node, pre(product, last.node))
    BY DEF AnswerOf
  <2>. HIDE DEF x
  <2>3. Listed(last.answer, E, Src) /\ Paired(last.answer, x, E, Src, Edges(product, E))
    BY <1>4, <1>6, <2>1, <2>2
  <2>4. Lists(last.answer, E, LAMBDA t : Source(product, Connection(t)))
    BY <1>5, <2>3 DEF Listed, Lists
  <2>5. Parallel(last.answer, x, E, Source)
    BY <1>5, <2>3 DEF Paired, Parallel
  <2>. QED
    BY <1>10, <2>4, <2>5 DEF AnswersExact, E, x
<1>11. CASE last.op = "incomingEdges"
  <2>1. last.answer = incomingEdges(product, last.node, pre(product, last.node)) /\ last.node \in WideNode(product)
    BY <1>11 DEF NumberingInv, AnswerIsOwn, AnswerOf
  <2>2. Listed(last.answer, E, Edges(product, E))
    BY <1>4, <1>6, <2>1
  <2>3. Lists(last.answer, E, LAMBDA t : Inherited(Connection(t)))
    BY <1>5, <2>2 DEF Listed, Lists
  <2>. QED
    BY <1>11, <2>3 DEF AnswersExact, E
<1>. QED
  BY <1>7, <1>8, <1>9, <1>10, <1>11 DEF NumberingInv, AnswerIsOwn

\* In a product whose clients go one way, children() and outgoingEdges() list
\* every transition that leaves the node, and parents() and incomingEdges()
\* every one that enters it, once, neighbors and edges side by side - for any
\* number of graphs of any sizes, whatever the cache's size and whatever was
\* asked before.
THEOREM AnswersAreExact ==
    ASSUME OneDirection
    PROVE  Spec => []AnswersExact
<1>1. Init => NumberingInv
  BY InitIInv DEF Init, NumberingInv, AnswerIsOwn
<1>2. NumberingInv /\ [Next]_vars => NumberingInv'
  BY NextNumberingInv
<1>3. NumberingInv => AnswersExact
  BY NumberingInvGivesAnswers
<1>. QED
  BY <1>1, <1>2, <1>3, PTL DEF Spec
=============================================================================
