--------------------------- MODULE FoldInduction ---------------------------
(***************************************************************************)
(* Induction for the proofs about folds and sorts.  The library's          *)
(* induction theorems take a predicate as a parameter, which the provers   *)
(* cannot instantiate; the forms here are about a set, and a fold is       *)
(* unrolled into the sequence of its intermediate results, for one         *)
(* operator op that an INSTANCE of this module names.                      *)
(***************************************************************************)
EXTENDS Integers, Sequences, SequencesExt, StableSort, FiniteSetTheorems, TLAPS

CONSTANT op(_, _)

-----------------------------------------------------------------------------
(* Induction over the natural numbers.                                     *)

\* A set of naturals that is not empty has a least element.
LEMMA Least ==
    ASSUME NEW T, T \subseteq Nat, T # {}
    PROVE  \E x \in T : \A y \in T : x <= y
  <1>1. PICK x \in T : \A y \in T : ~(<<y, x>> \in OpToRel(<, Nat))
    BY NatLessThanWellFounded, WFMin
  <1>2. \A y \in T : ~(y < x)
    BY <1>1 DEF OpToRel
  <1> QED
    BY <1>2

\* A set that has zero and is closed under successors has every natural.
LEMMA SetInduction ==
    ASSUME NEW S, 0 \in S, \A n \in Nat : n \in S => n + 1 \in S
    PROVE  Nat \subseteq S
  <1> SUFFICES ASSUME NEW k \in Nat, k \notin S PROVE FALSE
    OBVIOUS
  <1>1. PICK m \in Nat \ S : \A y \in Nat \ S : m <= y
    BY Least
  <1>2. m # 0
    OBVIOUS
  <1>3. m - 1 \in Nat /\ m - 1 \in S
    BY <1>1, <1>2
  <1> QED
    BY <1>1, <1>3

\* The same up to a bound.
LEMMA UpTo ==
    ASSUME NEW n \in Nat, NEW S, 0 \in S, \A k \in 1..n : k - 1 \in S => k \in S
    PROVE  \A k \in 0..n : k \in S
  <1> DEFINE U == {k \in Nat : k <= n => k \in S}
  <1>1. 0 \in U
    OBVIOUS
  <1>2. ASSUME NEW k \in Nat, k \in U PROVE k + 1 \in U
    <2>1. k + 1 <= n => k + 1 \in 1..n /\ k \in S /\ (k + 1) - 1 = k
      BY <1>2
    <2>2. k + 1 <= n => k + 1 \in S
      BY <2>1
    <2> QED
      BY <2>2
  <1> HIDE DEF U
  <1>3. Nat \subseteq U
    BY <1>1, <1>2, SetInduction
  <1> QED
    BY <1>3 DEF U

LEMMA MaxOf ==
    ASSUME NEW n \in Nat, NEW T, T \subseteq 1..n, T # {}
    PROVE  Max(T) \in T /\ \A y \in T : Max(T) >= y
  <1> DEFINE U == {n - x : x \in T}
  <1>1. \A y \in T : y \in 1..n
    OBVIOUS
  <1>2. U \subseteq Nat /\ U # {}
    <2>1. \A x \in T : n - x \in Nat
      BY <1>1
    <2>2. PICK t \in T : TRUE
      OBVIOUS
    <2> QED
      BY <2>1, <2>2
  <1>3. PICK u \in U : \A y \in U : u <= y
    BY <1>2, Least
  <1>4. PICK x \in T : u = n - x
    BY <1>3
  <1>5. ASSUME NEW y \in T PROVE x >= y
    <2>1. n - y \in U /\ x \in 1..n /\ y \in 1..n
      BY <1>1
    <2>2. n - x <= n - y
      BY <1>3, <1>4, <2>1
    <2> QED
      BY <2>1, <2>2
  <1> QED
    BY <1>4, <1>5 DEF Max

-----------------------------------------------------------------------------
(* A fold over a sequence.                                                 *)

\* The function by which the library defines a fold over the first n elements.
Fold(base, s, n, g) ==
    g = [T \in SUBSET (1..n) |-> IF T = {} THEN base ELSE op(g[T \ {Max(T)}], s[Max(T)])]

LEMMA FoldExists ==
    ASSUME NEW base, NEW s, NEW n \in Nat
    PROVE  \E g : Fold(base, s, n, g)
  <1> DEFINE S == {k \in Nat : \E g : Fold(base, s, k, g)}
  <1>1. 0 \in S
    <2> DEFINE g == [T \in SUBSET (1..0) |-> base]
    <2>1. \A T \in SUBSET (1..0) : T = {}
      OBVIOUS
    <2>2. Fold(base, s, 0, g)
      BY <2>1 DEF Fold
    <2> QED
      BY <2>2
  <1>2. ASSUME NEW k \in Nat, k \in S PROVE k + 1 \in S
    <2>1. PICK g : Fold(base, s, k, g)
      BY <1>2
    <2> DEFINE h == [T \in SUBSET (1..(k + 1)) |->
                       IF k + 1 \in T THEN op(g[T \ {k + 1}], s[k + 1]) ELSE g[T]]
               body(f, T) == IF T = {} THEN base ELSE op(f[T \ {Max(T)}], s[Max(T)])
    <2>2. ASSUME NEW T \in SUBSET (1..(k + 1)) PROVE h[T] = body(h, T)
      <3>1. CASE k + 1 \in T
        <4>1. Max(T) = k + 1
          <5>1. Max(T) \in T /\ Max(T) >= k + 1
            BY <3>1, MaxOf, k + 1 \in Nat
          <5>2. Max(T) \in 1..(k + 1)
            BY <5>1
          <5> QED
            BY <5>1, <5>2
        <4>2. T \ {k + 1} \in SUBSET (1..(k + 1)) /\ k + 1 \notin T \ {k + 1}
          OBVIOUS
        <4>3. h[T \ {k + 1}] = g[T \ {k + 1}]
          BY <4>2
        <4> QED
          BY <3>1, <4>1, <4>3
      <3>2. CASE k + 1 \notin T
        <4>1. T \in SUBSET (1..k) /\ h[T] = g[T]
          BY <3>2
        <4>2. g[T] = body(g, T)
          BY <2>1, <4>1 DEF Fold
        <4>3. CASE T = {}
          BY <4>1, <4>2, <4>3
        <4>4. CASE T # {}
          <5>1. T \ {Max(T)} \in SUBSET (1..(k + 1)) /\ k + 1 \notin T \ {Max(T)}
            BY <3>2
          <5>2. h[T \ {Max(T)}] = g[T \ {Max(T)}]
            BY <5>1
          <5> QED
            BY <4>1, <4>2, <4>4, <5>2
        <4> QED
          BY <4>3, <4>4
      <3> QED
        BY <3>1, <3>2
    <2>3. h = [T \in SUBSET (1..(k + 1)) |-> h[T]]
      OBVIOUS
    <2> HIDE DEF h
    <2>4. Fold(base, s, k + 1, h)
      BY <2>2, <2>3 DEF Fold
    <2> QED
      BY <2>4
  <1> HIDE DEF S
  <1>3. n \in S
    BY <1>1, <1>2, SetInduction
  <1> QED
    BY <1>3 DEF S

Folded(base, s) == FoldLeft(op, base, s)

\* s has n elements.
Sized(s, n) == n \in Nat /\ DOMAIN s = 1..n

\* A fold is the last of its intermediate results: they start with the base, and
\* each is the operator applied to the one before it and the next element. What the
\* packing, rendering, filtering and merging loops of the review and the fitting loop
\* of a query compute is proved from this one fact.
THEOREM FoldUnrolls ==
    ASSUME NEW base, NEW s, NEW n, Sized(s, n)
    PROVE  \E h : /\ h[0] = base
                  /\ \A k \in 1..n : h[k] = op(h[k - 1], s[k])
                  /\ Folded(base, s) = h[n]
  <1>0. n \in Nat /\ DOMAIN s = 1..n
    BY DEF Sized
  <1> DEFINE it == CHOOSE g : Fold(base, s, n, g)
             h == [k \in 0..n |-> it[1..k]]
  <1>1. Fold(base, s, n, it)
    BY <1>0, FoldExists
  <1>2. Folded(base, s) = it[1..n]
    BY <1>0 DEF Folded, FoldLeft, MapThenFoldSet, Fold
  <1> HIDE DEF it
  <1>3. h[0] = base
    <2>1. 1..0 \in SUBSET (1..n) /\ 1..0 = {}
      BY <1>0
    <2>2. it[1..0] = base
      BY <1>1, <2>1 DEF Fold
    <2> QED
      BY <1>0, <2>2
  <1>4. ASSUME NEW k \in 1..n PROVE h[k] = op(h[k - 1], s[k])
    <2>1. 1..k \in SUBSET (1..n) /\ 1..k # {}
      <3>1. k \in 1..k
        BY <1>0
      <3>2. \A i \in 1..k : i \in 1..n
        BY <1>0
      <3> QED
        BY <3>1, <3>2
    <2>2. Max(1..k) = k
      <3>1. Max(1..k) \in 1..k /\ Max(1..k) >= k
        BY <1>0, <2>1, MaxOf, k \in 1..k
      <3> QED
        BY <3>1
    <2>3. (1..k) \ {k} = 1..(k - 1)
      BY <1>0
    <2>4. it[1..k] = op(it[1..(k - 1)], s[k])
      BY <1>1, <2>1, <2>2, <2>3 DEF Fold
    <2> QED
      BY <1>0, <2>4
  <1>5. Folded(base, s) = h[n]
    BY <1>0, <1>2
  <1> HIDE DEF h
  <1> QED
    BY <1>3, <1>4, <1>5

-----------------------------------------------------------------------------
(* A sort.                                                                 *)

\* How many elements a strict total order puts before an element.
Earlier(n, R, i) == {k \in 1..n : <<k, i>> \in R}

\* Placing every element after the elements that go before it orders them all, and
\* every element has its place.
LEMMA PlacesOrder ==
    ASSUME NEW n \in Nat, NEW R,
           \A i, j \in 1..n : i # j => <<i, j>> \in R \/ <<j, i>> \in R,
           \A i \in 1..n : <<i, i>> \notin R,
           \A i, j, k \in 1..n : <<i, j>> \in R /\ <<j, k>> \in R => <<i, k>> \in R
    PROVE  \E p \in [1..n -> 1..n] :
              /\ \A i \in 1..n : \E m \in 1..n : p[m] = i
              /\ \A m, i \in 1..n : 1 + Cardinality(Earlier(n, R, i)) = m <=> i = p[m]
              /\ \A l, m \in 1..n : l < m => <<p[l], p[m]>> \in R
  <1> DEFINE q == [i \in 1..n |-> 1 + Cardinality(Earlier(n, R, i))]
             p == [m \in 1..n |-> CHOOSE i \in 1..n : 1 + Cardinality(Earlier(n, R, i)) = m]
  <1>1. IsFiniteSet(1..n) /\ Cardinality(1..n) = n
    <2>1. IsFiniteSet(1..n) /\ Cardinality(1..n) = IF 1 > n THEN 0 ELSE n - 1 + 1
      BY FS_Interval
    <2> QED
      BY <2>1
  <1>2. ASSUME NEW i \in 1..n
        PROVE  /\ IsFiniteSet(Earlier(n, R, i)) /\ Cardinality(Earlier(n, R, i)) \in Nat
               /\ Cardinality(Earlier(n, R, i)) < n
    <2>1. Earlier(n, R, i) \in SUBSET (1..n) /\ i \notin Earlier(n, R, i)
      BY DEF Earlier
    <2>2. /\ IsFiniteSet(Earlier(n, R, i))
          /\ Cardinality(Earlier(n, R, i)) <= Cardinality(1..n)
          /\ Cardinality(1..n) = Cardinality(Earlier(n, R, i)) => 1..n = Earlier(n, R, i)
      BY <1>1, <2>1, FS_Subset
    <2>3. Cardinality(Earlier(n, R, i)) \in Nat
      BY <2>2, FS_CardinalityType
    <2>4. Cardinality(Earlier(n, R, i)) # n
      BY <1>1, <2>1, <2>2
    <2> QED
      BY <1>1, <2>2, <2>3, <2>4
  <1>3. q \in [1..n -> 1..n]
    BY <1>2
  <1>4. ASSUME NEW i \in 1..n, NEW j \in 1..n, <<j, i>> \in R PROVE q[j] < q[i]
    <2>1. Earlier(n, R, j) \subseteq Earlier(n, R, i)
      BY <1>4 DEF Earlier
    <2>2. j \in Earlier(n, R, i) /\ j \notin Earlier(n, R, j)
      BY <1>4 DEF Earlier
    <2>3. /\ Cardinality(Earlier(n, R, j)) <= Cardinality(Earlier(n, R, i))
          /\ Cardinality(Earlier(n, R, i)) = Cardinality(Earlier(n, R, j)) =>
                Earlier(n, R, i) = Earlier(n, R, j)
      BY <1>2, <2>1, FS_Subset
    <2>4. /\ Cardinality(Earlier(n, R, j)) < Cardinality(Earlier(n, R, i))
          /\ Cardinality(Earlier(n, R, j)) \in Nat /\ Cardinality(Earlier(n, R, i)) \in Nat
      BY <1>2, <2>2, <2>3
    <2> QED
      BY <2>4
  <1> HIDE DEF q
  <1>5. \A i, j \in 1..n : q[i] = q[j] => i = j
    <2> SUFFICES ASSUME NEW i \in 1..n, NEW j \in 1..n, q[i] = q[j], i # j PROVE FALSE
      OBVIOUS
    <2>1. q[i] < q[j] \/ q[j] < q[i]
      BY <1>4
    <2> QED
      BY <1>3, <2>1
  <1>6. q \in Injection(1..n, 1..n)
    BY <1>3, <1>5 DEF Injection, IsInjective
  <1>7. q \in Surjection(1..n, 1..n)
    BY <1>1, <1>6, FS_Injection
  <1>8. ASSUME NEW m \in 1..n PROVE p[m] \in 1..n /\ q[p[m]] = m
    <2>1. PICK i \in 1..n : q[i] = m
      BY <1>7 DEF Surjection
    <2>2. 1 + Cardinality(Earlier(n, R, i)) = m
      BY <2>1 DEF q
    <2>3. p[m] \in 1..n /\ 1 + Cardinality(Earlier(n, R, p[m])) = m
      BY <2>2
    <2> QED
      BY <2>3 DEF q
  <1>9. \A m, i \in 1..n : 1 + Cardinality(Earlier(n, R, i)) = m <=> i = p[m]
    <2>1. \A i \in 1..n : q[i] = 1 + Cardinality(Earlier(n, R, i))
      BY DEF q
    <2> HIDE DEF p
    <2> QED
      BY <1>5, <1>8, <2>1
  <1>10. p \in [1..n -> 1..n]
    BY <1>8
  <1> HIDE DEF p
  <1>11. ASSUME NEW i \in 1..n PROVE \E m \in 1..n : p[m] = i
    <2>1. q[i] \in 1..n
      BY <1>3
    <2>2. p[q[i]] \in 1..n /\ q[p[q[i]]] = q[i]
      BY <1>8, <2>1
    <2> QED
      BY <1>5, <2>1, <2>2
  <1>12. ASSUME NEW l \in 1..n, NEW m \in 1..n, l < m PROVE <<p[l], p[m]>> \in R
    <2>1. p[l] \in 1..n /\ p[m] \in 1..n /\ q[p[l]] = l /\ q[p[m]] = m
      BY <1>8
    <2>2. p[l] # p[m]
      BY <1>12, <2>1
    <2>3. <<p[m], p[l]>> \notin R
      BY <1>4, <1>12, <2>1
    <2> QED
      BY <2>1, <2>2, <2>3
  <1> QED
    BY <1>9, <1>10, <1>11, <1>12

InOrder(s) == Sorted(s, op)

\* op is a strict weak order of the elements of s.
WeaklyOrdered(s, n) ==
    /\ DOMAIN s = 1..n
    /\ \A i \in 1..n : ~op(s[i], s[i])
    /\ \A i, j, k \in 1..n : op(s[i], s[j]) /\ op(s[j], s[k]) => op(s[i], s[k])
    /\ \A i, j, k \in 1..n : op(s[i], s[k]) => op(s[i], s[j]) \/ op(s[j], s[k])

\* Sorting by a strict weak order, in which elements may tie, rearranges a sequence:
\* every element is there as often as before, and none comes after one it goes before.
\* The packing order of the files, the merging order of the findings and the rank
\* fusion of a query rest on it.
THEOREM SortRearranges ==
    ASSUME NEW s, NEW n \in Nat, WeaklyOrdered(s, n)
    PROVE  \E p \in [1..n -> 1..n] :
              /\ \A i \in 1..n : \E m \in 1..n : p[m] = i
              /\ InOrder(s) = [m \in 1..n |-> s[p[m]]]
              /\ \A l, m \in 1..n : p[l] = p[m] => l = m
              /\ \A l, m \in 1..n : l < m => ~op(s[p[m]], s[p[l]])
  <1> DEFINE first(i, j) == op(s[i], s[j]) \/ (~op(s[j], s[i]) /\ i < j)
             R == {x \in (1..n) \X (1..n) : first(x[1], x[2])}
  <1>1. \A i, j \in 1..n : <<i, j>> \in R <=> first(i, j)
    OBVIOUS
  <1> HIDE DEF R
  <1>2. \A i \in 1..n : <<i, i>> \notin R
    BY <1>1 DEF WeaklyOrdered
  <1>3. \A i, j \in 1..n : i # j => <<i, j>> \in R \/ <<j, i>> \in R
    BY <1>1
  <1>4. \A i, j, k \in 1..n : <<i, j>> \in R /\ <<j, k>> \in R => <<i, k>> \in R
    <2> SUFFICES ASSUME NEW i \in 1..n, NEW j \in 1..n, NEW k \in 1..n,
                        first(i, j), first(j, k)
                 PROVE  first(i, k)
      BY <1>1
    <2>1. /\ op(s[i], s[j]) /\ op(s[j], s[k]) => op(s[i], s[k])
          /\ op(s[k], s[i]) => op(s[k], s[j]) \/ op(s[j], s[i])
          /\ op(s[i], s[j]) => op(s[i], s[k]) \/ op(s[k], s[j])
          /\ op(s[j], s[k]) => op(s[j], s[i]) \/ op(s[i], s[k])
          /\ op(s[j], s[k]) /\ op(s[k], s[j]) => op(s[j], s[j])
          /\ ~op(s[j], s[j])
      BY DEF WeaklyOrdered
    <2>2. i < j /\ j < k => i < k
      OBVIOUS
    <2> QED
      BY <2>1, <2>2
  <1>5. PICK p \in [1..n -> 1..n] :
              /\ \A i \in 1..n : \E m \in 1..n : p[m] = i
              /\ \A m, i \in 1..n : 1 + Cardinality(Earlier(n, R, i)) = m <=> i = p[m]
              /\ \A l, m \in 1..n : l < m => <<p[l], p[m]>> \in R
    BY <1>2, <1>3, <1>4, PlacesOrder
  <1> DEFINE place(i) ==
        1 + Cardinality({k \in DOMAIN s : op(s[k], s[i]) \/ (~op(s[i], s[k]) /\ k < i)})
  <1>6. ASSUME NEW i \in 1..n PROVE place(i) = 1 + Cardinality(Earlier(n, R, i))
    <2>1. {k \in DOMAIN s : op(s[k], s[i]) \/ (~op(s[i], s[k]) /\ k < i)} = Earlier(n, R, i)
      BY <1>1 DEF Earlier, WeaklyOrdered
    <2> QED
      BY <2>1
  <1>7. InOrder(s) = [m \in 1..n |-> s[p[m]]]
    <2>0. DOMAIN s = 1..n
      BY DEF WeaklyOrdered
    <2>1. InOrder(s) = [m \in DOMAIN s |-> s[CHOOSE i \in DOMAIN s : place(i) = m]]
      BY DEF InOrder, Sorted, PlaceOf
    <2>2. \A m, i \in 1..n : place(i) = m <=> i = p[m]
      <3> HIDE DEF place
      <3> QED
        BY <1>5, <1>6
    <2> HIDE DEF place
    <2>3. ASSUME NEW m \in 1..n PROVE (CHOOSE i \in DOMAIN s : place(i) = m) = p[m]
      <3>1. \E i \in DOMAIN s : place(i) = m
        BY <1>5, <2>0, <2>2
      <3> QED
        BY <2>0, <2>2, <3>1
    <2> QED
      BY <2>0, <2>1, <2>3
  <1>8. \A l, m \in 1..n : p[l] = p[m] => l = m
    <2> SUFFICES ASSUME NEW l \in 1..n, NEW m \in 1..n, p[l] = p[m], l # m PROVE FALSE
      OBVIOUS
    <2>1. l < m \/ m < l
      OBVIOUS
    <2>2. <<p[l], p[l]>> \in R
      BY <1>5, <2>1
    <2> QED
      BY <1>2, <2>2
  <1>9. ASSUME NEW l \in 1..n, NEW m \in 1..n, l < m PROVE ~op(s[p[m]], s[p[l]])
    <2>1. first(p[l], p[m])
      BY <1>1, <1>5, <1>9
    <2>2. op(s[p[l]], s[p[m]]) /\ op(s[p[m]], s[p[l]]) => op(s[p[l]], s[p[l]])
      BY DEF WeaklyOrdered
    <2>3. ~op(s[p[l]], s[p[l]])
      BY DEF WeaklyOrdered
    <2> QED
      BY <2>1, <2>2, <2>3
  <1> QED
    BY <1>5, <1>7, <1>8, <1>9

\* Among finitely many elements with a weight one is the heaviest.
LEMMA Heaviest ==
    ASSUME NEW n \in Nat, NEW w \in [1..n -> Nat], NEW T \in SUBSET (1..n), T # {}
    PROVE  \E x \in T : \A y \in T : w[y] <= w[x]
  <1> DEFINE top(U) == \E x \in U : \A y \in U : w[y] <= w[x]
             S == {k \in Nat : \A U \in SUBSET T : U # {} /\ U \subseteq 1..k => top(U)}
  <1>1. 0 \in S
    <2>1. \A U \in SUBSET T : U \subseteq 1..0 => U = {}
      OBVIOUS
    <2> HIDE DEF top
    <2> QED
      BY <2>1
  <1>2. ASSUME NEW k \in Nat, k \in S PROVE k + 1 \in S
    <2>0. ASSUME NEW U \in SUBSET T, U # {}, U \subseteq 1..(k + 1) PROVE top(U)
      <3> DEFINE V == U \ {k + 1}
      <3>1. V \in SUBSET T /\ V \subseteq U
        OBVIOUS
      <3>2. V \subseteq 1..k
        BY <2>0
      <3>3. \A y \in U : w[y] \in Nat /\ (y = k + 1 \/ y \in V)
        OBVIOUS
      <3>4. V # {} => top(V)
        <4> HIDE DEF top, V
        <4> QED
          BY <1>2, <3>1, <3>2
      <3> HIDE DEF V
      <3>5. CASE V = {}
        <4>1. PICK x \in U : TRUE
          BY <2>0
        <4>2. \A y \in U : y = x /\ w[y] \in Nat
          BY <3>3, <3>5
        <4>3. \A y \in U : w[y] <= w[x]
          BY <4>2
        <4> QED
          BY <4>3
      <3>6. CASE V # {}
        <4>1. PICK x \in V : \A y \in V : w[y] <= w[x]
          BY <3>4, <3>6
        <4>2. x \in U /\ w[x] \in Nat
          BY <3>1, <3>3
        <4>3. CASE k + 1 \notin U \/ w[k + 1] <= w[x]
          BY <3>3, <4>1, <4>2, <4>3
        <4>4. CASE k + 1 \in U /\ ~(w[k + 1] <= w[x])
          <5>1. w[k + 1] \in Nat /\ w[x] <= w[k + 1]
            BY <3>3, <4>2, <4>4
          <5>2. \A y \in U : w[y] <= w[k + 1]
            BY <3>3, <4>1, <4>2, <5>1
          <5> QED
            BY <4>4, <5>2
        <4> QED
          BY <4>3, <4>4
      <3> QED
        BY <3>5, <3>6
    <2> HIDE DEF top
    <2> QED
      BY <2>0
  <1> HIDE DEF S
  <1>3. n \in S
    BY <1>1, <1>2, SetInduction
  <1>4. T \in SUBSET T /\ T \subseteq 1..n
    OBVIOUS
  <1>5. top(T)
    <2> HIDE DEF top
    <2> QED
      BY <1>3, <1>4 DEF S
  <1> QED
    BY <1>5

-----------------------------------------------------------------------------
(* A sum over a finite set.                                                *)

Chosen(T) == CHOOSE x \in T : TRUE

\* The function by which the library defines a sum, on the sets it is asked for.
Summing(f, sets, g) ==
    g = [T \in sets |-> IF T = {} THEN 0 ELSE f[Chosen(T)] + g[T \ {Chosen(T)}]]

UpToSize(f, n) == {T \in SUBSET DOMAIN f : Cardinality(T) <= n}

\* All the sums of a function of naturals.
Summed(f, g) ==
    /\ IsFiniteSet(DOMAIN f) /\ \A x \in DOMAIN f : f[x] \in Nat
    /\ Summing(f, SUBSET DOMAIN f, g)

\* A set without its chosen element is smaller.
LEMMA WithoutChosen ==
    ASSUME NEW f, IsFiniteSet(DOMAIN f), NEW T \in SUBSET DOMAIN f, T # {}, NEW x \in T
    PROVE  /\ IsFiniteSet(T) /\ Cardinality(T) \in Nat \ {0}
           /\ T \ {x} \in SUBSET DOMAIN f
           /\ Cardinality(T \ {x}) = Cardinality(T) - 1
  <1>1. IsFiniteSet(T)
    BY FS_Subset
  <1>2. Cardinality(T) \in Nat /\ Cardinality(T) # 0
    BY <1>1, FS_CardinalityType, FS_EmptySet
  <1>3. Cardinality(T \ {x}) = Cardinality(T) - 1
    BY <1>1, FS_RemoveElement
  <1> QED
    BY <1>1, <1>2, <1>3

LEMMA SumExists ==
    ASSUME NEW f, IsFiniteSet(DOMAIN f)
    PROVE  \E g : Summing(f, SUBSET DOMAIN f, g)
  <1> DEFINE S == {k \in Nat : \E g : Summing(f, UpToSize(f, k), g)}
  <1>1. 0 \in S
    <2> DEFINE g == [T \in UpToSize(f, 0) |-> 0]
    <2>1. ASSUME NEW T \in UpToSize(f, 0), T # {} PROVE FALSE
      <3>1. PICK x \in T : TRUE
        BY <2>1
      <3>2. T \in SUBSET DOMAIN f /\ Cardinality(T) <= 0
        BY DEF UpToSize
      <3>3. Cardinality(T) \in Nat \ {0}
        BY <2>1, <3>1, <3>2, WithoutChosen
      <3> QED
        BY <3>2, <3>3
    <2>2. Summing(f, UpToSize(f, 0), g)
      BY <2>1 DEF Summing
    <2> QED
      BY <2>2
  <1>2. ASSUME NEW k \in Nat, k \in S PROVE k + 1 \in S
    <2>1. PICK g : Summing(f, UpToSize(f, k), g)
      BY <1>2
    <2> DEFINE body(e, T) == IF T = {} THEN 0 ELSE f[Chosen(T)] + e[T \ {Chosen(T)}]
               h == [T \in UpToSize(f, k + 1) |-> IF T \in UpToSize(f, k) THEN g[T] ELSE body(g, T)]
    <2>2. ASSUME NEW T \in UpToSize(f, k + 1), T # {}
          PROVE  /\ T \ {Chosen(T)} \in UpToSize(f, k)
                 /\ T \ {Chosen(T)} \in UpToSize(f, k + 1)
      <3>1. Chosen(T) \in T /\ T \in SUBSET DOMAIN f
        BY <2>2 DEF Chosen, UpToSize
      <3>2. /\ T \ {Chosen(T)} \in SUBSET DOMAIN f /\ Cardinality(T) \in Nat
            /\ Cardinality(T \ {Chosen(T)}) = Cardinality(T) - 1
        BY <2>2, <3>1, WithoutChosen
      <3> QED
        BY <3>2 DEF UpToSize
    <2>3. \A T \in UpToSize(f, k) : g[T] = body(g, T)
      BY <2>1 DEF Summing
    <2>4. ASSUME NEW T \in UpToSize(f, k + 1) PROVE h[T] = body(h, T)
      <3>1. h[T] = body(g, T)
        BY <2>3
      <3>2. T # {} => h[T \ {Chosen(T)}] = g[T \ {Chosen(T)}]
        BY <2>2
      <3> QED
        BY <3>1, <3>2
    <2>5. h = [T \in UpToSize(f, k + 1) |-> h[T]]
      OBVIOUS
    <2> HIDE DEF h
    <2>6. Summing(f, UpToSize(f, k + 1), h)
      BY <2>4, <2>5 DEF Summing
    <2> QED
      BY <2>6
  <1> HIDE DEF S
  <1>3. Nat \subseteq S
    BY <1>1, <1>2, SetInduction
  <1>4. Cardinality(DOMAIN f) \in Nat
    BY FS_CardinalityType
  <1>5. UpToSize(f, Cardinality(DOMAIN f)) = SUBSET DOMAIN f
    BY FS_Subset DEF UpToSize
  <1> QED
    BY <1>3, <1>4, <1>5 DEF S

\* Two functions that agree on a set have the same sum over it.
LEMMA SameSums ==
    ASSUME NEW e, NEW g, Summed(e, g), NEW f, NEW h, Summed(f, h),
           DOMAIN e \subseteq DOMAIN f, \A x \in DOMAIN e : e[x] = f[x]
    PROVE  g[DOMAIN e] = h[DOMAIN e]
  <1> DEFINE D == DOMAIN e
  <1>0. /\ IsFiniteSet(DOMAIN e) /\ IsFiniteSet(DOMAIN f)
        /\ Summing(e, SUBSET DOMAIN e, g) /\ Summing(f, SUBSET DOMAIN f, h)
        /\ D \subseteq DOMAIN e /\ D \subseteq DOMAIN f /\ \A x \in D : e[x] = f[x]
    BY DEF Summed
  <1> HIDE DEF D
  <1> DEFINE S == {k \in Nat : \A T \in SUBSET D : Cardinality(T) = k => g[T] = h[T]}
  <1>1. ASSUME NEW T \in SUBSET D, T # {}
        PROVE  /\ g[T] = e[Chosen(T)] + g[T \ {Chosen(T)}]
               /\ h[T] = e[Chosen(T)] + h[T \ {Chosen(T)}]
               /\ T \ {Chosen(T)} \in SUBSET D
               /\ Cardinality(T) \in Nat \ {0}
               /\ Cardinality(T \ {Chosen(T)}) = Cardinality(T) - 1
    <2>1. Chosen(T) \in T /\ T \in SUBSET DOMAIN e /\ T \in SUBSET DOMAIN f
      BY <1>0, <1>1 DEF Chosen
    <2>2. g[T] = e[Chosen(T)] + g[T \ {Chosen(T)}]
      BY <1>0, <1>1, <2>1 DEF Summing
    <2>3. h[T] = f[Chosen(T)] + h[T \ {Chosen(T)}]
      BY <1>0, <1>1, <2>1 DEF Summing
    <2>4. /\ Cardinality(T) \in Nat \ {0}
          /\ Cardinality(T \ {Chosen(T)}) = Cardinality(T) - 1
      BY <1>0, <1>1, <2>1, WithoutChosen
    <2> QED
      BY <1>0, <2>1, <2>2, <2>3, <2>4
  <1>2. g[{}] = h[{}]
    <2>1. {} \in SUBSET DOMAIN e /\ {} \in SUBSET DOMAIN f
      OBVIOUS
    <2>2. g[{}] = 0 /\ h[{}] = 0
      BY <1>0, <2>1 DEF Summing
    <2> QED
      BY <2>2
  <1>3. 0 \in S
    BY <1>1, <1>2
  <1>4. ASSUME NEW k \in Nat, k \in S PROVE k + 1 \in S
    <2> SUFFICES ASSUME NEW T \in SUBSET D, Cardinality(T) = k + 1 PROVE g[T] = h[T]
      OBVIOUS
    <2>1. CASE T = {}
      BY <1>2, <2>1
    <2>2. CASE T # {}
      <3>1. Cardinality(T \ {Chosen(T)}) = k /\ T \ {Chosen(T)} \in SUBSET D
        BY <1>1, <2>2
      <3>2. g[T \ {Chosen(T)}] = h[T \ {Chosen(T)}]
        BY <1>4, <3>1
      <3> QED
        BY <1>1, <2>2, <3>2
    <2> QED
      BY <2>1, <2>2
  <1> HIDE DEF S
  <1>5. Nat \subseteq S
    BY <1>3, <1>4, SetInduction
  <1>6. Cardinality(D) \in Nat
    BY <1>0, FS_Subset, FS_CardinalityType
  <1> QED
    BY <1>5, <1>6 DEF S, D

\* Sums of naturals are naturals.
LEMMA NaturalSums ==
    ASSUME NEW f, NEW g, Summed(f, g)
    PROVE  \A T \in SUBSET DOMAIN f : g[T] \in Nat
  <1>0. /\ IsFiniteSet(DOMAIN f) /\ \A x \in DOMAIN f : f[x] \in Nat
        /\ Summing(f, SUBSET DOMAIN f, g)
    BY DEF Summed
  <1> DEFINE S == {k \in Nat : \A T \in SUBSET DOMAIN f : Cardinality(T) = k => g[T] \in Nat}
  <1>1. g[{}] \in Nat
    <2>1. {} \in SUBSET DOMAIN f
      OBVIOUS
    <2>2. g[{}] = 0
      BY <1>0, <2>1 DEF Summing
    <2> QED
      BY <2>2
  <1>2. ASSUME NEW T \in SUBSET DOMAIN f, T # {}
        PROVE  /\ Chosen(T) \in T /\ g[T] = f[Chosen(T)] + g[T \ {Chosen(T)}]
               /\ T \ {Chosen(T)} \in SUBSET DOMAIN f /\ Cardinality(T) \in Nat \ {0}
               /\ Cardinality(T \ {Chosen(T)}) = Cardinality(T) - 1
    <2>1. Chosen(T) \in T
      BY <1>2 DEF Chosen
    <2>2. g[T] = f[Chosen(T)] + g[T \ {Chosen(T)}]
      BY <1>0, <1>2 DEF Summing
    <2> QED
      BY <1>2, <2>1, <2>2, <1>0, WithoutChosen
  <1>3. 0 \in S
    BY <1>1, <1>2
  <1>4. ASSUME NEW k \in Nat, k \in S PROVE k + 1 \in S
    <2> SUFFICES ASSUME NEW T \in SUBSET DOMAIN f, Cardinality(T) = k + 1 PROVE g[T] \in Nat
      OBVIOUS
    <2>1. CASE T = {}
      BY <1>1, <2>1
    <2>2. CASE T # {}
      <3>1. Cardinality(T \ {Chosen(T)}) = k
        BY <1>2, <2>2
      <3>2. g[T \ {Chosen(T)}] \in Nat
        BY <1>2, <1>4, <2>2, <3>1
      <3>3. f[Chosen(T)] \in Nat
        BY <1>0, <1>2, <2>2
      <3>4. g[T] = f[Chosen(T)] + g[T \ {Chosen(T)}]
        BY <1>2, <2>2
      <3> QED
        BY <3>2, <3>3, <3>4
    <2> QED
      BY <2>1, <2>2
  <1> HIDE DEF S
  <1>5. Nat \subseteq S
    BY <1>3, <1>4, SetInduction
  <1>6. \A T \in SUBSET DOMAIN f : Cardinality(T) \in Nat
    BY <1>0, FS_Subset, FS_CardinalityType
  <1> QED
    BY <1>5, <1>6 DEF S

\* A sum may be taken in any order.
LEMMA AnyOrder ==
    ASSUME NEW f, NEW g, Summed(f, g)
    PROVE  \A T \in SUBSET DOMAIN f : \A x \in T : g[T] = f[x] + g[T \ {x}]
  <1>0. /\ IsFiniteSet(DOMAIN f) /\ \A x \in DOMAIN f : f[x] \in Nat
        /\ Summing(f, SUBSET DOMAIN f, g)
    BY DEF Summed
  <1> DEFINE good(T) == \A x \in T : g[T] = f[x] + g[T \ {x}]
             S == {k \in Nat : \A T \in SUBSET DOMAIN f : Cardinality(T) = k => good(T)}
  <1>1. 0 \in S
    <2>1. ASSUME NEW T \in SUBSET DOMAIN f, Cardinality(T) = 0 PROVE T = {}
      BY <2>1, <1>0, WithoutChosen
    <2>2. good({})
      OBVIOUS
    <2> HIDE DEF good
    <2> QED
      BY <2>1, <2>2
  <1>2. ASSUME NEW k \in Nat, k \in S PROVE k + 1 \in S
    <2> SUFFICES ASSUME NEW T \in SUBSET DOMAIN f, Cardinality(T) = k + 1, NEW x \in T
                 PROVE  g[T] = f[x] + g[T \ {x}]
      OBVIOUS
    <2> DEFINE c == Chosen(T)
    <2>1. c \in T
      BY DEF Chosen
    <2>2. \A y \in T : T \ {y} \in SUBSET DOMAIN f /\ Cardinality(T \ {y}) = k
      BY <1>0, WithoutChosen
    <2>3. \A y \in T : good(T \ {y})
      <3> HIDE DEF good
      <3> QED
        BY <1>2, <2>2
    <2>4. g[T] = f[c] + g[T \ {c}]
      BY <1>0 DEF Summing
    <2> HIDE DEF c
    <2>5. CASE x = c
      BY <2>4, <2>5
    <2>6. CASE x # c
      <3>1. x \in T \ {c} /\ c \in T \ {x} /\ (T \ {c}) \ {x} = (T \ {x}) \ {c}
        BY <2>1, <2>6
      <3>2. g[T \ {c}] = f[x] + g[(T \ {c}) \ {x}]
        BY <2>1, <2>3, <3>1
      <3>3. g[T \ {x}] = f[c] + g[(T \ {x}) \ {c}]
        BY <2>3, <3>1
      <3>4. g[(T \ {x}) \ {c}] \in Nat
        <4>1. (T \ {x}) \ {c} \in SUBSET DOMAIN f
          OBVIOUS
        <4> QED
          BY <4>1, NaturalSums
      <3>5. f[x] \in Nat /\ f[c] \in Nat
        BY <1>0, <2>1
      <3>6. PICK rest \in Nat : rest = g[(T \ {x}) \ {c}]
        BY <3>4
      <3>7. g[T] = f[c] + (f[x] + rest) /\ g[T \ {x}] = f[c] + rest
        BY <2>4, <3>1, <3>2, <3>3, <3>6
      <3> QED
        BY <3>5, <3>7
    <2> QED
      BY <2>5, <2>6
  <1> HIDE DEF S
  <1>3. Nat \subseteq S
    BY <1>1, <1>2, SetInduction
  <1>4. ASSUME NEW T \in SUBSET DOMAIN f PROVE good(T)
    <2>1. Cardinality(T) \in Nat
      BY <1>0, FS_Subset, FS_CardinalityType
    <2> HIDE DEF good
    <2> QED
      BY <1>3, <2>1 DEF S
  <1> QED
    BY <1>4

LEMMA TakeOut ==
    ASSUME NEW f, NEW g, Summed(f, g), NEW x \in DOMAIN f
    PROVE  g[DOMAIN f] = f[x] + g[(DOMAIN f) \ {x}]
  <1>1. DOMAIN f \in SUBSET DOMAIN f
    OBVIOUS
  <1> QED
    BY <1>1, AnyOrder

LEMMA SumIsSumming ==
    ASSUME NEW f, IsFiniteSet(DOMAIN f)
    PROVE  \E g : Summing(f, SUBSET DOMAIN f, g) /\ SumFunction(f) = g[DOMAIN f]
  <1> DEFINE g == CHOOSE e : Summing(f, SUBSET DOMAIN f, e)
  <1>1. Summing(f, SUBSET DOMAIN f, g)
    BY SumExists
  <1>2. SumFunction(f) = g[DOMAIN f]
    BY DEF SumFunction, SumFunctionOnSet, FoldFunctionOnSet, MapThenFoldSet, Summing, Chosen
  <1> HIDE DEF g
  <1> QED
    BY <1>1, <1>2

\* The sum of nothing is zero.
THEOREM SumOfNone ==
    ASSUME NEW f, DOMAIN f = {}
    PROVE  SumFunction(f) = 0
  <1>1. PICK g : Summing(f, SUBSET DOMAIN f, g) /\ SumFunction(f) = g[DOMAIN f]
    BY SumIsSumming, FS_EmptySet
  <1>2. {} \in SUBSET DOMAIN f
    OBVIOUS
  <1> QED
    BY <1>1, <1>2 DEF Summing

LEMMA SumOfNaturals ==
    ASSUME NEW f, IsFiniteSet(DOMAIN f), \A x \in DOMAIN f : f[x] \in Nat
    PROVE  SumFunction(f) \in Nat
  <1>1. PICK g : Summing(f, SUBSET DOMAIN f, g) /\ SumFunction(f) = g[DOMAIN f]
    BY SumIsSumming
  <1>2. Summed(f, g) /\ DOMAIN f \in SUBSET DOMAIN f
    BY <1>1 DEF Summed
  <1> QED
    BY <1>1, <1>2, NaturalSums

\* f has the naturals of e, and one more at x.
OneMore(f, e, x) ==
    /\ IsFiniteSet(DOMAIN e) /\ x \notin DOMAIN e /\ DOMAIN f = DOMAIN e \cup {x}
    /\ \A y \in DOMAIN e : f[y] = e[y]
    /\ \A y \in DOMAIN f : f[y] \in Nat

\* One more summand, in whatever order a sum is taken: what the budgets and the
\* packed diff count one at a time is what the sum over all of them is.
THEOREM SumWithOneMore ==
    ASSUME NEW f, NEW e, NEW x, OneMore(f, e, x)
    PROVE  /\ SumFunction(f) = SumFunction(e) + f[x]
           /\ SumFunction(e) \in Nat /\ SumFunction(f) \in Nat
  <1> SUFFICES ASSUME IsFiniteSet(DOMAIN e), x \notin DOMAIN e,
                      DOMAIN f = DOMAIN e \cup {x},
                      \A y \in DOMAIN e : f[y] = e[y], \A y \in DOMAIN f : f[y] \in Nat
               PROVE  /\ SumFunction(f) = SumFunction(e) + f[x]
                      /\ SumFunction(e) \in Nat /\ SumFunction(f) \in Nat
    BY DEF OneMore
  <1>1. IsFiniteSet(DOMAIN f)
    BY FS_AddElement
  <1>2. PICK g : Summing(f, SUBSET DOMAIN f, g) /\ SumFunction(f) = g[DOMAIN f]
    BY <1>1, SumIsSumming
  <1>3. PICK h : Summing(e, SUBSET DOMAIN e, h) /\ SumFunction(e) = h[DOMAIN e]
    BY SumIsSumming
  <1>4. Summed(f, g) /\ Summed(e, h)
    BY <1>1, <1>2, <1>3 DEF Summed
  <1>5. h[DOMAIN e] = g[DOMAIN e]
    BY <1>4, SameSums
  <1>6. (DOMAIN f) \ {x} = DOMAIN e /\ x \in DOMAIN f
    OBVIOUS
  <1>7. g[DOMAIN f] = f[x] + g[(DOMAIN f) \ {x}]
    BY <1>4, <1>6, TakeOut
  <1>8. g[DOMAIN e] \in Nat /\ g[DOMAIN f] \in Nat
    <2>1. DOMAIN e \in SUBSET DOMAIN f /\ DOMAIN f \in SUBSET DOMAIN f
      OBVIOUS
    <2> QED
      BY <1>4, <2>1, NaturalSums
  <1>9. f[x] \in Nat
    BY <1>6
  <1> QED
    BY <1>2, <1>3, <1>5, <1>6, <1>7, <1>8, <1>9
=============================================================================
