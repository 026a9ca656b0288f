------------------------------ MODULE Recursion -----------------------------
(***************************************************************************)
(* Induction over the naturals with sets for predicates, from the order of *)
(* finite sets by inclusion, and what it gives: the least element of a set *)
(* of naturals, the existence of a function that is defined by recursion,  *)
(* and that of a sequence that sorts a finite set.                         *)
(***************************************************************************)
EXTENDS Naturals, Sequences, FiniteSets, FiniteSetTheorems, SequenceTheorems, TLAPS

\* A set of naturals has a least element: of the intervals 1 .. n for its elements, one
\* holds no other.
LEMMA LeastNatural ==
  ASSUME NEW X \in SUBSET Nat, X # {}
  PROVE  \E x \in X : \A y \in X : x <= y
<1> DEFINE S == Nat
           T == {1 .. n : n \in X}
<1>1. IsWellFoundedOn(StrictSubsetOrdering(S), FiniteSubsetsOf(S))
  BY FS_StrictSubsetOrderingWellFounded
<1>2. T \subseteq FiniteSubsetsOf(S) /\ T # {}
  <2>1. \A n \in X : 1 .. n \subseteq Nat /\ IsFiniteSet(1 .. n)
    <3> TAKE n \in X
    <3>1. n \in Int /\ 1 \in Int
      OBVIOUS
    <3> QED
      BY <3>1, FS_Interval
  <2> QED
    BY <2>1 DEF FiniteSubsetsOf
<1>3. PICK m \in T : \A y \in T : ~(<<y, m>> \in StrictSubsetOrdering(S))
  <2> HIDE DEF S, T
  <2> QED
    BY <1>1, <1>2, WFMin
<1>4. PICK x \in X : m = 1 .. x
  OBVIOUS
<1>5. \A y \in X : ~(y < x)
  <2> SUFFICES ASSUME NEW y \in X, y < x PROVE FALSE
    OBVIOUS
  <2>1. 1 .. y \in T /\ 1 .. y \subseteq 1 .. x /\ x \in 1 .. x /\ x \notin 1 .. y
    OBVIOUS
  <2>2. <<1 .. y, m>> \notin StrictSubsetOrdering(S)
    BY <1>3, <2>1
  <2> QED
    BY <1>2, <1>4, <2>1, <2>2 DEF StrictSubsetOrdering
<1> QED
  BY <1>5

LEMMA Induction ==
  ASSUME NEW P \in SUBSET Nat, 0 \in P, \A n \in P : n + 1 \in P
  PROVE  P = Nat
<1> SUFFICES ASSUME Nat \ P # {} PROVE FALSE
  OBVIOUS
<1>1. PICK x \in Nat \ P : \A y \in Nat \ P : x <= y
  BY LeastNatural
<1>2. x # 0 /\ x - 1 \in Nat /\ x - 1 < x /\ x = (x - 1) + 1
  BY <1>1
<1> QED
  BY <1>1, <1>2

\* Induction up to a bound.
LEMMA BoundedInduction ==
  ASSUME NEW N \in Nat, NEW P \in SUBSET (0 .. N), 0 \in P,
         \A n \in P : n < N => n + 1 \in P
  PROVE  P = 0 .. N
<1> DEFINE Q == {n \in Nat : n <= N => n \in P}
<1>1. Q \in SUBSET Nat /\ 0 \in Q /\ \A n \in Q : n + 1 \in Q
  OBVIOUS
<1>2. Q = Nat
  <2> HIDE DEF Q
  <2> QED
    BY <1>1, Induction
<1>3. ASSUME NEW n \in 0 .. N PROVE n \in P
  <2>1. n \in Q /\ n <= N
    BY <1>2
  <2> QED
    BY <2>1
<1> QED
  BY <1>3

\* A function on 0 .. N that is defined by its first value and a step.
Recursive(f, base, step, N) ==
    /\ f[0] = base
    /\ \A n \in 1 .. N : f[n] = step[<<n, f[n - 1]>>]

LEMMA RecursiveFunction ==
  ASSUME NEW S, NEW base \in S, NEW step \in [Nat \X S -> S], NEW N \in Nat
  PROVE  \E f \in [0 .. N -> S] : Recursive(f, base, step, N)
<1> DEFINE Defined(f, m) == Recursive(f, base, step, m)
           P == {m \in Nat : \E f \in [0 .. m -> S] : Defined(f, m)}
<1>1. 0 \in P
  <2>1. [k \in 0 .. 0 |-> base] \in [0 .. 0 -> S] /\ Defined([k \in 0 .. 0 |-> base], 0)
    BY DEF Recursive
  <2> QED
    BY <2>1
<1>2. ASSUME NEW m \in P PROVE m + 1 \in P
  <2>1. PICK f \in [0 .. m -> S] : Defined(f, m)
    BY <1>2
  <2> DEFINE next == step[<<m + 1, f[m]>>]
             g == [k \in 0 .. m + 1 |-> IF k = m + 1 THEN next ELSE f[k]]
  <2>2. m \in Nat /\ f[m] \in S /\ next \in S
    OBVIOUS
  <2>3. g \in [0 .. m + 1 -> S] /\ g[m + 1] = next /\ \A k \in 0 .. m : g[k] = f[k]
    <3> HIDE DEF next
    <3> QED
      BY <2>2
  <2>4. Defined(g, m + 1)
    <3> HIDE DEF g
    <3>1. g[0] = base
      BY <2>1, <2>2, <2>3 DEF Recursive
    <3>2. ASSUME NEW n \in 1 .. m + 1 PROVE g[n] = step[<<n, g[n - 1]>>]
      <4>1. n - 1 \in 0 .. m
        BY <2>2
      <4>2. CASE n = m + 1
        <5>1. n - 1 = m /\ g[n - 1] = f[m] /\ g[n] = next
          BY <2>2, <2>3, <4>1, <4>2
        <5> QED
          BY <4>2, <5>1
      <4>3. CASE n # m + 1
        <5>1. n \in 1 .. m /\ n \in 0 .. m
          BY <2>2, <4>3
        <5> QED
          BY <2>1, <2>3, <4>1, <5>1 DEF Recursive
      <4> QED
        BY <4>2, <4>3
    <3> QED
      BY <3>1, <3>2 DEF Recursive
  <2> HIDE DEF Defined, g
  <2>5. \E h \in [0 .. m + 1 -> S] : Defined(h, m + 1)
    BY <2>3, <2>4
  <2> QED
    BY <2>2, <2>5
<1>3. P = Nat
  <2>1. P \in SUBSET Nat
    OBVIOUS
  <2> HIDE DEF P
  <2> QED
    BY <1>1, <1>2, <2>1, Induction
<1> QED
  BY <1>3
-----------------------------------------------------------------------------
(* Sorting *)

\* R, a set of pairs, orders the elements of S.
Orders(R, S) ==
    /\ \A x, y, z \in S : <<x, y>> \in R /\ <<y, z>> \in R => <<x, z>> \in R
    /\ \A x, y \in S : x # y => <<x, y>> \in R \/ <<y, x>> \in R

\* order goes through the elements of S in this order.
Sorts(order, S, R) ==
    /\ {order[i] : i \in DOMAIN order} = S
    /\ \A i, j \in DOMAIN order : i < j => <<order[i], order[j]>> \in R

LastOf(x, T, R) == x \in T /\ \A y \in T \ {x} : <<y, x>> \in R

LEMMA LastElement ==
  ASSUME NEW S, NEW R, Orders(R, S), NEW T \in SUBSET S, IsFiniteSet(T), T # {}
  PROVE  \E x \in T : LastOf(x, T, R)
<1> DEFINE Has(U) == \E x \in U : LastOf(x, U, R)
           P == {n \in Nat : \A U \in SUBSET S :
                   IsFiniteSet(U) /\ Cardinality(U) = n + 1 => Has(U)}
<1>1. \A U \in SUBSET S : IsFiniteSet(U) /\ U # {} =>
         /\ Cardinality(U) \in Nat \ {0}
         /\ \A z \in U : IsFiniteSet(U \ {z}) /\ Cardinality(U \ {z}) = Cardinality(U) - 1
  BY FS_CardinalityType, FS_EmptySet, FS_RemoveElement
<1>2. 0 \in P
  <2> SUFFICES ASSUME NEW U \in SUBSET S, IsFiniteSet(U), Cardinality(U) = 1 PROVE Has(U)
    OBVIOUS
  <2>1. PICK x \in U : TRUE
    BY FS_EmptySet
  <2>2. IsFiniteSet(U \ {x}) /\ Cardinality(U \ {x}) = 0
    <3>1. IsFiniteSet(U \ {x}) /\ Cardinality(U \ {x}) = 1 - 1
      BY <2>1, FS_RemoveElement
    <3> QED
      BY <3>1
  <2>3. U \ {x} = {}
    BY <2>2, FS_EmptySet
  <2> QED
    BY <2>1, <2>3 DEF LastOf
<1>3. ASSUME NEW n \in P PROVE n + 1 \in P
  <2> SUFFICES ASSUME NEW U \in SUBSET S, IsFiniteSet(U), Cardinality(U) = (n + 1) + 1
               PROVE  Has(U)
    OBVIOUS
  <2>1. PICK z \in U : TRUE
    BY FS_EmptySet
  <2> DEFINE V == U \ {z}
  <2>2. V \in SUBSET S /\ IsFiniteSet(V) /\ Cardinality(V) = n + 1
    BY <1>1, <2>1
  <2>3. PICK x \in V : LastOf(x, V, R)
    BY <2>2
  <2>4. CASE <<z, x>> \in R
    BY <2>1, <2>3, <2>4 DEF LastOf
  <2>5. CASE <<z, x>> \notin R
    <3>1. <<x, z>> \in R /\ x \in S /\ z \in S
      BY <2>1, <2>3, <2>5 DEF Orders
    <3>2. \A y \in U \ {z} : <<y, z>> \in R
      BY <2>3, <3>1 DEF LastOf, Orders
    <3> QED
      BY <2>1, <3>2 DEF LastOf
  <2> QED
    BY <2>4, <2>5
<1>4. P = Nat
  <2>1. P \in SUBSET Nat
    OBVIOUS
  <2> HIDE DEF P
  <2> QED
    BY <1>2, <1>3, <2>1, Induction
<1>5. Cardinality(T) - 1 \in P /\ Cardinality(T) = (Cardinality(T) - 1) + 1
  <2> HIDE DEF P
  <2>1. Cardinality(T) \in Nat \ {0}
    BY <1>1
  <2> QED
    BY <1>4, <2>1
<1>6. Has(T)
  <2> HIDE DEF Has
  <2> QED
    BY <1>5
<1> QED
  BY <1>6

\* A finite set that is ordered has a sequence of its elements in this order.
LEMMA SortedSequence ==
  ASSUME NEW S, NEW R, Orders(R, S), IsFiniteSet(S)
  PROVE  \E order \in [1 .. Cardinality(S) -> S] : Sorts(order, S, R)
<1> DEFINE Has(U, n) == \E order \in [1 .. n -> U] : Sorts(order, U, R)
           P == {n \in Nat : \A U \in SUBSET S :
                   IsFiniteSet(U) /\ Cardinality(U) = n => Has(U, n)}
<1>1. 0 \in P
  <2> SUFFICES ASSUME NEW U \in SUBSET S, IsFiniteSet(U), Cardinality(U) = 0 PROVE Has(U, 0)
    OBVIOUS
  <2>1. U = {} /\ 1 .. 0 = {}
    BY FS_EmptySet
  <2> DEFINE order == [i \in 1 .. 0 |-> 0]
  <2>2. order \in [1 .. 0 -> U] /\ DOMAIN order = {}
    BY <2>1
  <2>3. Sorts(order, U, R)
    BY <2>1, <2>2 DEF Sorts
  <2> QED
    BY <2>2, <2>3
<1>2. ASSUME NEW n \in P PROVE n + 1 \in P
  <2> SUFFICES ASSUME NEW U \in SUBSET S, IsFiniteSet(U), Cardinality(U) = n + 1
               PROVE  Has(U, n + 1)
    OBVIOUS
  <2>1. U # {}
    BY FS_EmptySet
  <2>2. PICK x \in U : LastOf(x, U, R)
    <3>1. \E x \in U : LastOf(x, U, R)
      BY <2>1, LastElement
    <3> QED
      BY <3>1
  <2> DEFINE V == U \ {x}
  <2>3. V \in SUBSET S /\ IsFiniteSet(V) /\ Cardinality(V) = n
    <3>1. IsFiniteSet(V) /\ Cardinality(V) = (n + 1) - 1
      BY <2>2, FS_RemoveElement
    <3> QED
      BY <3>1
  <2>4. Has(V, n)
    BY <2>3
  <2>5. PICK order \in [1 .. n -> V] : Sorts(order, V, R)
    BY <2>4
  <2> DEFINE longer == [i \in 1 .. n + 1 |-> IF i = n + 1 THEN x ELSE order[i]]
  <2>6. /\ n \in Nat /\ \A i : i \in 1 .. n + 1 <=> i \in 1 .. n \/ i = n + 1
        /\ \A i \in 1 .. n : i \in Nat /\ i # n + 1 /\ i < n + 1
    OBVIOUS
  <2>7. /\ longer \in [1 .. n + 1 -> U] /\ DOMAIN longer = 1 .. n + 1 /\ longer[n + 1] = x
        /\ \A i \in 1 .. n : longer[i] = order[i]
    BY <2>2, <2>6
  <2> HIDE DEF longer
  <2>8. {longer[i] : i \in DOMAIN longer} = U
    <3>1. {order[i] : i \in 1 .. n} = V
      BY <2>5 DEF Sorts
    <3> QED
      BY <2>2, <2>6, <2>7, <3>1
  <2>9. \A i, j \in DOMAIN longer : i < j => <<longer[i], longer[j]>> \in R
    <3> SUFFICES ASSUME NEW i \in 1 .. n + 1, NEW j \in 1 .. n + 1, i < j
                 PROVE  <<longer[i], longer[j]>> \in R
      BY <2>7
    <3>1. i \in 1 .. n
      BY <2>6
    <3>2. CASE j = n + 1
      <4>1. order[i] \in V
        BY <3>1
      <4> QED
        BY <2>2, <2>7, <3>1, <3>2, <4>1 DEF LastOf
    <3>3. CASE j \in 1 .. n
      <4>1. <<order[i], order[j]>> \in R
        BY <2>5, <3>1, <3>3 DEF Sorts
      <4> QED
        BY <2>7, <3>1, <3>3, <4>1
    <3> QED
      BY <2>6, <3>2, <3>3
  <2>10. Sorts(longer, U, R)
    BY <2>8, <2>9 DEF Sorts
  <2> QED
    BY <2>7, <2>10
<1>3. P = Nat
  <2>1. P \in SUBSET Nat
    OBVIOUS
  <2> HIDE DEF P
  <2> QED
    BY <1>1, <1>2, <2>1, Induction
<1>4. Has(S, Cardinality(S))
  <2> HIDE DEF Has
  <2>1. Cardinality(S) \in Nat
    BY FS_CardinalityType
  <2>2. Cardinality(S) \in P
    <3> HIDE DEF P
    <3> QED
      BY <1>3, <2>1
  <2> QED
    BY <2>2
<1> QED
  BY <1>4
=============================================================================
