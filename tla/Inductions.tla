----------------------------- MODULE Inductions -----------------------------
(***************************************************************************)
(* Induction without operators as parameters: the least and the greatest   *)
(* element of a set of naturals, from the well-foundedness of the finite   *)
(* subsets of a set (the interval below a least element, and the part      *)
(* above a greatest, are minimal), the induction that follows from them,   *)
(* the function that a fold over a finite set is, and the one sequence     *)
(* that sorts a finite set.                                                *)
(***************************************************************************)
EXTENDS Integers, FiniteSetTheorems, TLAPS

\* A set of naturals has a least element.
LEMMA LeastExists ==
  ASSUME NEW T \in SUBSET Nat, T # {}
  PROVE  \E x \in T : \A y \in T : x <= y
<1> DEFINE F == {0..n : n \in T}
           R == StrictSubsetOrdering(Nat)
<1>1. IsWellFoundedOn(R, FiniteSubsetsOf(Nat))
  BY FS_StrictSubsetOrderingWellFounded
<1>2. F \subseteq FiniteSubsetsOf(Nat) /\ F # {}
  <2>1. \A n \in T : IsFiniteSet(0..n)
    BY FS_Interval
  <2>2. \A n \in T : 0..n \subseteq Nat
    OBVIOUS
  <2>3. \A n \in T : 0..n \in FiniteSubsetsOf(Nat)
    BY <2>1, <2>2 DEF FiniteSubsetsOf
  <2> QED BY <2>3
<1> HIDE DEF R, F
<1>3. PICK s \in F : \A t \in F : ~ (<<t, s>> \in R)
  BY <1>1, <1>2, WFMin
<1>4. PICK x \in T : s = 0..x
  BY DEF F
<1>5. ASSUME NEW y \in T, y < x PROVE FALSE
  <2>1. 0..y \in F /\ 0..y \subseteq 0..x /\ x \in 0..x /\ x \notin 0..y
    BY <1>5 DEF F
  <2>2. 0..y \subseteq Nat /\ 0..x \subseteq Nat
   OBVIOUS
  <2>3. <<0..y, 0..x>> \in R
    BY <2>1, <2>2 DEF R, StrictSubsetOrdering
  <2> QED BY <1>3, <1>4, <2>1, <2>3
<1> QED BY <1>5

\* A finite one has a greatest.
LEMMA GreatestExists ==
  ASSUME NEW T \in SUBSET Nat, IsFiniteSet(T), T # {}
  PROVE  \E x \in T : \A y \in T : y <= x
<1> DEFINE Above(x) == {y \in T : y > x}
           F == {Above(x) : x \in T}
           R == StrictSubsetOrdering(T)
<1>1. IsWellFoundedOn(R, FiniteSubsetsOf(T))
  BY FS_StrictSubsetOrderingWellFounded
<1>2. F \subseteq FiniteSubsetsOf(T) /\ F # {}
  <2>1. \A x \in T : IsFiniteSet(Above(x)) /\ Above(x) \subseteq T
    BY FS_Subset
  <2> HIDE DEF Above
  <2>2. \A x \in T : Above(x) \in FiniteSubsetsOf(T)
    BY <2>1 DEF FiniteSubsetsOf
  <2> QED BY <2>2
<1> HIDE DEF R, F
<1>3. PICK s \in F : \A t \in F : ~ (<<t, s>> \in R)
  BY <1>1, <1>2, WFMin
<1>4. PICK x \in T : s = Above(x)
  BY DEF F
<1>5. ASSUME NEW y \in T, y > x PROVE FALSE
  <2>0. Above(y) \in F
    BY DEF F
  <2>1. /\ y \in Above(x) /\ y \notin Above(y)
        /\ Above(y) \subseteq T /\ Above(x) \subseteq T
    BY <1>5
  <2>3. \A z \in Above(y) : z \in Above(x)
    <3>1. \A z \in T : z > y => z > x
      BY <1>5
    <3> QED BY <3>1
  <2> HIDE DEF Above
  <2>2. <<Above(y), Above(x)>> \in R
    BY <2>1, <2>3 DEF R, StrictSubsetOrdering
  <2> QED BY <1>3, <1>4, <2>0, <2>2
<1> QED BY <1>5

\* The image of a finite set is finite.
LEMMA ImageIsFinite ==
  ASSUME NEW S, IsFiniteSet(S), NEW f, DOMAIN f = S
  PROVE  IsFiniteSet({f[x] : x \in S})
<1> DEFINE T == {f[x] : x \in S}
           g == [x \in S |-> f[x]]
<1>1. g \in [S -> T] /\ \A t \in T : \E x \in S : g[x] = t
  OBVIOUS
<1>2. g \in Surjection(S, T)
  BY <1>1 DEF Surjection
<1> QED BY <1>2, FS_Surjection

\* Induction over the naturals, stated of the set of those that have a property.
LEMMA AllNaturals ==
  ASSUME NEW T, 0 \in T, \A n \in Nat : n \in T => n + 1 \in T
  PROVE  Nat \subseteq T
<1> SUFFICES ASSUME Nat \ T # {} PROVE FALSE
  OBVIOUS
<1>1. PICK x \in Nat \ T : \A y \in Nat \ T : x <= y
  BY LeastExists
<1>2. x - 1 \in Nat /\ x - 1 \in T
  BY <1>1
<1> QED BY <1>1, <1>2

\* A fold over a finite set, as the library of folds defines it, exists.
Foldable(S, V, base, pick, op) ==
  /\ IsFiniteSet(S) /\ base \in V
  /\ \A s \in SUBSET S : s # {} => pick[s] \in s
  /\ \A x \in S, v \in V : op[<<x, v>>] \in V
Folds(g, S, base, pick, op) ==
  \A s \in SUBSET S :
    g[s] = IF s = {} THEN base ELSE op[<<pick[s], g[s \ {pick[s]}]>>]

LEMMA FoldExists ==
  ASSUME NEW S, NEW V, NEW base, NEW pick, NEW op, Foldable(S, V, base, pick, op)
  PROVE  \E g \in [SUBSET S -> V] : Folds(g, S, base, pick, op)
<1>0. /\ IsFiniteSet(S) /\ base \in V
      /\ \A s \in SUBSET S : s # {} => pick[s] \in s
      /\ \A x \in S, v \in V : op[<<x, v>>] \in V
  BY DEF Foldable
<1> DEFINE Good(g, n) ==
      \A s \in SUBSET S : Cardinality(s) <= n =>
        g[s] = IF s = {} THEN base ELSE op[<<pick[s], g[s \ {pick[s]}]>>]
      T == {n \in Nat : \E g \in [SUBSET S -> V] : Good(g, n)}
<1>1. \A s \in SUBSET S : IsFiniteSet(s) /\ Cardinality(s) \in Nat
  BY <1>0, FS_Subset, FS_CardinalityType
<1>2. \A s \in SUBSET S : s # {} =>
        /\ pick[s] \in S /\ s \ {pick[s]} \in SUBSET S
        /\ Cardinality(s \ {pick[s]}) = Cardinality(s) - 1
  BY <1>0, <1>1, FS_RemoveElement
<1>3. \A s \in SUBSET S : Cardinality(s) = 0 <=> s = {}
  BY <1>1, FS_EmptySet
<1>4. 0 \in T
  <2> DEFINE g == [s \in SUBSET S |-> base]
  <2>1. g \in [SUBSET S -> V]
    BY <1>0
  <2>2. Good(g, 0)
    BY <1>1, <1>3
  <2> QED BY <2>1, <2>2
<1>5. ASSUME NEW n \in Nat, n \in T
      PROVE  n + 1 \in T
  <2>1. PICK g \in [SUBSET S -> V] : Good(g, n)
    BY <1>5
  <2> DEFINE h == [s \in SUBSET S |-> IF s = {} THEN base ELSE op[<<pick[s], g[s \ {pick[s]}]>>]]
  <2>2. h \in [SUBSET S -> V]
    <3>1. ASSUME NEW s \in SUBSET S, s # {}
          PROVE  op[<<pick[s], g[s \ {pick[s]}]>>] \in V
      BY <1>0, <1>2, <3>1
    <3> QED BY <1>0, <3>1
  <2>3. \A s \in SUBSET S : Cardinality(s) <= n => h[s] = g[s]
    BY <2>1
  <2>4. ASSUME NEW s \in SUBSET S, Cardinality(s) <= n + 1, s # {}
        PROVE  h[s] = op[<<pick[s], h[s \ {pick[s]}]>>]
    <3>1. Cardinality(s \ {pick[s]}) <= n /\ s \ {pick[s]} \in SUBSET S
      BY <1>1, <1>2, <2>4
    <3>2. h[s \ {pick[s]}] = g[s \ {pick[s]}]
      BY <2>3, <3>1
    <3> QED BY <2>4, <3>2
  <2>5. Good(h, n + 1)
    BY <2>4
  <2> HIDE DEF h, Good
  <2> QED BY <2>2, <2>5
<1> HIDE DEF T
<1>6. Cardinality(S) \in T
  BY <1>1, <1>4, <1>5, AllNaturals
<1>7. PICK g \in [SUBSET S -> V] : Good(g, Cardinality(S))
  BY <1>6 DEF T
<1>8. \A s \in SUBSET S : Cardinality(s) <= Cardinality(S)
  BY <1>0, FS_Subset
<1> QED BY <1>7, <1>8 DEF Folds

\* What a fold over the numbers up to n, the greatest first, comes to number
\* after number.
TakesTurns(h, n, V, base, op) ==
  /\ n \in Nat /\ base \in V /\ \A k \in 1..n, v \in V : op[<<k, v>>] \in V
  /\ h[{}] = base
  /\ \A k \in 1..n : h[1..(k - 1)] \in V => h[1..k] = op[<<k, h[1..(k - 1)]>>]

LEMMA FoldsInTurn ==
  ASSUME NEW n, NEW V, NEW base, NEW op, NEW h, TakesTurns(h, n, V, base, op)
  PROVE  \E R \in [0..n -> V] :
           /\ R[0] = base /\ \A k \in 1..n : R[k] = op[<<k, R[k - 1]>>]
           /\ h[1..n] = R[n]
<1> DEFINE R == [k \in 0..n |-> h[1..k]]
<1>0. /\ n \in Nat /\ base \in V /\ \A k \in 1..n, v \in V : op[<<k, v>>] \in V
      /\ h[{}] = base
      /\ \A k \in 1..n : h[1..(k - 1)] \in V => h[1..k] = op[<<k, h[1..(k - 1)]>>]
  BY DEF TakesTurns
<1>1. R[0] = base
  <2>1. 1..0 = {}
    OBVIOUS
  <2> QED BY <1>0, <2>1
<1>2. ASSUME NEW k \in 1..n, R[k - 1] \in V
      PROVE  R[k] = op[<<k, R[k - 1]>>] /\ R[k] \in V
  <2>1. k \in 0..n /\ k - 1 \in 0..n
    BY <1>0
  <2>2. R[k] = h[1..k] /\ R[k - 1] = h[1..(k - 1)]
    BY <2>1
  <2> HIDE DEF R
  <2> QED BY <1>0, <1>2, <2>2
<1>3. ASSUME NEW k \in 0..n
      PROVE  R[k] \in V
  <2> DEFINE T == {m \in Nat : m <= n => R[m] \in V}
  <2>1. 0 \in T
    BY <1>0, <1>1
  <2>2. ASSUME NEW m \in Nat, m \in T
        PROVE  m + 1 \in T
    <3>1. CASE m + 1 <= n
      <4>1. m + 1 \in 1..n /\ m <= n /\ (m + 1) - 1 = m
        BY <1>0, <3>1
      <4>2. R[m] \in V
        BY <2>2, <4>1
      <4> HIDE DEF R
      <4>3. R[(m + 1) - 1] \in V
        BY <4>1, <4>2
      <4>4. R[m + 1] \in V
        BY <1>2, <4>1, <4>3
      <4> QED BY <4>4
    <3> QED BY <3>1
  <2> HIDE DEF T
  <2>3. k \in T /\ k <= n
    BY <1>0, <2>1, <2>2, AllNaturals
  <2> HIDE DEF R
  <2> QED BY <2>3 DEF T
<1>4. \A k \in 1..n : k - 1 \in 0..n
  BY <1>0
<1>5. R \in [0..n -> V] /\ h[1..n] = R[n]
  BY <1>0, <1>3
<1> HIDE DEF R
<1> QED BY <1>1, <1>2, <1>3, <1>4, <1>5

\* A strict linear order of a set, as pairs, and a sequence of the set in that
\* order.
Orders(less, S) ==
  /\ \A x, y \in S : x # y => <<x, y>> \in less \/ <<y, x>> \in less
  /\ \A x \in S : <<x, x>> \notin less
  /\ \A x, y, z \in S : <<x, y>> \in less /\ <<y, z>> \in less => <<x, z>> \in less
Sorts(q, S, less) ==
  /\ q \in [1..Cardinality(S) -> S]
  /\ \A j, k \in 1..Cardinality(S) : j < k => <<q[j], q[k]>> \in less
  /\ \A x \in S : \E k \in 1..Cardinality(S) : q[k] = x

LEMMA LastExists ==
  ASSUME NEW S, IsFiniteSet(S), NEW less, Orders(less, S), NEW T \in SUBSET S, T # {}
  PROVE  \E x \in T : \A y \in T : y # x => <<y, x>> \in less
<1> DEFINE Above(x) == {y \in T : <<x, y>> \in less}
           F == {Above(x) : x \in T}
           R == StrictSubsetOrdering(T)
<1>0. /\ \A x, y \in T : x # y => <<x, y>> \in less \/ <<y, x>> \in less
      /\ \A x \in T : <<x, x>> \notin less
      /\ \A x, y, z \in T : <<x, y>> \in less /\ <<y, z>> \in less => <<x, z>> \in less
  BY DEF Orders
<1>1. IsWellFoundedOn(R, FiniteSubsetsOf(T))
  BY FS_StrictSubsetOrderingWellFounded
<1>2. F \subseteq FiniteSubsetsOf(T) /\ F # {}
  <2>1. \A x \in T : Above(x) \in SUBSET T /\ Above(x) \in SUBSET S
    OBVIOUS
  <2> HIDE DEF Above
  <2>2. \A x \in T : IsFiniteSet(Above(x))
    BY <2>1, FS_Subset
  <2>3. \A x \in T : Above(x) \in FiniteSubsetsOf(T)
    BY <2>1, <2>2 DEF FiniteSubsetsOf
  <2> QED BY <2>3
<1> HIDE DEF R, F
<1>3. PICK s \in F : \A t \in F : ~ (<<t, s>> \in R)
  BY <1>1, <1>2, WFMin
<1>4. PICK x \in T : s = Above(x)
  BY DEF F
<1>5. ASSUME NEW y \in T, <<x, y>> \in less PROVE FALSE
  <2>0. Above(y) \in F
    BY DEF F
  <2>1. /\ y \in Above(x) /\ y \notin Above(y)
        /\ Above(y) \subseteq T /\ Above(x) \subseteq T
    BY <1>0, <1>5
  <2>3. \A z \in Above(y) : z \in Above(x)
    BY <1>0, <1>5
  <2> HIDE DEF Above
  <2>2. <<Above(y), Above(x)>> \in R
    BY <2>1, <2>3 DEF R, StrictSubsetOrdering
  <2> QED BY <1>3, <1>4, <2>0, <2>2
<1> QED BY <1>0, <1>5

\* Every finite set can be sorted.
LEMMA SortedExists ==
  ASSUME NEW S, IsFiniteSet(S), NEW less, Orders(less, S)
  PROVE  \E q : Sorts(q, S, less)
<1> DEFINE T == {n \in Nat : \A s \in SUBSET S : Cardinality(s) = n => \E q : Sorts(q, s, less)}
<1>1. \A s \in SUBSET S : IsFiniteSet(s) /\ Cardinality(s) \in Nat
  BY FS_Subset, FS_CardinalityType
<1>2. 0 \in T
  <2>1. ASSUME NEW s \in SUBSET S, Cardinality(s) = 0
        PROVE  \E q : Sorts(q, s, less)
    <3>1. s = {}
      BY <1>1, <2>1, FS_EmptySet
    <3>2. Sorts(<<>>, s, less)
      BY <2>1, <3>1 DEF Sorts
    <3> QED BY <3>2
  <2> QED BY <2>1
<1>3. ASSUME NEW n \in Nat, n \in T
      PROVE  n + 1 \in T
  <2>1. ASSUME NEW s \in SUBSET S, Cardinality(s) = n + 1
        PROVE  \E q : Sorts(q, s, less)
    <3>1. s # {}
      BY <2>1, FS_EmptySet
    <3>2. PICK x \in s : \A y \in s : y # x => <<y, x>> \in less
      BY <3>1, LastExists
    <3> DEFINE t == s \ {x}
    <3>3. t \in SUBSET S /\ Cardinality(t) = n
      <4>1. IsFiniteSet(s)
        BY <1>1
      <4>2. Cardinality(s \ {x}) = Cardinality(s) - 1
        BY <4>1, FS_RemoveElement
      <4> QED BY <2>1, <4>2
    <3>4. PICK p : Sorts(p, t, less)
      BY <1>3, <3>3
    <3>5. /\ p \in [1..n -> t]
          /\ \A j, k \in 1..n : j < k => <<p[j], p[k]>> \in less
          /\ \A y \in t : \E k \in 1..n : p[k] = y
      BY <3>3, <3>4 DEF Sorts
    <3> DEFINE q == [k \in 1..(n + 1) |-> IF k = n + 1 THEN x ELSE p[k]]
    <3>6. \A k \in 1..n : k \in 1..(n + 1) /\ q[k] = p[k] /\ q[k] \in t
      BY <3>5
    <3>7. q[n + 1] = x /\ \A k \in 1..(n + 1) : k = n + 1 \/ k \in 1..n
      OBVIOUS
    <3>8. q \in [1..(n + 1) -> s]
      BY <3>5
    <3> HIDE DEF q
    <3>9. ASSUME NEW j \in 1..(n + 1), NEW k \in 1..(n + 1), j < k
          PROVE  <<q[j], q[k]>> \in less
      <4>1. j \in 1..n
        BY <3>9
      <4>2. CASE k = n + 1
        BY <3>2, <3>6, <3>7, <4>1, <4>2
      <4>3. CASE k \in 1..n
        BY <3>5, <3>6, <3>9, <4>1, <4>3
      <4> QED BY <3>7, <4>2, <4>3
    <3>10. ASSUME NEW y \in s
           PROVE  \E k \in 1..(n + 1) : q[k] = y
      <4>1. CASE y = x
        BY <3>7, <4>1
      <4>2. CASE y # x
        BY <3>5, <3>6, <4>2
      <4> QED BY <4>1, <4>2
    <3> QED BY <2>1, <3>8, <3>9, <3>10 DEF Sorts
  <2> QED BY <2>1
<1> HIDE DEF T
<1>4. Cardinality(S) \in T
  BY <1>1, <1>2, <1>3, AllNaturals
<1> QED BY <1>4 DEF T

\* An ordered sequence as long as the set has every element of it.
LEMMA SortedIs ==
  ASSUME NEW S, IsFiniteSet(S), NEW less, Orders(less, S), NEW q \in [1..Cardinality(S) -> S],
         \A j, k \in 1..Cardinality(S) : j < k => <<q[j], q[k]>> \in less
  PROVE  Sorts(q, S, less)
<1> DEFINE n == Cardinality(S)
<1>1. n \in Nat
  BY FS_CardinalityType
<1>2. Cardinality(1..n) = n
  BY <1>1, FS_Interval
<1>3. \A j, k \in 1..n : q[j] = q[k] => j = k
  <2>1. TAKE j, k \in 1..n
  <2>2. j < k \/ k < j \/ j = k
    BY <1>1
  <2> QED BY <2>2 DEF Orders
<1> HIDE DEF n
<1>4. q \in Injection(1..n, S)
  BY <1>3 DEF Injection, IsInjective, n
<1>5. q \in Surjection(1..n, S)
  BY <1>2, <1>4, FS_Injection DEF n
<1> QED BY <1>5 DEF Surjection, Sorts, n

\* A set is sorted in one way.
LEMMA SortedUnique ==
  ASSUME NEW S, IsFiniteSet(S), NEW less, Orders(less, S), NEW p, NEW q,
         Sorts(p, S, less), Sorts(q, S, less)
  PROVE  p = q
<1> DEFINE n == Cardinality(S)
           T == {k \in 1..n : p[k] # q[k]}
<1>1. n \in Nat
  BY FS_CardinalityType
<1> HIDE DEF n
<1>2. /\ p \in [1..n -> S] /\ q \in [1..n -> S]
      /\ \A j, k \in 1..n : j < k => <<p[j], p[k]>> \in less /\ <<q[j], q[k]>> \in less
      /\ \A x \in S : \E k \in 1..n : p[k] = x
      /\ \A x \in S : \E k \in 1..n : q[k] = x
  BY DEF Sorts, n
<1>3. /\ \A x \in S : <<x, x>> \notin less
      /\ \A x, y, z \in S : <<x, y>> \in less /\ <<y, z>> \in less => <<x, z>> \in less
  BY DEF Orders
<1>4. ASSUME T # {} PROVE FALSE
  <2>0. T \in SUBSET Nat
    BY <1>1
  <2>1. PICK k \in T : \A j \in T : k <= j
    BY <1>4, <2>0, LeastExists
  <2>2. k \in 1..n /\ p[k] # q[k] /\ p[k] \in S /\ q[k] \in S
    BY <1>2
  <2>3. \A j \in 1..n : j < k => p[j] = q[j]
    BY <2>1
  <2>4. PICK j \in 1..n : q[j] = p[k]
    BY <1>2, <2>2
  <2>5. PICK i \in 1..n : p[i] = q[k]
    BY <1>2, <2>2
  <2>6. ~(j < k) /\ ~(i < k) /\ i # k /\ j # k
    BY <1>2, <1>3, <2>2, <2>3, <2>4, <2>5
  <2>7. k < j /\ k < i
    BY <2>2, <2>6
  <2>8. <<q[k], q[j]>> \in less /\ <<p[k], p[i]>> \in less
    BY <1>2, <2>2, <2>7
  <2>9. <<q[k], p[k]>> \in less /\ <<p[k], q[k]>> \in less
    BY <2>4, <2>5, <2>8
  <2>10. <<q[k], q[k]>> \in less
    BY <1>3, <2>2, <2>9
  <2> QED BY <1>3, <2>2, <2>10
<1>5. \A k \in 1..n : p[k] = q[k]
  BY <1>4
<1>6. p = [k \in 1..n |-> p[k]] /\ q = [k \in 1..n |-> q[k]]
  BY <1>2
<1> QED BY <1>5, <1>6
=============================================================================
