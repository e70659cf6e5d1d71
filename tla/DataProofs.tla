----------------------------- MODULE DataProofs -----------------------------
(***************************************************************************)
(* What the proofs about parsing, listing and the cursor have in common:   *)
(* induction over the natural numbers, the steps of a loop that is written *)
(* as a fold, and the order of a SELECT.                                   *)
(***************************************************************************)
EXTENDS Order, Sequences, SequencesExt, FiniteSetTheorems, WellFoundedInduction, TLAPS

\* Every non-empty set of natural numbers has a least member.
LEMMA LeastNumber ==
  ASSUME NEW S \in SUBSET Nat, S # {}
  PROVE  \E x \in S : \A y \in S : x <= y
<1>1. PICK x \in S : \A y \in S : ~(<<y, x>> \in OpToRel(<, Nat))
  BY NatLessThanWellFounded, WFMin
<1>2. \A y \in S : x \in Nat /\ y \in Nat /\ ~(y < x)
  BY <1>1 DEF OpToRel
<1> QED
  BY <1>2

\* A set that holds 0, and with a number the next one, holds them all.
LEMMA Induct ==
  ASSUME NEW S, 0 \in S, \A k \in Nat : k \in S => k + 1 \in S
  PROVE  Nat \subseteq S
<1> SUFFICES ASSUME Nat \ S # {} PROVE FALSE
  OBVIOUS
<1>1. PICK x \in Nat \ S : \A y \in Nat \ S : x <= y
  BY LeastNumber
<1>2. x - 1 \in Nat /\ x = (x - 1) + 1
  BY <1>1
<1>3. x - 1 \in S
  BY <1>1, <1>2
<1> QED
  BY <1>1, <1>2, <1>3

\* The same up to n, for a loop that stops there.
LEMMA InductUpto ==
  ASSUME NEW n \in Nat, NEW S, 0 \in S, \A k \in 1..n : k - 1 \in S => k \in S
  PROVE  0..n \subseteq S
<1> DEFINE T == S \cup {k \in Nat : k > n}
<1>1. 0 \in T
  OBVIOUS
<1>2. ASSUME NEW k \in Nat, k \in T PROVE k + 1 \in T
  <2>1. CASE k + 1 > n
    BY <2>1
  <2>2. CASE k + 1 <= n
    BY <1>2, <2>2
  <2> QED
    BY <2>1, <2>2
<1> HIDE DEF T
<1>3. Nat \subseteq T
  BY <1>1, <1>2, Induct
<1> QED
  BY <1>3 DEF T

\* The least member is what Min chooses, the greatest what Max chooses.
LEMMA MinIs ==
  ASSUME NEW S \in SUBSET Int, NEW x \in S, \A y \in S : x <= y
  PROVE  Min(S) = x
<1>1. \A y \in S : (\A z \in S : y <= z) => y = x
  OBVIOUS
<1> QED
  BY <1>1 DEF Min

\* The element no smaller than the others is the maximum.
LEMMA MaxIs ==
  ASSUME NEW S \in SUBSET Int, NEW x \in S, \A y \in S : x >= y
  PROVE  Max(S) = x
<1>1. \A y \in S : (\A z \in S : y >= z) => y = x
  OBVIOUS
<1> QED
  BY <1>1 DEF Max
-----------------------------------------------------------------------------
(* FoldLeft over a sequence of length n calls its operator on the largest  *)
(* index of ever smaller sets of indices.                                  *)

\* The table of its values: g is the operator, as a function of the value so
\* far and the index.
FoldTable(A, b, g, n, it) ==
  /\ it \in [SUBSET (1..n) -> A]
  /\ it[{}] = b
  /\ \A S \in SUBSET (1..n) : S # {} => it[S] = g[it[S \ {Max(S)}]][Max(S)]

\* A set of indices has a largest one.
LEMMA LargestIndex ==
  ASSUME NEW n \in Nat, NEW S \in SUBSET (1..n), S # {}
  PROVE  Max(S) \in S /\ \A y \in S : Max(S) >= y
<1> DEFINE T == {n - y : y \in S}
<1>0. \A y \in S : y \in Int /\ y <= n /\ n - y \in Nat /\ n - y \in T
  OBVIOUS
<1>1. T \in SUBSET Nat /\ T # {}
  BY <1>0
<1>2. PICK x \in T : \A y \in T : x <= y
  BY <1>1, LeastNumber
<1>3. PICK z \in S : x = n - z
  BY <1>2
<1>4. ASSUME NEW y \in S PROVE z \in Int /\ y \in Int /\ z >= y
  <2>1. n - z <= n - y
    BY <1>0, <1>2, <1>3
  <2> QED
    BY <1>0, <2>1
<1>5. Max(S) = z
  BY <1>0, <1>4, MaxIs
<1> QED
  BY <1>3, <1>4, <1>5

\* The table exists, whatever the operator.
LEMMA FoldTableExists ==
  ASSUME NEW n \in Nat, NEW A, NEW b \in A, NEW g \in [A -> [1..n -> A]]
  PROVE  \E it : FoldTable(A, b, g, n, it)
<1> DEFINE Upto == {k \in Nat : k <= n => \E it : FoldTable(A, b, g, k, it)}
<1>1. 0 \in Upto
  <2>1. 1..0 = {} /\ SUBSET {} = {{}}
    OBVIOUS
  <2>2. FoldTable(A, b, g, 0, [S \in {{}} |-> b])
    BY <2>1 DEF FoldTable
  <2> QED
    BY <2>2
<1>2. ASSUME NEW k \in Nat, k \in Upto PROVE k + 1 \in Upto
  <2> SUFFICES ASSUME k + 1 <= n PROVE \E it : FoldTable(A, b, g, k + 1, it)
    OBVIOUS
  <2>1. PICK it : FoldTable(A, b, g, k, it)
    BY <1>2
  <2> DEFINE less(S) == S \ {k + 1}
             nit == [S \in SUBSET (1..(k + 1)) |->
                       IF k + 1 \in S THEN g[it[less(S)]][k + 1] ELSE it[S]]
  <2>2. \A S \in SUBSET (1..(k + 1)) : less(S) \in SUBSET (1..k) /\ (k + 1 \notin S => less(S) = S)
    OBVIOUS
  <2>3. \A S \in SUBSET (1..k) : it[S] \in A
    BY <2>1 DEF FoldTable
  <2>4. nit \in [SUBSET (1..(k + 1)) -> A]
    <3>1. k + 1 \in 1..n
      OBVIOUS
    <3>2. ASSUME NEW S \in SUBSET (1..(k + 1)) PROVE g[it[less(S)]][k + 1] \in A
      <4>1. it[less(S)] \in A
        BY <2>2, <2>3
      <4> HIDE DEF less
      <4> QED
        BY <3>1, <4>1
    <3>3. ASSUME NEW S \in SUBSET (1..(k + 1)), k + 1 \notin S PROVE it[S] \in A
      BY <2>2, <2>3, <3>3
    <3> HIDE DEF less
    <3> QED
      BY <3>2, <3>3
  <2>5. ASSUME NEW S \in SUBSET (1..k)
        PROVE  S \in SUBSET (1..(k + 1)) /\ k + 1 \notin S /\ nit[S] = it[S]
    <3>1. S \in SUBSET (1..(k + 1)) /\ k + 1 \notin S
      OBVIOUS
    <3> QED
      BY <3>1
  <2>6. nit[{}] = b
    BY <2>1, <2>5 DEF FoldTable
  <2>7. ASSUME NEW S \in SUBSET (1..(k + 1)), S # {}
        PROVE  nit[S] = g[nit[S \ {Max(S)}]][Max(S)]
    <3>1. CASE k + 1 \in S
      <4>1. Max(S) = k + 1
        BY <3>1, MaxIs
      <4>2. nit[S] = g[it[less(S)]][k + 1]
        BY <3>1
      <4>3. nit[less(S)] = it[less(S)]
        BY <2>2, <2>5
      <4> QED
        BY <4>1, <4>2, <4>3
    <3>2. CASE k + 1 \notin S
      <4>1. S \in SUBSET (1..k)
        BY <2>2, <3>2
      <4>2. S \ {Max(S)} \in SUBSET (1..k)
        BY <4>1
      <4>3. it[S] = g[it[S \ {Max(S)}]][Max(S)]
        BY <2>1, <2>7, <4>1 DEF FoldTable
      <4> HIDE DEF nit
      <4> QED
        BY <2>5, <4>1, <4>2, <4>3
    <3> QED
      BY <3>1, <3>2
  <2> HIDE DEF nit
  <2>8. FoldTable(A, b, g, k + 1, nit)
    BY <2>4, <2>6, <2>7 DEF FoldTable
  <2> QED
    BY <2>8
<1> HIDE DEF Upto
<1>3. n \in Upto
  BY <1>1, <1>2, Induct
<1> QED
  BY <1>3 DEF Upto

\* Along the prefixes of the indices, the table is what the loop computes.
LEMMA PrefixIndices ==
  ASSUME NEW n \in Nat, NEW k \in 1..n
  PROVE  /\ 1..k \in SUBSET (1..n) /\ 1..(k - 1) \in SUBSET (1..n)
         /\ 1..k # {} /\ Max(1..k) = k /\ (1..k) \ {k} = 1..(k - 1)
<1>1. k \in 1..k /\ 1..k \in SUBSET Int /\ \A y \in 1..k : k >= y
  OBVIOUS
<1>2. Max(1..k) = k
  BY <1>1, MaxIs
<1> QED
  BY <1>2

\* `it' obeys the recursion of the fold on values of A.
FoldRecursion(A, b, g, n, it) ==
  /\ it[{}] = b
  /\ \A S \in SUBSET (1..n) :
       S # {} /\ it[S \ {Max(S)}] \in A => it[S] = g[it[S \ {Max(S)}]][Max(S)]

\* v has the values after 0, 1, .., n turns of the loop, the last of which is r.
LoopRun(A, b, g, n, v, r) ==
  v \in [0..n -> A] /\ v[0] = b /\ v[n] = r /\ \A k \in 1..n : v[k] = g[v[k - 1]][k]

\* A fold is a loop.
LEMMA FoldTrace ==
  ASSUME NEW n \in Nat, NEW A, NEW b \in A, NEW g \in [A -> [1..n -> A]], NEW it,
         FoldRecursion(A, b, g, n, it)
  PROVE  \E v : LoopRun(A, b, g, n, v, it[1..n])
<1> DEFINE T == {k \in Nat : it[1..k] \in A}
           v == [k \in 0..n |-> it[1..k]]
<1>1. it[1..0] = b
  <2>1. 1..0 = {}
    OBVIOUS
  <2> QED
    BY <2>1 DEF FoldRecursion
<1>2. ASSUME NEW k \in 1..n, it[1..(k - 1)] \in A
      PROVE  it[1..k] = g[it[1..(k - 1)]][k]
  <2>1. /\ 1..k \in SUBSET (1..n) /\ 1..k # {}
        /\ Max(1..k) = k /\ (1..k) \ {k} = 1..(k - 1)
    BY PrefixIndices
  <2> QED
    BY <1>2, <2>1 DEF FoldRecursion
<1>3. 0..n \subseteq T
  <2>1. 0 \in T
    BY <1>1
  <2>2. ASSUME NEW k \in 1..n, k - 1 \in T PROVE k \in T
    <3>1. it[1..(k - 1)] \in A
      BY <2>2
    <3>2. g[it[1..(k - 1)]][k] \in A
      BY <3>1
    <3> QED
      BY <1>2, <3>1, <3>2
  <2> HIDE DEF T
  <2> QED
    BY <2>1, <2>2, InductUpto
<1>4. \A k \in 0..n : it[1..k] \in A
  BY <1>3
<1>5. v \in [0..n -> A]
  BY <1>4
<1>6. v[0] = b /\ v[n] = it[1..n]
  BY <1>1
<1>7. ASSUME NEW k \in 1..n PROVE v[k] = g[v[k - 1]][k]
  <2>1. k - 1 \in 0..n /\ k \in 0..n
    OBVIOUS
  <2>2. v[k] = it[1..k] /\ v[k - 1] = it[1..(k - 1)]
    BY <2>1
  <2> HIDE DEF v
  <2> QED
    BY <1>2, <1>4, <2>1, <2>2
<1> HIDE DEF v
<1> QED
  BY <1>5, <1>6, <1>7 DEF LoopRun
-----------------------------------------------------------------------------
(* ORDER BY.                                                               *)

\* The rows are a sequence as long as the set is large.
LEMMA OrderBySequence ==
  ASSUME NEW S, IsFiniteSet(S)
  PROVE  /\ Cardinality(S) \in Nat
         /\ DOMAIN OrderBy(S) = 1..Cardinality(S)
         /\ Len(OrderBy(S)) = Cardinality(S)
         /\ OrderBy(S) = [k \in 1..Len(OrderBy(S)) |-> OrderBy(S)[k]]
<1>1. Cardinality(S) \in Nat
  BY FS_CardinalityType
<1>2. DOMAIN OrderBy(S) = 1..Cardinality(S)
  BY DEF OrderBy
<1>3. Len(OrderBy(S)) = Cardinality(S)
  BY <1>1, <1>2
<1> QED
  BY <1>1, <1>2, <1>3 DEF OrderBy

\* A larger member has a larger rank.
LEMMA RankGrows ==
  ASSUME NEW S \in SUBSET Int, IsFiniteSet(S), NEW s \in S
  PROVE  /\ Rank(S, s) \in 1..Cardinality(S)
         /\ \A t \in S : s < t => Rank(S, s) < Rank(S, t)
<1> DEFINE Upto(x) == {y \in S : y <= x}
<1>0. \A x : Upto(x) \in SUBSET S /\ Rank(S, x) = Cardinality(Upto(x))
  BY DEF Rank
<1>1. \A x \in S : x \in Int /\ x \in Upto(x)
  OBVIOUS
<1>2. \A x \in S : IsFiniteSet(Upto(x)) /\ Cardinality(Upto(x)) <= Cardinality(S)
                         /\ Cardinality(Upto(x)) \in Nat
  BY <1>0, FS_Subset, FS_CardinalityType
<1>3. Cardinality(Upto(s)) # 0
  BY <1>1, <1>2, FS_EmptySet
<1>4. ASSUME NEW t \in S, s < t PROVE Cardinality(Upto(s)) < Cardinality(Upto(t))
  <2>0. s \in Int /\ t \in Int /\ s < t
    BY <1>1, <1>4
  <2>1. Upto(s) \in SUBSET Upto(t) /\ t \notin Upto(s)
    <3>1. \A x \in S : x <= s => x <= t
      BY <2>0
    <3>2. ~(t <= s)
      BY <2>0
    <3> QED
      BY <3>1, <3>2
  <2>2. Upto(s) # Upto(t)
    BY <1>1, <2>1
  <2>3. Cardinality(Upto(s)) <= Cardinality(Upto(t)) /\ Cardinality(Upto(s)) # Cardinality(Upto(t))
    BY <1>2, <2>1, <2>2, FS_Subset
  <2> QED
    BY <1>2, <2>3
<1>5. Cardinality(S) \in Nat
  BY OrderBySequence
<1> HIDE DEF Upto
<1> QED
  BY <1>0, <1>2, <1>3, <1>4, <1>5

\* OrderBy(S) lists every member of S exactly once and in ascending order.
LEMMA OrderByInOrder ==
  ASSUME NEW S \in SUBSET Int, IsFiniteSet(S)
  PROVE  /\ \A k \in 1..Len(OrderBy(S)) : OrderBy(S)[k] \in S
         /\ \A k, l \in 1..Len(OrderBy(S)) : k < l => OrderBy(S)[k] < OrderBy(S)[l]
         /\ \A s \in S : \E k \in 1..Len(OrderBy(S)) : OrderBy(S)[k] = s
<1> DEFINE n == Cardinality(S)
           rank == [s \in S |-> Rank(S, s)]
<1>1. n \in Nat /\ Len(OrderBy(S)) = n
  BY OrderBySequence
<1>2. rank \in [S -> 1..n]
  BY RankGrows
<1>3. \A s, t \in S : s < t => Rank(S, s) < Rank(S, t)
  BY RankGrows
<1>4. \A s, t \in S : Rank(S, s) = Rank(S, t) => s = t
  <2>1. \A s, t \in S : s \in Int /\ t \in Int /\ (s < t \/ t < s \/ s = t)
    OBVIOUS
  <2>2. \A s \in S : Rank(S, s) \in Int
    BY RankGrows, <1>1
  <2> QED
    BY <1>3, <2>1, <2>2
<1>5. rank \in Injection(S, 1..n)
  BY <1>2, <1>4 DEF Injection, IsInjective
<1>6. IsFiniteSet(1..n) /\ Cardinality(1..n) = n
  BY <1>1, FS_Interval
<1>7. rank \in Surjection(S, 1..n)
  BY <1>5, <1>6, FS_Injection
<1>8. \A k \in 1..n : \E s \in S : Rank(S, s) = k
  BY <1>7 DEF Surjection
<1>9. \A k \in 1..n : OrderBy(S)[k] \in S /\ Rank(S, OrderBy(S)[k]) = k
  BY <1>8 DEF OrderBy
<1>10. ASSUME NEW k \in 1..n, NEW l \in 1..n, k < l PROVE OrderBy(S)[k] < OrderBy(S)[l]
  <2>1. OrderBy(S)[k] \in Int /\ OrderBy(S)[l] \in Int
    BY <1>9
  <2>2. OrderBy(S)[k] \in S /\ OrderBy(S)[l] \in S
        /\ Rank(S, OrderBy(S)[k]) = k /\ Rank(S, OrderBy(S)[l]) = l
    BY <1>9
  <2>3. OrderBy(S)[l] < OrderBy(S)[k] => l < k
    BY <1>3, <2>2
  <2>4. ~(OrderBy(S)[l] < OrderBy(S)[k]) /\ OrderBy(S)[l] # OrderBy(S)[k]
    BY <1>1, <1>10, <2>2, <2>3
  <2> QED
    BY <2>1, <2>4
<1>11. \A s \in S : Rank(S, s) \in 1..n /\ OrderBy(S)[Rank(S, s)] = s
  BY <1>4, <1>9, RankGrows
<1> HIDE DEF n, rank
<1> QED
  BY <1>1, <1>9, <1>10, <1>11
=============================================================================
