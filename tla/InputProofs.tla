----------------------------- MODULE InputProofs -----------------------------
(***************************************************************************)
(* Proofs about Prompt.tla and Grid.tla: what the parsers of the prompt    *)
(* return for a text of any length, and where the cursor goes on a shelf   *)
(* of any shape.                                                           *)
(***************************************************************************)
EXTENDS Prompt, Grid, DataProofs

(* The texts of the prompt.                                                *)

\* Every digit key stands for a number from 0 to 9.
LEMMA DigitType == Digit \in [DOMAIN Digit -> 0..9]
BY DEF Digit

\* Read as the loop that it is.
LEMMA ReadRuns ==
  ASSUME NEW limit \in Nat, NEW ds \in Seq(DOMAIN Digit)
  PROVE  \E v \in [0..Len(ds) -> Nat] :
           /\ v[0] = 0 /\ v[Len(ds)] = Read(limit, ds)
           /\ \A k \in 1..Len(ds) : v[k] = Shift(limit, v[k - 1], ds[k])
<1> DEFINE n == Len(ds)
           Def(it) == it = [S \in SUBSET DOMAIN ds |->
             IF S = {} THEN 0 ELSE Shift(limit, it[S \ {Max(S)}], ds[Max(S)])]
           it == CHOOSE it : Def(it)
           g == [x \in Nat |-> [k \in 1..n |-> Shift(limit, x, ds[k])]]
<1>1. n \in Nat /\ DOMAIN ds = 1..n /\ \A k \in 1..n : ds[k] \in DOMAIN Digit
  OBVIOUS
<1>2. Read(limit, ds) = it[1..n]
  BY <1>1 DEF Read, FoldLeft, MapThenFoldSet
<1>3. g \in [Nat -> [1..n -> Nat]]
  <2>1. \A k \in 1..n : Digit[ds[k]] \in Nat
    BY <1>1, DigitType
  <2>2. \A x \in Nat, k \in 1..n : Shift(limit, x, ds[k]) \in Nat
    BY <2>1 DEF Shift
  <2> QED
    BY <2>2
<1>4. \A x \in Nat, k \in 1..n : g[x][k] = Shift(limit, x, ds[k])
  OBVIOUS
<1>5. \A S \in SUBSET (1..n) : S # {} => Max(S) \in 1..n
  BY <1>1, LargestIndex
<1> HIDE DEF g
<1>6. Def(it)
  <2>1. PICK h : FoldTable(Nat, 0, g, n, h)
    BY <1>1, <1>3, FoldTableExists
  <2>2. Def(h)
    BY <1>1, <1>4, <1>5, <2>1 DEF FoldTable
  <2> QED
    BY <2>2
<1> HIDE DEF it
<1>7. /\ it[{}] = 0
      /\ \A S \in SUBSET (1..n) : S # {} => it[S] = Shift(limit, it[S \ {Max(S)}], ds[Max(S)])
  BY <1>1, <1>6
<1> HIDE DEF Def
<1>8. FoldRecursion(Nat, 0, g, n, it)
  BY <1>4, <1>5, <1>7 DEF FoldRecursion
<1>9. n \in Nat /\ 0 \in Nat
  BY <1>1
<1>10. \E v : LoopRun(Nat, 0, g, n, v, it[1..n])
  <2> HIDE DEF n
  <2> QED
    BY <1>3, <1>8, <1>9, FoldTrace, Zenon
<1>11. PICK v : LoopRun(Nat, 0, g, n, v, Read(limit, ds))
  BY <1>2, <1>10
<1>12. \A k \in 1..n : v[k - 1] \in Nat
  BY <1>1, <1>11 DEF LoopRun
<1> QED
  BY <1>4, <1>11, <1>12 DEF LoopRun

\* What has been read of a number is a natural number.
LEMMA ReadType ==
  ASSUME NEW limit \in Nat, NEW ds \in Seq(DOMAIN Digit)
  PROVE  Read(limit, ds) \in Nat
<1>1. Len(ds) \in 0..Len(ds)
  OBVIOUS
<1> QED
  BY <1>1, ReadRuns

\* The first dot of a text, what is before it and what is behind it.
FirstDot(s) == SelectInSeq(s, LAMBDA c : c = ".")
Whole(s) == IF FirstDot(s) = 0 THEN s ELSE SubSeq(s, 1, FirstDot(s) - 1)
Frac(s) == IF FirstDot(s) = 0 THEN <<>> ELSE SubSeq(s, FirstDot(s) + 1, Len(s))

\* FirstDot is the position of the first dot, 0 if there is none (strchr).
LEMMA DotIsFirst ==
  ASSUME NEW s \in Seq(Characters)
  PROVE  \/ FirstDot(s) = 0 /\ \A k \in 1..Len(s) : s[k] # "."
         \/ /\ FirstDot(s) \in 1..Len(s) /\ s[FirstDot(s)] = "."
            /\ \A k \in 1..(FirstDot(s) - 1) : s[k] # "."
<1> DEFINE I == {k \in 1..Len(s) : s[k] = "."}
           dot == FirstDot(s)
<1>1. dot = IF I # {} THEN Min(I) ELSE 0
  BY DEF SelectInSeq, FirstDot
<1> HIDE DEF dot
<1>2. CASE I = {}
  BY <1>1, <1>2 DEF dot
<1>3. CASE I # {}
  <2>1. I \in SUBSET Nat /\ I \in SUBSET Int
    OBVIOUS
  <2>2. PICK x \in I : \A y \in I : x <= y
    BY <1>3, <2>1, LeastNumber
  <2>3. Min(I) = x
    BY <2>1, <2>2, MinIs
  <2>4. dot = x
    BY <1>1, <1>3, <2>3
  <2> QED
    BY <2>2, <2>4 DEF dot
<1> QED
  BY <1>2, <1>3

\* The lengths and the characters of the two parts.
LEMMA Parts ==
  ASSUME NEW s \in Seq(Characters)
  PROVE  /\ Whole(s) \in Seq(DOMAIN Digit) /\ Frac(s) \in Seq(Characters)
         /\ FirstDot(s) = 0 => Len(Whole(s)) = Len(s) /\ Len(Frac(s)) = 0
         /\ FirstDot(s) # 0 => /\ Len(Whole(s)) = FirstDot(s) - 1
                               /\ Len(Frac(s)) = Len(s) - FirstDot(s)
         /\ \A k \in 1..Len(Whole(s)) : Whole(s)[k] = s[k]
         /\ \A k \in 1..Len(Frac(s)) : Frac(s)[k] = s[FirstDot(s) + k]
<1> DEFINE d == FirstDot(s)
           w == Whole(s)
           f == Frac(s)
<1>0. \A k \in 1..Len(s) : s[k] \in Characters
  OBVIOUS
<1>1. CASE d = 0
  <2>1. w = s /\ f = <<>>
    BY <1>1 DEF Whole, Frac
  <2>2. \A k \in 1..Len(s) : s[k] \in DOMAIN Digit
    BY <1>0, <1>1, DotIsFirst DEF Characters
  <2>3. s \in Seq(DOMAIN Digit) /\ f \in Seq(Characters)
    BY <2>1, <2>2
  <2> QED
    BY <1>1, <2>1, <2>3
<1>2. CASE d # 0
  <2>1. d \in 1..Len(s) /\ \A k \in 1..(d - 1) : s[k] # "."
    BY <1>2, DotIsFirst
  <2>2. w = SubSeq(s, 1, d - 1) /\ f = SubSeq(s, d + 1, Len(s))
    BY <1>2 DEF Whole, Frac
  <2> HIDE DEF d
  <2>3. Len(w) = d - 1 /\ \A k \in 1..(d - 1) : w[k] = s[k]
    BY <2>1, <2>2
  <2>4. Len(f) = Len(s) - d /\ f \in Seq(Characters) /\ \A k \in 1..(Len(s) - d) : f[k] = s[d + k]
    BY <2>1, <2>2
  <2>5. w \in Seq(DOMAIN Digit)
    <3>1. \A k \in 1..(d - 1) : k \in 1..Len(s) /\ s[k] \in DOMAIN Digit
      BY <1>0, <2>1 DEF Characters
    <3>2. w = [k \in 1..(d - 1) |-> s[k]] /\ d - 1 \in Nat
      BY <2>1, <2>2
    <3> QED
      BY <3>1, <3>2
  <2> QED
    BY <1>2, <2>3, <2>4, <2>5 DEF d
<1> QED
  BY <1>1, <1>2

\* A text without a dot is one of digits.
LEMMA NoDotDigits ==
  ASSUME NEW s \in Seq(Characters), "." \notin ToSet(s)
  PROVE  s \in Seq(DOMAIN Digit)
<1>1. \A k \in 1..Len(s) : s[k] \in Characters /\ s[k] \in ToSet(s)
  BY DEF ToSet
<1>2. \A k \in 1..Len(s) : s[k] \in DOMAIN Digit
  BY <1>1 DEF Characters
<1> QED
  BY <1>2

\* parse_zl_to_gr in terms of the part before the dot and the part after it.
LEMMA ParseZl ==
  ASSUME NEW s \in Seq(Characters)
  PROVE  parse_zl_to_gr(s) =
           IF Whole(s) = <<>> \/ Read(ZL_MAX, Whole(s)) > ZL_MAX \/ Len(Frac(s)) > 2
              \/ "." \in ToSet(Frac(s)) THEN -1
           ELSE IF Read(ZL_MAX, Whole(s)) * 100 + decimals(Frac(s)) > INT_MAX THEN -1
                ELSE Read(ZL_MAX, Whole(s)) * 100 + decimals(Frac(s))
BY DEF parse_zl_to_gr, Whole, Frac, FirstDot

\* What is let through fits an int.
LEMMA ParsedFits ==
  ASSUME NEW s \in Seq(Characters)
  PROVE  parse_zl_to_gr(s) \in -1..INT_MAX /\ parse_pos_int(s) \in {-1} \cup 1..INT_MAX
<1>1. parse_pos_int(s) \in {-1} \cup 1..INT_MAX
  <2>1. "." \notin ToSet(s) => Read(INT_MAX, s) \in Nat
    BY NoDotDigits, ReadType, PromptAssumption
  <2> QED
    BY <2>1, PromptAssumption DEF parse_pos_int
<1>2. parse_zl_to_gr(s) \in -1..INT_MAX
  <2>1. Read(ZL_MAX, Whole(s)) \in Nat
    BY Parts, ReadType, PromptAssumption
  <2>2. "." \notin ToSet(Frac(s)) => decimals(Frac(s)) \in Nat
    <3>1. "." \notin ToSet(Frac(s)) => Read(99, Frac(s)) \in Nat
      BY Parts, NoDotDigits, ReadType
    <3> QED
      BY <3>1 DEF decimals
  <2> QED
    BY <2>1, <2>2, ParseZl, PromptAssumption
<1> QED
  BY <1>1, <1>2
\* The powers of ten.
LEMMA Powers == /\ Power \in [Nat -> Nat \ {0}] /\ Power[0] = 1
                /\ \A n \in Nat : Power[n + 1] = 10 * Power[n]
<1> DEFINE Def(p) == p = [n \in Nat |-> IF n = 0 THEN 1 ELSE 10 * p[n - 1]]
           Upto(n, p) == /\ p \in [0..n -> Nat \ {0}] /\ p[0] = 1
                         /\ \A k \in 1..n : p[k] = 10 * p[k - 1]
           S == {n \in Nat : \E p : Upto(n, p)}
<1>1. Nat \subseteq S
  <2>1. 0 \in S
    <3>1. Upto(0, [k \in 0..0 |-> 1])
      OBVIOUS
    <3> QED
      BY <3>1
  <2>2. ASSUME NEW n \in Nat, n \in S PROVE n + 1 \in S
    <3>1. PICK p : Upto(n, p)
      BY <2>2
    <3> DEFINE q == [k \in 0..(n + 1) |-> IF k = n + 1 THEN 10 * p[n] ELSE p[k]]
    <3>2. \A k \in 0..n : q[k] = p[k] /\ p[k] \in Nat \ {0}
      BY <3>1
    <3>3. q[n + 1] = 10 * p[n] /\ p[n] \in Nat \ {0}
      BY <3>1
    <3>4. q \in [0..(n + 1) -> Nat \ {0}]
      BY <3>1
    <3> HIDE DEF q
    <3>5. \A k \in 1..(n + 1) : q[k] = 10 * q[k - 1]
      <4> TAKE k \in 1..(n + 1)
      <4>1. CASE k = n + 1
        BY <4>1, <3>2, <3>3
      <4>2. CASE k # n + 1
        <5>1. k \in 1..n /\ k \in 0..n /\ k - 1 \in 0..n
          BY <4>2
        <5> QED
          BY <5>1, <3>1, <3>2
      <4> QED
        BY <4>1, <4>2
    <3>6. Upto(n + 1, q)
      BY <3>1, <3>2, <3>4, <3>5
    <3> HIDE DEF Upto
    <3> QED
      BY <3>6
  <2> HIDE DEF S
  <2> QED
    BY <2>1, <2>2, Induct
<1>2. \A n \in Nat : \E p : Upto(n, p)
  BY <1>1
<1>3. ASSUME NEW n \in Nat, NEW m \in Nat, n <= m, NEW p, NEW q, Upto(n, p), Upto(m, q)
      PROVE  \A k \in 0..n : p[k] = q[k]
  <2> DEFINE E == {k \in 0..n : p[k] = q[k]}
  <2>1. 0 \in E
    BY <1>3
  <2>2. ASSUME NEW k \in 1..n, k - 1 \in E PROVE k \in E
    BY <1>3, <2>2
  <2> HIDE DEF E
  <2>3. 0..n \subseteq E
    BY <2>1, <2>2, InductUpto
  <2> QED
    BY <2>3 DEF E
<1> DEFINE r(n) == CHOOSE p : Upto(n, p)
           f == [n \in Nat |-> r(n)[n]]
<1>4. \A n \in Nat : Upto(n, r(n))
  BY <1>2
<1> HIDE DEF r
<1>5. f \in [Nat -> Nat \ {0}] /\ f[0] = 1
  BY <1>4
<1>6. ASSUME NEW n \in Nat PROVE f[n + 1] = 10 * f[n]
  <2>1. n + 1 \in Nat /\ n <= n + 1 /\ n \in 0..n
    OBVIOUS
  <2>2. Upto(n, r(n)) /\ Upto(n + 1, r(n + 1))
    <3> HIDE DEF Upto
    <3> QED
      BY <1>4, <2>1
  <2>3. r(n)[n] = r(n + 1)[n]
    <3> HIDE DEF Upto
    <3> QED
      BY <1>3, <2>1, <2>2
  <2>4. r(n + 1)[n + 1] = 10 * r(n + 1)[n]
    BY <2>2
  <2> QED
    BY <2>3, <2>4
<1> HIDE DEF f
<1>7. \A n \in Nat : f[n] = IF n = 0 THEN 1 ELSE 10 * f[n - 1]
  BY <1>5, <1>6
<1>8. Def(f)
  BY <1>5, <1>7
<1>9. Def(Power)
  BY <1>8 DEF Power
<1>10. Power[0] = 1 /\ \A n \in Nat : Power[n + 1] = 10 * Power[n]
  BY <1>9
<1>11. \A n \in Nat : Power[n] = f[n]
  <2> DEFINE E == {n \in Nat : Power[n] = f[n]}
  <2>1. 0 \in E
    BY <1>5, <1>10
  <2>2. \A n \in Nat : n \in E => n + 1 \in E
    BY <1>6, <1>10
  <2> HIDE DEF E
  <2>3. Nat \subseteq E
    BY <2>1, <2>2, Induct
  <2> QED
    BY <2>3 DEF E
<1>12. Power \in [Nat -> Nat \ {0}]
  <2>1. Power = [n \in Nat |-> Power[n]]
    BY <1>9
  <2> QED
    BY <1>5, <1>11, <2>1
<1> QED
  BY <1>10, <1>12

\* Read agrees with the sum by place value as far as its limit: e is what the
\* text is worth, Read is e or both are beyond the limit.
LEMMA ReadExact ==
  ASSUME NEW limit \in Nat, NEW ds \in Seq(DOMAIN Digit), NEW c \in Nat, NEW p,
         p[0] = 0,
         \A k \in 1..Len(ds) : p[k] = Digit[ds[k]] * Power[Len(ds) + c - k] + p[k - 1]
  PROVE  \E e \in Nat : /\ p[Len(ds)] = e * Power[c]
                        /\ Read(limit, ds) <= limit => Read(limit, ds) = e
                        /\ Read(limit, ds) > limit => e > limit
<1> DEFINE n == Len(ds)
           Exact(x, m, y) == \E e \in Nat : /\ x = e * Power[m]
                                            /\ y <= limit => y = e
                                            /\ y > limit => e > limit
<1>1. PICK v \in [0..n -> Nat] :
           /\ v[0] = 0 /\ v[n] = Read(limit, ds)
           /\ \A k \in 1..n : v[k] = Shift(limit, v[k - 1], ds[k])
  BY ReadRuns
<1>2. n \in Nat /\ \A k \in 1..n : Digit[ds[k]] \in 0..9
  BY DigitType
<1> DEFINE T == {k \in 0..n : Exact(p[k], n + c - k, v[k])}
<1>3. 0 \in T
  <2>1. Exact(p[0], n + c - 0, v[0])
    <3>1. 0 = 0 * Power[n + c]
      BY <1>2, Powers
    <3> QED
      BY <1>1, <1>2, <3>1
  <2> HIDE DEF Exact
  <2> QED
    BY <1>2, <2>1
<1>4. ASSUME NEW k \in 1..n, k - 1 \in T PROVE k \in T
  <2> DEFINE m == n + c - k
             d == Digit[ds[k]]
             y == v[k - 1]
             w == Power[m]
  <2>1. m \in Nat /\ n + c - (k - 1) = m + 1 /\ d \in 0..9 /\ y \in Nat /\ k - 1 \in 0..n
    <3>1. d \in 0..9 /\ n \in Nat
      BY <1>2
    <3> HIDE DEF n, d
    <3>2. k - 1 \in 0..n
      BY <3>1
    <3>3. y \in Nat
      BY <1>1, <3>2
    <3> QED
      BY <3>1, <3>2, <3>3
  <2>2. w \in Nat /\ Power[m + 1] = 10 * w
    BY <2>1, Powers
  <2>3. PICK e \in Nat : /\ p[k - 1] = e * Power[m + 1]
                         /\ y <= limit => y = e
                         /\ y > limit => e > limit
    BY <1>4, <2>1
  <2>4. p[k] = d * w + p[k - 1]
    OBVIOUS
  <2>5. v[k] = IF y > limit THEN y ELSE 10 * y + d
    BY <1>1 DEF Shift
  <2> HIDE DEF m, d, y, w
  <2>6. p[k] = (10 * e + d) * w
    <3>1. e * (10 * w) = (10 * e) * w
      BY <2>2, <2>3
    <3>2. (10 * e + d) * w = (10 * e) * w + d * w
      BY <2>1, <2>2, <2>3
    <3> QED
      BY <2>1, <2>2, <2>3, <2>4, <3>1, <3>2
  <2>7. 10 * e + d \in Nat
    BY <2>1, <2>3
  <2>8. /\ v[k] <= limit => v[k] = 10 * e + d
        /\ v[k] > limit => 10 * e + d > limit
    BY <2>1, <2>3, <2>5
  <2>9. Exact(p[k], m, v[k])
    BY <2>6, <2>7, <2>8 DEF w
  <2> HIDE DEF Exact
  <2> QED
    BY <2>9 DEF m
<1> HIDE DEF T
<1>5. 0..n \subseteq T
  BY <1>2, <1>3, <1>4, InductUpto
<1>6. Exact(p[n], c, v[n])
  <2> HIDE DEF Exact, n
  <2>1. n \in 0..n /\ n + c - n = c
    BY <1>2
  <2> QED
    BY <1>5, <2>1 DEF T
<1> QED
  BY <1>1, <1>6

\* The positions before the dot, and what position k adds to the value.
WholeSet(s) == {k \in 1..Len(s) : \A j \in 1..k : s[j] # "."}
Place(s, places, k) == Cardinality(WholeSet(s)) + places - (IF k \in WholeSet(s) THEN k ELSE k - 1)
Worth(s, places, k) == IF s[k] = "." THEN 0 ELSE Digit[s[k]] * Power[Place(s, places, k)]

\* v has the sums of the first 0, 1, .. of them.
AllWorth(s, places) == \A k \in 1..Len(s) : Worth(s, places, k) \in Nat
Sums(s, places, v) ==
  /\ v \in [0..Len(s) -> Nat] /\ v[0] = 0 /\ v[Len(s)] = DecimalValue(s, places)
  /\ \A k \in 1..Len(s) : v[k] = Worth(s, places, k) + v[k - 1]

\* DecimalValue adds them up from the first.
LEMMA ValueRuns ==
  ASSUME NEW s, Len(s) \in Nat, NEW places, AllWorth(s, places)
  PROVE  \E v : Sums(s, places, v)
<1> DEFINE n == Len(s)
<1>0. n \in Nat /\ n = Len(s) /\ \A k \in 1..n : Worth(s, places, k) \in Nat
  BY DEF AllWorth
<1> HIDE DEF n
<1> DEFINE Def(it) == it = [S \in SUBSET (1..n) |->
             IF S = {} THEN 0 ELSE Worth(s, places, Max(S)) + it[S \ {Max(S)}]]
           it == CHOOSE it : Def(it)
           g == [x \in Nat |-> [k \in 1..n |-> Worth(s, places, k) + x]]
<1>2. DecimalValue(s, places) = it[1..n]
  BY <1>0 DEF DecimalValue, MapThenFoldSet, Worth, Place, WholeSet
<1>3. g \in [Nat -> [1..n -> Nat]]
  BY <1>0
<1>4. \A x \in Nat, k \in 1..n : g[x][k] = Worth(s, places, k) + x
  OBVIOUS
<1>5. \A S \in SUBSET (1..n) : S # {} => Max(S) \in 1..n
  BY <1>0, LargestIndex
<1> HIDE DEF g
<1>6. Def(it)
  <2>1. PICK h : FoldTable(Nat, 0, g, n, h)
    BY <1>0, <1>3, FoldTableExists
  <2>2. Def(h)
    BY <1>4, <1>5, <2>1 DEF FoldTable
  <2> QED
    BY <2>2
<1> HIDE DEF it
<1>7. /\ it[{}] = 0
      /\ \A S \in SUBSET (1..n) : S # {} => it[S] = Worth(s, places, Max(S)) + it[S \ {Max(S)}]
  BY <1>6
<1> HIDE DEF Def
<1>8. FoldRecursion(Nat, 0, g, n, it)
  BY <1>4, <1>5, <1>7 DEF FoldRecursion
<1>9. 0 \in Nat
  OBVIOUS
<1>10. \E v : LoopRun(Nat, 0, g, n, v, it[1..n])
  BY <1>0, <1>3, <1>8, <1>9, FoldTrace, Zenon
<1>11. PICK v : LoopRun(Nat, 0, g, n, v, DecimalValue(s, places))
  BY <1>2, <1>10
<1>12. /\ v \in [0..n -> Nat] /\ v[0] = 0 /\ v[n] = DecimalValue(s, places)
       /\ \A k \in 1..n : v[k] = g[v[k - 1]][k]
  BY <1>11 DEF LoopRun
<1>13. ASSUME NEW k \in 1..n PROVE v[k] = Worth(s, places, k) + v[k - 1]
  <2>1. k - 1 \in 0..n
    BY <1>0
  <2>2. v[k - 1] \in Nat
    BY <1>12, <2>1
  <2> QED
    BY <1>4, <1>12, <2>2
<1>14. Sums(s, places, v)
  BY <1>0, <1>12, <1>13 DEF Sums
<1> QED
  BY <1>14

\* The positions before the dot are the ones of the first part.
LEMMA WholeIs ==
  ASSUME NEW s \in Seq(Characters)
  PROVE  WholeSet(s) = 1..Len(Whole(s)) /\ Cardinality(WholeSet(s)) = Len(Whole(s))
<1> DEFINE m == Len(Whole(s))
           d == FirstDot(s)
<1>1. m \in Nat /\ m <= Len(s)
  BY Parts, DotIsFirst
<1>2. WholeSet(s) = 1..m
  <2>1. CASE d = 0
    <3>1. m = Len(s) /\ \A k \in 1..Len(s) : s[k] # "."
      BY <2>1, Parts, DotIsFirst
    <3> HIDE DEF m
    <3>2. \A k \in 1..Len(s) : \A j \in 1..k : j \in 1..Len(s)
      OBVIOUS
    <3> QED
      BY <3>1, <3>2 DEF WholeSet
  <2>2. CASE d # 0
    <3>1. m = d - 1 /\ d \in 1..Len(s) /\ s[d] = "." /\ \A k \in 1..(d - 1) : s[k] # "."
      BY <2>2, Parts, DotIsFirst
    <3> HIDE DEF m, d
    <3>2. \A k \in 1..Len(s) : k <= d - 1 \/ d \in 1..k
      BY <3>1
    <3>3. \A k \in 1..(d - 1) : k \in 1..Len(s) /\ \A j \in 1..k : j \in 1..(d - 1)
      BY <3>1
    <3>4. ASSUME NEW k \in WholeSet(s) PROVE k \in 1..m
      BY <3>1, <3>2 DEF WholeSet
    <3>5. ASSUME NEW k \in 1..m PROVE k \in WholeSet(s)
      BY <3>1, <3>3 DEF WholeSet
    <3> QED
      BY <3>4, <3>5
  <2> QED
    BY <2>1, <2>2
<1> HIDE DEF m
<1>3. Cardinality(1..m) = m
  BY <1>1, FS_Interval
<1> QED
  BY <1>2, <1>3 DEF m

\* A decimal number has digits, then at most a dot and digits behind it.
LEMMA DecimalParts ==
  ASSUME NEW s \in Seq(Characters), NEW places \in Nat
  PROVE  IsDecimal(s, places) <=>
           Whole(s) # <<>> /\ "." \notin ToSet(Frac(s)) /\ Len(Frac(s)) <= places
<1> DEFINE d == FirstDot(s)
           l == Len(s)
<1>0. l \in Nat /\ Whole(s) \in Seq(DOMAIN Digit) /\ Frac(s) \in Seq(Characters)
  BY Parts
<1>1. (Whole(s) # <<>>) <=> Len(Whole(s)) > 0
  BY <1>0
<1>2. "." \in ToSet(Frac(s)) <=> \E k \in 1..Len(Frac(s)) : Frac(s)[k] = "."
  BY <1>0 DEF ToSet
<1>3. CASE d = 0
  <2>1. Len(Whole(s)) = l /\ Len(Frac(s)) = 0 /\ \A k \in 1..l : s[k] # "."
    BY <1>3, Parts, DotIsFirst
  <2> HIDE DEF l, d
  <2>2. IsDecimal(s, places) <=> l > 0
    <3>1. ASSUME l > 0 PROVE IsDecimal(s, places)
      <4>1. l \in 1..l /\ (\A k \in 1..l : s[k] = "." <=> k = l + 1) /\ l - (l + 1) <= places
        BY <1>0, <2>1, <3>1
      <4> QED
        BY <4>1 DEF IsDecimal, l
    <3>2. ASSUME IsDecimal(s, places) PROVE l > 0
      BY <1>0, <3>2 DEF IsDecimal, l
    <3> QED
      BY <3>1, <3>2
  <2>3. "." \notin ToSet(Frac(s))
    BY <1>2, <2>1
  <2> QED
    BY <1>1, <2>1, <2>2, <2>3
<1>4. CASE d # 0
  <2>1. /\ Len(Whole(s)) = d - 1 /\ Len(Frac(s)) = l - d /\ d \in 1..l /\ s[d] = "."
        /\ \A k \in 1..(d - 1) : s[k] # "."
        /\ \A k \in 1..(l - d) : Frac(s)[k] = s[d + k]
    BY <1>4, Parts, DotIsFirst
  <2> HIDE DEF l, d
  <2>2. "." \in ToSet(Frac(s)) <=> \E k \in 1..(l - d) : s[d + k] = "."
    BY <1>2, <2>1
  <2>3. ASSUME d - 1 > 0, \A k \in 1..(l - d) : s[d + k] # ".", l - d <= places
        PROVE  IsDecimal(s, places)
    <3>1. ASSUME NEW k \in 1..l PROVE s[k] = "." <=> k = (d - 1) + 1
      <4>1. CASE k < d
        BY <2>1, <4>1
      <4>2. CASE k = d
        BY <2>1, <4>2
      <4>3. CASE k > d
        <5>1. k - d \in 1..(l - d) /\ d + (k - d) = k
          BY <2>1, <1>0, <4>3
        <5>2. s[k] # "."
          BY <2>3, <5>1
        <5> QED
          BY <2>1, <4>3, <5>2
      <4> QED
        BY <2>1, <4>1, <4>2, <4>3
    <3>2. d - 1 \in 1..l /\ l - ((d - 1) + 1) <= places
      BY <1>0, <2>1, <2>3
    <3> QED
      BY <3>1, <3>2 DEF IsDecimal, l
  <2>4. ASSUME IsDecimal(s, places)
        PROVE  d - 1 > 0 /\ (\A k \in 1..(l - d) : s[d + k] # ".") /\ l - d <= places
    <3>1. PICK w \in 1..l : (\A k \in 1..l : s[k] = "." <=> k = w + 1) /\ l - (w + 1) <= places
      BY <2>4 DEF IsDecimal, l
    <3>2. d = w + 1
      BY <2>1, <3>1
    <3>3. \A k \in 1..(l - d) : d + k \in 1..l /\ d + k # w + 1
      BY <1>0, <2>1, <3>1, <3>2
    <3> QED
      BY <3>1, <3>2, <3>3
  <2> QED
    BY <1>0, <1>1, <2>1, <2>2, <2>3, <2>4
<1> QED
  BY <1>3, <1>4

\* What a digit before the dot is worth.
LEMMA WorthOfWhole ==
  ASSUME NEW s \in Seq(Characters), NEW places \in Nat, NEW k \in 1..Len(Whole(s))
  PROVE  /\ Worth(s, places, k) = Digit[Whole(s)[k]] * Power[Len(Whole(s)) + places - k]
         /\ Worth(s, places, k) \in Nat
<1> DEFINE m == Len(Whole(s))
<1>1. m \in Nat /\ Whole(s)[k] \in DOMAIN Digit /\ Whole(s)[k] = s[k]
  BY Parts
<1>2. k \in WholeSet(s) /\ Cardinality(WholeSet(s)) = m
  BY WholeIs
<1>3. s[k] # "."
  BY <1>1 DEF Digit
<1>4. Place(s, places, k) = m + places - k
  BY <1>2 DEF Place
<1>5. Digit[s[k]] \in Nat
  BY <1>1, DigitType
<1> HIDE DEF m
<1>6. Power[m + places - k] \in Nat
  <2>1. m + places - k \in Nat
    BY <1>1 DEF m
  <2> QED
    BY <2>1, Powers
<1>7. Worth(s, places, k) = Digit[s[k]] * Power[m + places - k]
  BY <1>3, <1>4 DEF Worth
<1> QED
  BY <1>1, <1>5, <1>6, <1>7 DEF m

\* The dot is worth nothing, the digits behind it what their place says.
LEMMA WorthOfFrac ==
  ASSUME NEW s \in Seq(Characters), NEW places \in Nat, FirstDot(s) # 0,
         "." \notin ToSet(Frac(s)), Len(Frac(s)) <= places
  PROVE  /\ Worth(s, places, FirstDot(s)) = 0
         /\ \A j \in 1..Len(Frac(s)) :
              /\ Frac(s)[j] \in DOMAIN Digit
              /\ Worth(s, places, FirstDot(s) + j) = Digit[Frac(s)[j]] * Power[places - j]
              /\ Worth(s, places, FirstDot(s) + j) \in Nat
<1> DEFINE d == FirstDot(s)
           f == Frac(s)
<1>0. f \in Seq(DOMAIN Digit) /\ Len(f) \in Nat
  <2>1. f \in Seq(Characters)
    BY Parts
  <2> HIDE DEF f
  <2>2. f \in Seq(DOMAIN Digit)
    BY <2>1, NoDotDigits DEF f
  <2> QED
    BY <2>2
<1>1. /\ d \in 1..Len(s) /\ s[d] = "." /\ Len(Whole(s)) = d - 1 /\ Len(f) = Len(s) - d
      /\ \A j \in 1..Len(f) : f[j] = s[d + j]
  BY Parts, DotIsFirst
<1>2. WholeSet(s) = 1..(d - 1) /\ Cardinality(WholeSet(s)) = d - 1
  BY <1>1, WholeIs
<1>3. Worth(s, places, d) = 0
  BY <1>1 DEF Worth
<1> HIDE DEF d, f
<1>5. Cardinality(WholeSet(s)) = d - 1
  BY <1>2
<1>4. ASSUME NEW j \in 1..Len(f)
      PROVE  /\ f[j] \in DOMAIN Digit
             /\ Worth(s, places, d + j) = Digit[f[j]] * Power[places - j]
             /\ Worth(s, places, d + j) \in Nat
  <2>1. f[j] \in DOMAIN Digit /\ f[j] = s[d + j]
    BY <1>0, <1>1
  <2>2. f[j] # "." /\ Digit[f[j]] \in Nat
    BY <2>1, DigitType DEF Digit
  <2>3. d + j \notin WholeSet(s)
    BY <1>1, <1>2
  <2>4. Place(s, places, d + j) = d - 1 + places - (d + j - 1)
    <3>1. d \in Int /\ j \in Int /\ d + j \in Int /\ Cardinality(WholeSet(s)) \in Int
      BY <1>1, <1>5
    <3> QED
      BY <1>5, <2>3, <3>1 DEF Place
  <2>5. d - 1 + places - (d + j - 1) = places - j /\ places - j \in Nat
    BY <1>0, <1>1 DEF f
  <2>6. Power[places - j] \in Nat
    BY <2>5, Powers
  <2>7. Worth(s, places, d + j) = Digit[f[j]] * Power[places - j]
    BY <2>1, <2>2, <2>4, <2>5 DEF Worth
  <2> QED
    BY <2>1, <2>2, <2>6, <2>7
<1> QED
  BY <1>3, <1>4 DEF d, f

\* Two decimals at most, read as the sum by place value.
LEMMA DecimalsExact ==
  ASSUME NEW f \in Seq(DOMAIN Digit), Len(f) <= 2
  PROVE  /\ Len(f) = 0 => decimals(f) = 0
         /\ Len(f) = 1 => decimals(f) = Digit[f[1]] * Power[1]
         /\ Len(f) = 2 => decimals(f) = Digit[f[1]] * Power[1] + Digit[f[2]] * Power[0]
<1>0. 99 \in Nat
  OBVIOUS
<1>1. PICK v \in [0..Len(f) -> Nat] :
           /\ v[0] = 0 /\ v[Len(f)] = Read(99, f)
           /\ \A k \in 1..Len(f) : v[k] = Shift(99, v[k - 1], f[k])
  BY <1>0, ReadRuns
<1>2. Len(f) \in Nat /\ \A k \in 1..Len(f) : Digit[f[k]] \in 0..9
  BY DigitType
<1>3. Power[0] = 1 /\ Power[1] = 10
  <2>1. Power[0] = 1 /\ Power[0 + 1] = 10 * Power[0]
    BY Powers
  <2> QED
    BY <2>1
<1>4. CASE Len(f) = 0
  BY <1>1, <1>4 DEF decimals
<1>5. CASE Len(f) = 1
  <2>1. v[1] = Shift(99, v[0], f[1]) /\ Digit[f[1]] \in 0..9
    BY <1>1, <1>2, <1>5
  <2>2. Read(99, f) = Digit[f[1]]
    BY <1>1, <1>5, <2>1 DEF Shift
  <2> QED
    BY <1>3, <1>5, <2>1, <2>2 DEF decimals
<1>6. CASE Len(f) = 2
  <2>1. /\ v[1] = Shift(99, v[0], f[1]) /\ Digit[f[1]] \in 0..9
        /\ v[2] = Shift(99, v[1], f[2]) /\ Digit[f[2]] \in 0..9
    BY <1>1, <1>2, <1>6
  <2>2. v[1] = Digit[f[1]]
    BY <1>1, <2>1 DEF Shift
  <2>3. v[2] = 10 * Digit[f[1]] + Digit[f[2]]
    BY <2>1, <2>2 DEF Shift
  <2>4. Read(99, f) = v[2]
    BY <1>1, <1>6
  <2> QED
    BY <1>3, <1>6, <2>1, <2>3, <2>4 DEF decimals
<1> QED
  BY <1>2, <1>4, <1>5, <1>6

\* From position d on, v adds the digits of f.
Adds(f, places, d, v) ==
  \A j \in 1..Len(f) : v[d + j] = Digit[f[j]] * Power[places - j] + v[(d + j) - 1]

\* The last digits of the sum.
LEMMA LastDigits ==
  ASSUME NEW f \in Seq(DOMAIN Digit), NEW places \in {0, 2}, Len(f) <= places,
         NEW d \in Nat, NEW v, v[d] \in Nat,
         Adds(f, places, d, v)
  PROVE  v[d + Len(f)] = v[d] + decimals(f)
<1>0. \A j \in 1..Len(f) : v[d + j] = Digit[f[j]] * Power[places - j] + v[(d + j) - 1]
  BY DEF Adds
<1>1. Len(f) \in Nat /\ Len(f) <= 2 /\ \A k \in 1..Len(f) : Digit[f[k]] \in Nat
  BY DigitType
<1>2. Power[0] \in Nat /\ Power[1] \in Nat
  BY Powers
<1>3. CASE Len(f) = 0
  <2>1. decimals(f) = 0
    BY <1>1, <1>3, DecimalsExact
  <2> QED
    BY <1>3, <2>1
<1>4. CASE Len(f) = 1
  <2>0. places = 2
    BY <1>4
  <2>1. decimals(f) = Digit[f[1]] * Power[1]
    BY <1>1, <1>4, DecimalsExact
  <2>2. 1 \in 1..Len(f)
    BY <1>4
  <2>3. v[d + 1] = Digit[f[1]] * Power[2 - 1] + v[(d + 1) - 1] /\ Digit[f[1]] \in Nat
    BY <1>0, <1>1, <2>0, <2>2
  <2>4. v[d + 1] = Digit[f[1]] * Power[1] + v[d]
    BY <2>3
  <2> DEFINE a == Digit[f[1]] * Power[1]
  <2>5. a \in Nat
    BY <1>2, <2>3
  <2> HIDE DEF a
  <2> QED
    BY <1>4, <2>1, <2>4, <2>5 DEF a
<1>5. CASE Len(f) = 2
  <2> DEFINE a == Digit[f[1]] * Power[1]
             b == Digit[f[2]] * Power[0]
  <2>0. places = 2
    BY <1>5
  <2>1. decimals(f) = a + b
    BY <1>1, <1>5, DecimalsExact
  <2>2. 1 \in 1..Len(f) /\ 2 \in 1..Len(f)
    BY <1>5
  <2>3. /\ v[d + 1] = Digit[f[1]] * Power[2 - 1] + v[(d + 1) - 1] /\ Digit[f[1]] \in Nat
        /\ v[d + 2] = Digit[f[2]] * Power[2 - 2] + v[(d + 2) - 1] /\ Digit[f[2]] \in Nat
    BY <1>0, <1>1, <2>0, <2>2
  <2>4. a \in Nat /\ b \in Nat
    <3>1. ASSUME NEW x \in Nat, NEW y \in Nat PROVE x * y \in Nat
      OBVIOUS
    <3> QED
      BY <1>2, <2>3, <3>1
  <2>5. v[d + 1] = a + v[d] /\ v[d + 2] = b + v[d + 1]
    BY <2>3
  <2> HIDE DEF a, b
  <2> QED
    BY <1>5, <2>1, <2>4, <2>5
<1>6. Len(f) = 0 \/ Len(f) = 1 \/ Len(f) = 2
  <2>1. ASSUME NEW n \in Nat, n <= 2 PROVE n = 0 \/ n = 1 \/ n = 2
    BY <2>1
  <2> QED
    BY <1>1, <2>1
<1> QED
  BY <1>3, <1>4, <1>5, <1>6

\* The value of an amount: the digits before the dot and the ones behind it.
LEMMA ValueSplits ==
  ASSUME NEW s \in Seq(Characters), NEW places \in {0, 2}, IsDecimal(s, places), NEW limit \in Nat
  PROVE  \E e \in Nat :
           /\ DecimalValue(s, places) = e * Power[places] + decimals(Frac(s))
           /\ Read(limit, Whole(s)) <= limit => Read(limit, Whole(s)) = e
           /\ Read(limit, Whole(s)) > limit => e > limit
<1> DEFINE d == FirstDot(s)
           l == Len(s)
           m == Len(Whole(s))
           f == Frac(s)
<1>0. /\ places \in Nat /\ l \in Nat /\ m \in Nat /\ Whole(s) \in Seq(DOMAIN Digit)
      /\ "." \notin ToSet(f) /\ Len(f) <= places /\ Len(f) <= 2
      /\ f \in Seq(DOMAIN Digit) /\ Len(f) \in Nat
  <2>1. places \in Nat
    OBVIOUS
  <2>2. "." \notin ToSet(f) /\ Len(f) <= places /\ f \in Seq(Characters)
    BY <2>1, DecimalParts, Parts
  <2>3. f \in Seq(DOMAIN Digit)
    BY <2>2, NoDotDigits
  <2> HIDE DEF f
  <2> QED
    BY <2>1, <2>2, <2>3, Parts
<1>1. \A k \in 1..m : /\ Worth(s, places, k) = Digit[Whole(s)[k]] * Power[m + places - k]
                      /\ Worth(s, places, k) \in Nat
  BY <1>0, WorthOfWhole
<1>2. CASE d = 0
  <2>1. m = l /\ Len(f) = 0
    BY <1>2, Parts
  <2>2. PICK v \in [0..l -> Nat] : /\ v[0] = 0 /\ v[l] = DecimalValue(s, places)
                                   /\ \A k \in 1..l : v[k] = Worth(s, places, k) + v[k - 1]
    <3>1. AllWorth(s, places)
      BY <1>1, <2>1 DEF AllWorth
    <3>2. PICK v : Sums(s, places, v)
      BY <1>0, <3>1, ValueRuns
    <3> QED
      BY <3>2 DEF Sums
  <2>3. \A k \in 1..m : v[k] = Digit[Whole(s)[k]] * Power[m + places - k] + v[k - 1]
    BY <1>1, <2>1, <2>2
  <2>4. PICK e \in Nat : /\ v[m] = e * Power[places]
                         /\ Read(limit, Whole(s)) <= limit => Read(limit, Whole(s)) = e
                         /\ Read(limit, Whole(s)) > limit => e > limit
    BY <1>0, <2>2, <2>3, ReadExact
  <2>5. decimals(f) = 0
    BY <1>0, <2>1, DecimalsExact
  <2>6. e * Power[places] + 0 = e * Power[places]
    <3>1. Power[places] \in Nat
      BY <1>0, Powers
    <3> QED
      BY <2>4, <3>1
  <2> QED
    BY <2>1, <2>2, <2>4, <2>5, <2>6
<1>3. CASE d # 0
  <2>1. m = d - 1 /\ d \in 1..l /\ Len(f) = l - d
    BY <1>3, Parts, DotIsFirst
  <2>2. /\ Worth(s, places, d) = 0
        /\ \A j \in 1..Len(f) : /\ Worth(s, places, d + j) = Digit[f[j]] * Power[places - j]
                                /\ Worth(s, places, d + j) \in Nat
                                /\ Digit[f[j]] \in Nat
    <3>1. \A j \in 1..Len(f) : Digit[f[j]] \in Nat
      BY <1>0, DigitType
    <3> QED
      BY <1>0, <1>3, <3>1, WorthOfFrac
  <2>3. \A k \in 1..l : Worth(s, places, k) \in Nat
    <3> TAKE k \in 1..l
    <3> HIDE DEF d, l, m, f
    <3>1. CASE k < d
      BY <1>1, <2>1, <3>1
    <3>2. CASE k = d
      BY <2>2, <3>2
    <3>3. CASE k > d
      <4>1. k - d \in 1..Len(f) /\ d + (k - d) = k
        BY <1>0, <2>1, <3>3
      <4> QED
        BY <2>2, <4>1
    <3> QED
      BY <2>1, <3>1, <3>2, <3>3
  <2>4. PICK v \in [0..l -> Nat] : /\ v[0] = 0 /\ v[l] = DecimalValue(s, places)
                                   /\ \A k \in 1..l : v[k] = Worth(s, places, k) + v[k - 1]
    <3>1. AllWorth(s, places)
      BY <2>3 DEF AllWorth
    <3>2. PICK v : Sums(s, places, v)
      BY <1>0, <3>1, ValueRuns
    <3> QED
      BY <3>2 DEF Sums
  <2>5. \A k \in 1..m : v[k] = Digit[Whole(s)[k]] * Power[m + places - k] + v[k - 1]
    <3> HIDE DEF d, l, m, f
    <3>1. \A k \in 1..m : k \in 1..l
      BY <1>0, <2>1
    <3> QED
      BY <1>1, <2>4, <3>1
  <2>6. PICK e \in Nat : /\ v[m] = e * Power[places]
                         /\ Read(limit, Whole(s)) <= limit => Read(limit, Whole(s)) = e
                         /\ Read(limit, Whole(s)) > limit => e > limit
    BY <1>0, <2>4, <2>5, ReadExact
  <2> DEFINE x == e * Power[places]
  <2>7. x \in Nat
    <3>1. Power[places] \in Nat
      BY <1>0, Powers
    <3> QED
      BY <2>6, <3>1
  <2>8. DecimalValue(s, places) = x + decimals(f)
    <3>1. v[d - 1] = x /\ d \in Nat /\ d + Len(f) = l
      BY <1>0, <2>1, <2>6
    <3>2. v[d] = x
      BY <2>1, <2>2, <2>4, <2>7, <3>1
    <3>3. ASSUME NEW j \in 1..Len(f)
          PROVE  v[d + j] = Digit[f[j]] * Power[places - j] + v[(d + j) - 1]
      <4>1. d + j \in 1..l
        BY <1>0, <2>1
      <4>2. v[d + j] = Worth(s, places, d + j) + v[(d + j) - 1]
        BY <2>4, <4>1
      <4>3. Worth(s, places, d + j) = Digit[f[j]] * Power[places - j]
        BY <2>2
      <4> QED
        BY <4>2, <4>3, Zenon
    <3>5. Adds(f, places, d, v)
      BY <3>3 DEF Adds
    <3> HIDE DEF d, l, f, x
    <3>4. v[d + Len(f)] = v[d] + decimals(f)
      BY <1>0, <2>7, <3>1, <3>2, <3>5, LastDigits
    <3> QED
      BY <2>4, <3>1, <3>2, <3>4
  <2> QED
    BY <2>6, <2>8
<1> QED
  BY <1>2, <1>3

\* The prompt takes a text of any length for its value as a decimal number.
LEMMA AnyTextReadAsTyped ==
  ASSUME NEW s \in Seq(Characters)
  PROVE  ReadAsTyped(s)
<1>0. INT_MAX \in Nat /\ ZL_MAX \in Nat /\ 100 * ZL_MAX >= INT_MAX - 99 /\ 0 \in Nat /\ 2 \in Nat
  BY PromptAssumption
<1>1. Power[0] = 1 /\ Power[2] = 100
  <2>1. Power[0] = 1 /\ Power[0 + 1] = 10 * Power[0] /\ Power[1 + 1] = 10 * Power[1]
    BY Powers
  <2> QED
    BY <2>1
<1>2. parse_zl_to_gr(s) =
        IF IsDecimal(s, 2) /\ DecimalValue(s, 2) <= INT_MAX THEN DecimalValue(s, 2) ELSE -1
  <2> DEFINE zl == Read(ZL_MAX, Whole(s))
             gr == decimals(Frac(s))
  <2>1. CASE IsDecimal(s, 2)
    <3>1. Whole(s) # <<>> /\ "." \notin ToSet(Frac(s)) /\ Len(Frac(s)) <= 2
      BY <1>0, <2>1, DecimalParts
    <3>2. PICK e \in Nat : /\ DecimalValue(s, 2) = e * Power[2] + gr
                           /\ zl <= ZL_MAX => zl = e
                           /\ zl > ZL_MAX => e > ZL_MAX
      BY <1>0, <2>1, ValueSplits
    <3>3. zl \in Nat /\ gr \in Nat
      <4>1. Whole(s) \in Seq(DOMAIN Digit) /\ Frac(s) \in Seq(Characters)
        BY Parts
      <4>2. Frac(s) \in Seq(DOMAIN Digit)
        BY <3>1, <4>1, NoDotDigits
      <4>3. zl \in Nat
        BY <1>0, <4>1, ReadType
      <4>4. 99 \in Nat
        OBVIOUS
      <4>5. Read(99, Frac(s)) \in Nat
        BY <4>2, <4>4, ReadType
      <4> QED
        BY <4>3, <4>5 DEF decimals
    <3>4. parse_zl_to_gr(s) = IF zl > ZL_MAX THEN -1
                              ELSE IF zl * 100 + gr > INT_MAX THEN -1 ELSE zl * 100 + gr
      BY <1>0, <3>1, <3>3, ParseZl
    <3> HIDE DEF zl, gr
    <3>5. DecimalValue(s, 2) = e * 100 + gr
      BY <1>1, <3>2
    <3> QED
      BY <1>0, <2>1, <3>2, <3>3, <3>4, <3>5
  <2>2. CASE ~IsDecimal(s, 2)
    <3>1. Whole(s) = <<>> \/ "." \in ToSet(Frac(s)) \/ Len(Frac(s)) > 2
      <4>1. Len(Frac(s)) \in Nat
        BY Parts
      <4> QED
        BY <1>0, <2>2, <4>1, DecimalParts
    <3> QED
      BY <2>2, <3>1, ParseZl
  <2> QED
    BY <2>1, <2>2
<1>3. parse_pos_int(s) =
        IF IsDecimal(s, 0) /\ "." \notin ToSet(s) /\ DecimalValue(s, 0) \in 1..INT_MAX
        THEN DecimalValue(s, 0) ELSE -1
  <2>1. CASE "." \in ToSet(s)
    BY <2>1 DEF parse_pos_int
  <2>2. CASE "." \notin ToSet(s)
    <3>1. FirstDot(s) = 0
      BY <2>2, DotIsFirst DEF ToSet
    <3>2. Whole(s) = s /\ Frac(s) = <<>> /\ s \in Seq(DOMAIN Digit)
      BY <2>2, <3>1, NoDotDigits DEF Whole, Frac
    <3>3. IsDecimal(s, 0) <=> s # <<>>
      BY <1>0, <3>2, DecimalParts DEF ToSet
    <3> DEFINE v == Read(INT_MAX, s)
    <3>4. v \in Nat /\ decimals(Frac(s)) = 0
      <4>1. Frac(s) \in Seq(DOMAIN Digit) /\ Len(Frac(s)) = 0
        BY <3>2
      <4> DEFINE f == Frac(s)
      <4>2. f \in Seq(DOMAIN Digit) /\ Len(f) = 0 /\ Len(f) <= 2
        BY <4>1
      <4> HIDE DEF f
      <4>3. decimals(f) = 0
        BY <4>2, DecimalsExact
      <4> QED
        BY <1>0, <3>2, <4>3, ReadType DEF f
    <3>5. parse_pos_int(s) = IF s = <<>> \/ v > INT_MAX \/ v = 0 THEN -1 ELSE v
      BY <2>2 DEF parse_pos_int
    <3>6. CASE s # <<>>
      <4>1. PICK e \in Nat : /\ DecimalValue(s, 0) = e * Power[0] + decimals(Frac(s))
                             /\ v <= INT_MAX => v = e
                             /\ v > INT_MAX => e > INT_MAX
        BY <1>0, <3>2, <3>3, <3>6, ValueSplits
      <4>2. DecimalValue(s, 0) = e
        BY <1>1, <3>2, <3>4, <4>1
      <4> HIDE DEF v
      <4> QED
        BY <1>0, <2>2, <3>3, <3>4, <3>5, <3>6, <4>1, <4>2
    <3>7. CASE s = <<>>
      BY <3>3, <3>5, <3>7
    <3> QED
      BY <3>6, <3>7
  <2> QED
    BY <2>1, <2>2
<1> QED
  BY <1>2, <1>3 DEF ReadAsTyped

-----------------------------------------------------------------------------
(* The cursor.                                                             *)

\* A slot has a row, and a column from 0 to 9.
LEMMA RowsAndColumns ==
  ASSUME NEW s \in Nat
  PROVE  row(s) \in Nat /\ col(s) \in 0..9
BY DEF row, col

\* Position j of the first k is the nearest to the column in the row, -1 if the
\* row has none of them.
NearestOf(shelf, k, r, c, j) ==
  \/ j = -1 /\ \A m \in 0..(k - 1) : row(At(shelf, m)) # r
  \/ /\ j \in 0..(k - 1) /\ row(At(shelf, j)) = r
     /\ \A m \in 0..(k - 1) : row(At(shelf, m)) = r =>
          Distance(col(At(shelf, j)), c) <= Distance(col(At(shelf, m)), c)

\* One turn of the loop of find_in_row.
Nearer(shelf, r, c, best, j) ==
  IF row(At(shelf, j)) = r
     /\ (best = -1 \/ Distance(col(At(shelf, j)), c) < Distance(col(At(shelf, best)), c))
  THEN j ELSE best

\* find_in_row as the loop over the products that it is.
LEMMA FindRuns ==
  ASSUME NEW shelf \in Seq(Nat), NEW r \in Int, NEW c \in Int
  PROVE  \E v \in [0..Len(shelf) -> -1..(Len(shelf) - 1)] :
           /\ v[0] = -1 /\ v[Len(shelf)] = find_in_row(shelf, r, c)
           /\ \A k \in 1..Len(shelf) : v[k] = Nearer(shelf, r, c, v[k - 1], k - 1)
<1> DEFINE n == Len(shelf)
           A == -1..(n - 1)
           Def(it) == it = [S \in SUBSET (1..n) |->
             IF S = {} THEN -1 ELSE Nearer(shelf, r, c, it[S \ {Max(S)}], Max(S) - 1)]
           it == CHOOSE it : Def(it)
           g == [x \in A |-> [k \in 1..n |-> Nearer(shelf, r, c, x, k - 1)]]
<1>1. n \in Nat /\ -1 \in A
  OBVIOUS
<1>2. find_in_row(shelf, r, c) = it[1..n]
  <2> DEFINE idx == [k \in 1..Len(shelf) |-> k - 1]
             Fol(h) == h = [S \in SUBSET DOMAIN idx |->
               IF S = {} THEN -1 ELSE Nearer(shelf, r, c, h[S \ {Max(S)}], idx[Max(S)])]
             fol == CHOOSE h : Fol(h)
  <2>1. find_in_row(shelf, r, c) = fol[DOMAIN idx]
    BY DEF find_in_row, FoldLeft, MapThenFoldSet, Nearer
  <2>2. DOMAIN idx = 1..n
    OBVIOUS
  <2>3. \A S \in SUBSET (1..n) : S # {} => idx[Max(S)] = Max(S) - 1
    BY <1>1, LargestIndex
  <2>4. \A h : Fol(h) <=> Def(h)
    <3> HIDE DEF idx, n
    <3> QED BY <2>2, <2>3
  <2>5. fol = it
    <3> HIDE DEF Fol, Def
    <3> QED BY <2>4
  <2> QED
    BY <2>1, <2>2, <2>5
<1>3. g \in [A -> [1..n -> A]]
  <2>1. \A x \in A, k \in 1..n : Nearer(shelf, r, c, x, k - 1) \in A
    BY DEF Nearer
  <2> HIDE DEF A, n
  <2> QED
    BY <2>1
<1>4. \A x \in A, k \in 1..n : g[x][k] = Nearer(shelf, r, c, x, k - 1)
  OBVIOUS
<1>5. \A S \in SUBSET (1..n) : S # {} => Max(S) \in 1..n
  BY <1>1, LargestIndex
<1> HIDE DEF g, A
<1>6. Def(it)
  <2>1. PICK h : FoldTable(A, -1, g, n, h)
    BY <1>1, <1>3, FoldTableExists
  <2>2. Def(h)
    BY <1>1, <1>4, <1>5, <2>1 DEF FoldTable
  <2> QED
    BY <2>2
<1> HIDE DEF it
<1>7. /\ it[{}] = -1
      /\ \A S \in SUBSET (1..n) : S # {} => it[S] = Nearer(shelf, r, c, it[S \ {Max(S)}], Max(S) - 1)
  BY <1>1, <1>6
<1> HIDE DEF Def
<1>8. FoldRecursion(A, -1, g, n, it)
  BY <1>4, <1>5, <1>7 DEF FoldRecursion
<1>9. \E v : LoopRun(A, -1, g, n, v, it[1..n])
  <2> HIDE DEF n
  <2> QED
    BY <1>1, <1>3, <1>8, FoldTrace, Zenon
<1>10. PICK v : LoopRun(A, -1, g, n, v, find_in_row(shelf, r, c))
  BY <1>2, <1>9
<1>11. ASSUME NEW k \in 1..n PROVE v[k - 1] \in A
  <2>1. k - 1 \in 0..n
    BY <1>1
  <2> HIDE DEF n
  <2> QED
    BY <1>10, <2>1 DEF LoopRun
<1>12. \A k \in 1..n : v[k] = Nearer(shelf, r, c, v[k - 1], k - 1)
  BY <1>4, <1>10, <1>11 DEF LoopRun
<1> QED
  BY <1>10, <1>12 DEF LoopRun, A

\* find_in_row finds the nearest slot of the row.
LEMMA FindNearest ==
  ASSUME NEW shelf \in Seq(Nat), NEW r \in Int, NEW c \in Int
  PROVE  NearestOf(shelf, Len(shelf), r, c, find_in_row(shelf, r, c))
<1> DEFINE n == Len(shelf)
<1>1. PICK v \in [0..n -> -1..(n - 1)] :
           /\ v[0] = -1 /\ v[n] = find_in_row(shelf, r, c)
           /\ \A k \in 1..n : v[k] = Nearer(shelf, r, c, v[k - 1], k - 1)
  BY FindRuns
<1>2. n \in Nat
  OBVIOUS
<1>3. \A m \in 0..(n - 1) : row(At(shelf, m)) \in Nat /\ col(At(shelf, m)) \in Nat
  <2> SUFFICES ASSUME NEW m \in 0..(n - 1)
               PROVE  row(At(shelf, m)) \in Nat /\ col(At(shelf, m)) \in Nat
    OBVIOUS
  <2>1. m + 1 \in 1..Len(shelf)
    OBVIOUS
  <2>2. At(shelf, m) \in Nat
    BY <2>1 DEF At
  <2>3. \A s \in 0..9 : s \in Nat
    OBVIOUS
  <2> QED
    BY <2>2, <2>3, RowsAndColumns
<1> HIDE DEF n
<1> DEFINE T == {k \in Nat : NearestOf(shelf, k, r, c, v[k])}
<1>4. 0 \in T
  BY <1>1 DEF NearestOf
<1>5. ASSUME NEW k \in 1..n, k - 1 \in T PROVE k \in T
  <2>1. NearestOf(shelf, k - 1, r, c, v[k - 1])
    BY <1>5
  <2>2. v[k] = Nearer(shelf, r, c, v[k - 1], k - 1)
    BY <1>1
  <2>3. /\ \A m \in 0..(k - 1) : m \in 0..((k - 1) - 1) \/ m = k - 1
        /\ \A m \in 0..((k - 1) - 1) : m \in 0..(k - 1)
        /\ k - 1 \in 0..(k - 1)
    BY <1>2
  <2>4. k - 1 \in 0..(n - 1) /\ -1 \notin 0..(k - 1) /\ \A m \in 0..((k - 1) - 1) : m \in 0..(n - 1)
    BY <1>2
  <2>5. \A m \in 0..(n - 1) : Distance(col(At(shelf, m)), c) \in Int
    BY <1>3 DEF Distance
  <2> DEFINE off(m) == Distance(col(At(shelf, m)), c)
             in(m) == row(At(shelf, m)) = r
  <2>6. v[k] = IF in(k - 1) /\ (v[k - 1] = -1 \/ off(k - 1) < off(v[k - 1])) THEN k - 1 ELSE v[k - 1]
    BY <2>2 DEF Nearer
  <2>7. \/ v[k - 1] = -1 /\ \A m \in 0..((k - 1) - 1) : ~in(m)
        \/ /\ v[k - 1] \in 0..((k - 1) - 1) /\ in(v[k - 1])
           /\ \A m \in 0..((k - 1) - 1) : in(m) => off(v[k - 1]) <= off(m)
    BY <2>1 DEF NearestOf
  <2>8. \A m \in 0..(n - 1) : off(m) \in Int
    BY <2>5
  <2> HIDE DEF off, in
  <2>9. \/ v[k] = -1 /\ \A m \in 0..(k - 1) : ~in(m)
        \/ /\ v[k] \in 0..(k - 1) /\ in(v[k])
           /\ \A m \in 0..(k - 1) : in(m) => off(v[k]) <= off(m)
    <3>1. CASE ~in(k - 1)
      BY <2>3, <2>6, <2>7, <3>1
    <3>2. CASE in(k - 1) /\ v[k - 1] = -1
      <4>1. v[k] = k - 1
        BY <2>6, <3>2
      <4>2. \A m \in 0..(k - 1) : in(m) => m = k - 1
        BY <2>3, <2>4, <2>7, <3>2
      <4> QED
        BY <2>3, <2>4, <2>8, <3>2, <4>1, <4>2
    <3>3. CASE in(k - 1) /\ v[k - 1] # -1
      <4>1. /\ v[k - 1] \in 0..((k - 1) - 1) /\ in(v[k - 1])
            /\ \A m \in 0..((k - 1) - 1) : in(m) => off(v[k - 1]) <= off(m)
        BY <2>7, <3>3
      <4>2. CASE off(k - 1) < off(v[k - 1])
        <5>1. v[k] = k - 1
          BY <2>6, <3>3, <4>2
        <5>2. off(k - 1) \in Int /\ off(v[k - 1]) \in Int
          BY <2>4, <2>8, <4>1
        <5>3. \A m \in 0..((k - 1) - 1) : in(m) => off(m) \in Int /\ off(k - 1) <= off(m)
          BY <2>4, <2>8, <4>1, <4>2, <5>2
        <5> QED
          BY <2>3, <3>3, <5>1, <5>2, <5>3
      <4>3. CASE ~(off(k - 1) < off(v[k - 1]))
        <5>1. v[k] = v[k - 1]
          BY <2>6, <3>3, <4>3
        <5>2. off(v[k - 1]) <= off(k - 1)
          BY <2>4, <2>8, <4>1, <4>3
        <5> QED
          BY <2>3, <4>1, <5>1, <5>2
      <4> QED
        BY <4>2, <4>3
    <3> QED
      BY <3>1, <3>2, <3>3
  <2>10. NearestOf(shelf, k, r, c, v[k])
    BY <2>9 DEF NearestOf, off, in
  <2> QED
    BY <2>10
<1>6. 0..n \subseteq T
  <2> HIDE DEF T
  <2> QED
    BY <1>2, <1>4, <1>5, InductUpto
<1> QED
  BY <1>1, <1>2, <1>6 DEF n

\* A position of the shelf has a row, and the rows have a first and a last.
RowsOf(shelf) == {row(s) : s \in ToSet(shelf)}

\* The rows of the shelf, and the smallest and the largest of them.
LEMMA RowsBounded ==
  ASSUME NEW shelf \in Seq(Nat), shelf # <<>>
  PROVE  /\ RowsOf(shelf) \in SUBSET Nat
         /\ \A i \in Positions(shelf) : At(shelf, i) \in Nat /\ row(At(shelf, i)) \in RowsOf(shelf)
         /\ \A r \in RowsOf(shelf) : \E i \in Positions(shelf) : row(At(shelf, i)) = r
         /\ Min(RowsOf(shelf)) \in RowsOf(shelf) /\ \A r \in RowsOf(shelf) : Min(RowsOf(shelf)) <= r
         /\ Max(RowsOf(shelf)) \in RowsOf(shelf) /\ \A r \in RowsOf(shelf) : Max(RowsOf(shelf)) >= r
<1> DEFINE n == Len(shelf)
           R == RowsOf(shelf)
<1>1. n \in Nat \ {0} /\ DOMAIN shelf = 1..n /\ \A k \in 1..n : shelf[k] \in Nat
  OBVIOUS
<1>2. \A i \in Positions(shelf) : i + 1 \in 1..n /\ At(shelf, i) \in Nat
  BY <1>1 DEF Positions, At
<1>3. \A k \in 1..n : k - 1 \in Positions(shelf) /\ At(shelf, k - 1) = shelf[k]
  BY <1>1 DEF Positions, At
<1>4. \A i \in Positions(shelf) : row(At(shelf, i)) \in R
  BY <1>1, <1>2 DEF RowsOf, ToSet, At
<1>5. \A r \in R : \E k \in 1..n : r = row(shelf[k])
  BY <1>1 DEF RowsOf, ToSet
<1>6. \A r \in R : \E i \in Positions(shelf) : row(At(shelf, i)) = r
  BY <1>3, <1>5
<1>7. R \in SUBSET Nat
  BY <1>1, <1>5, RowsAndColumns
<1>8. 0 \in Positions(shelf) /\ R # {}
  BY <1>1, <1>4 DEF Positions
<1>9. \E b \in Nat : \A r \in R : r <= b
  <2> DEFINE T == {k \in Nat : \E b \in Nat : \A j \in 1..k : j \in 1..n => row(shelf[j]) <= b}
  <2>1. 0 \in T
    OBVIOUS
  <2>2. ASSUME NEW k \in 1..n, k - 1 \in T PROVE k \in T
    <3>1. PICK b \in Nat : \A j \in 1..(k - 1) : j \in 1..n => row(shelf[j]) <= b
      BY <2>2
    <3>2. row(shelf[k]) \in Nat /\ \A j \in 1..n : row(shelf[j]) \in Nat
      BY <1>1, RowsAndColumns
    <3> DEFINE c == IF row(shelf[k]) > b THEN row(shelf[k]) ELSE b
    <3>3. c \in Nat /\ c >= b /\ c >= row(shelf[k])
      BY <3>2
    <3> HIDE DEF c
    <3>4. ASSUME NEW j \in 1..k, j \in 1..n PROVE row(shelf[j]) <= c
      <4>1. CASE j = k
        BY <3>2, <3>3, <4>1
      <4>2. CASE j \in 1..(k - 1)
        BY <3>1, <3>2, <3>3, <3>4, <4>2
      <4> QED
        BY <4>1, <4>2
    <3> QED
      BY <3>3, <3>4
  <2>3. n \in Nat
    BY <1>1
  <2>4. n \in T
    <3> HIDE DEF T, n
    <3>1. 0..n \subseteq T
      BY <2>1, <2>2, <2>3, InductUpto
    <3> QED
      BY <2>3, <3>1
  <2> QED
    BY <1>5, <2>4
<1> HIDE DEF R, n
<1>10. Min(R) \in R /\ \A r \in R : Min(R) <= r
  <2>1. PICK x \in R : \A y \in R : x <= y
    BY <1>7, <1>8, LeastNumber
  <2>2. Min(R) = x
    BY <1>7, <2>1, MinIs
  <2> QED
    BY <2>1, <2>2
<1>11. Max(R) \in R /\ \A r \in R : Max(R) >= r
  <2>1. PICK b \in Nat : \A r \in R : r <= b
    BY <1>9
  <2> DEFINE S == {b - r : r \in R}
  <2>2. \A r \in R : r \in Nat /\ b - r \in Nat /\ b - r \in S
    BY <1>7, <2>1
  <2>3. S \in SUBSET Nat /\ S # {}
    BY <1>8, <2>2
  <2>4. PICK x \in S : \A y \in S : x <= y
    BY <2>3, LeastNumber
  <2>5. PICK z \in R : x = b - z
    BY <2>4
  <2>6. \A r \in R : z >= r
    <3> SUFFICES ASSUME NEW r \in R PROVE z >= r
      OBVIOUS
    <3>1. b - z <= b - r
      BY <2>2, <2>4, <2>5
    <3> QED
      BY <2>1, <2>2, <3>1
  <2>7. Max(R) = z
    BY <1>7, <2>6, MaxIs
  <2> QED
    BY <2>6, <2>7
<1> QED
  BY <1>2, <1>4, <1>6, <1>7, <1>10, <1>11 DEF R

\* The first row with slots at or beyond t, in the direction of the step.
RowFrom(R, dir, t) ==
  IF dir > 0 THEN Min({x \in R : x >= t}) ELSE Max({x \in R : x <= t})

\* Rows without slots are passed over.
LEMMA RowFromIs ==
  ASSUME NEW R \in SUBSET Nat, NEW lo \in R, NEW hi \in R, \A r \in R : lo <= r /\ r <= hi,
         NEW dir \in {-1, 1}, NEW t \in lo..hi
  PROVE  /\ RowFrom(R, dir, t) \in R
         /\ dir > 0 => RowFrom(R, dir, t) >= t /\ \A x \in R : x >= t => RowFrom(R, dir, t) <= x
         /\ dir <= 0 => RowFrom(R, dir, t) <= t /\ \A x \in R : x <= t => RowFrom(R, dir, t) >= x
<1>0. lo \in Nat /\ hi \in Nat /\ t \in Nat /\ lo <= t /\ hi >= t
  OBVIOUS
<1>1. CASE dir = 1
  <2> DEFINE S == {x \in R : x >= t}
  <2>1. S \in SUBSET Nat /\ hi \in S
    BY <1>0
  <2>2. PICK m \in S : \A y \in S : m <= y
    BY <2>1, LeastNumber
  <2>3. Min(S) = m
    BY <2>1, <2>2, MinIs
  <2>4. RowFrom(R, dir, t) = m
    BY <1>1, <2>3 DEF RowFrom
  <2> QED
    BY <1>1, <2>2, <2>4
<1>2. CASE dir = -1
  <2> DEFINE S == {x \in R : x <= t}
             N == {t - x : x \in S}
  <2>1. S \in SUBSET Nat /\ lo \in S /\ t \in Nat
    BY <1>0
  <2>2. \A x \in S : x \in Nat /\ t - x \in Nat /\ t - x \in N
    BY <2>1
  <2>a. N \in SUBSET Nat /\ N # {}
    BY <2>1, <2>2
  <2>3. PICK m \in N : \A y \in N : m <= y
    BY <2>a, LeastNumber
  <2>4. PICK z \in S : m = t - z
    BY <2>3
  <2>5. ASSUME NEW y \in S PROVE z >= y
    <3>1. t - z <= t - y
      BY <2>2, <2>3, <2>4
    <3> QED
      BY <2>1, <2>2, <3>1
  <2>b. S \in SUBSET Int
    <3>1. \A x \in S : x \in Int
      BY <2>2
    <3> QED
      BY <3>1
  <2>6. Max(S) = z
    BY <2>b, <2>5, MaxIs
  <2>7. RowFrom(R, dir, t) = z
    BY <1>2, <2>6 DEF RowFrom
  <2> QED
    BY <1>2, <2>5, <2>7
<1> QED
  BY <1>1, <1>2

\* A row with slots is its own; a row without leads to the next.
RowFromSkips(R, lo, hi, dir) ==
  \A t \in lo..hi :
    /\ t \in R => RowFrom(R, dir, t) = t
    /\ t \notin R => t + dir \in lo..hi /\ RowFrom(R, dir, t) = RowFrom(R, dir, t + dir)

\* RowFrom stops in a row that is there and goes on to the next number otherwise.
LEMMA RowFromSteps ==
  ASSUME NEW R \in SUBSET Nat, NEW lo \in R, NEW hi \in R, \A r \in R : lo <= r /\ r <= hi,
         NEW dir \in {-1, 1}
  PROVE  RowFromSkips(R, lo, hi, dir)
<1> SUFFICES ASSUME NEW t \in lo..hi
             PROVE  /\ t \in R => RowFrom(R, dir, t) = t
                    /\ t \notin R => t + dir \in lo..hi
                                    /\ RowFrom(R, dir, t) = RowFrom(R, dir, t + dir)
  BY DEF RowFromSkips
<1> DEFINE a == RowFrom(R, dir, t)
           b == RowFrom(R, dir, t + dir)
<1>1. /\ a \in R
      /\ dir > 0 => a >= t /\ \A x \in R : x >= t => a <= x
      /\ dir <= 0 => a <= t /\ \A x \in R : x <= t => a >= x
  BY RowFromIs
<1>2. t \notin R => t + dir \in lo..hi
  OBVIOUS
<1>3. ASSUME t + dir \in lo..hi
      PROVE  /\ b \in R
             /\ dir > 0 => b >= t + dir /\ \A x \in R : x >= t + dir => b <= x
             /\ dir <= 0 => b <= t + dir /\ \A x \in R : x <= t + dir => b >= x
  <2> DEFINE u == t + dir
  <2>1. u \in lo..hi
    BY <1>3
  <2> HIDE DEF u
  <2>2. /\ RowFrom(R, dir, u) \in R
        /\ dir > 0 => RowFrom(R, dir, u) >= u /\ \A x \in R : x >= u => RowFrom(R, dir, u) <= x
        /\ dir <= 0 => RowFrom(R, dir, u) <= u /\ \A x \in R : x <= u => RowFrom(R, dir, u) >= x
    BY <2>1, RowFromIs
  <2> QED
    BY <2>2 DEF u
<1> HIDE DEF a, b
<1>4. t \in R => a = t
  BY <1>1
<1>5. ASSUME t \notin R PROVE a = b
  <2>1. a # t
    BY <1>1, <1>5
  <2>2. CASE dir = 1
    <3>1. b >= t + 1 /\ (\A x \in R : x >= t + 1 => b <= x) /\ b \in R
      BY <1>2, <1>3, <1>5, <2>2
    <3>2. a >= t /\ (\A x \in R : x >= t => a <= x) /\ a \in R
      BY <1>1, <2>2
    <3>3. a >= t + 1 /\ b >= t
      BY <2>1, <3>1, <3>2
    <3> QED
      BY <3>1, <3>2, <3>3
  <2>3. CASE dir = -1
    <3>1. b <= t - 1 /\ (\A x \in R : x <= t - 1 => b >= x) /\ b \in R
      BY <1>2, <1>3, <1>5, <2>3
    <3>2. a <= t /\ (\A x \in R : x <= t => a >= x) /\ a \in R
      BY <1>1, <2>3
    <3>3. a <= t - 1 /\ b <= t
      BY <2>1, <3>1, <3>2
    <3> QED
      BY <3>1, <3>2, <3>3
  <2> QED
    BY <2>2, <2>3
<1> QED
  BY <1>2, <1>4, <1>5 DEF a, b

\* The walk of move_vertical from row t ends at the nearest slot of the first row
\* with slots that it meets, and it meets one unless it starts outside.
WalkRec(shelf, c, lo, hi, dir, w) ==
  w = [t \in (lo - 1)..(hi + 1) |->
         IF t < lo \/ t > hi THEN -1
         ELSE IF find_in_row(shelf, t, c) >= 0 THEN find_in_row(shelf, t, c) ELSE w[t + dir]]

\* The loop of move_vertical over the row numbers ends at the row that RowFrom names,
\* or past the edge.
LEMMA WalkEnds ==
  ASSUME NEW shelf \in Seq(Nat), shelf # <<>>, NEW c \in Int, NEW dir \in {-1, 1},
         NEW lo, lo = Min(RowsOf(shelf)), NEW hi, hi = Max(RowsOf(shelf)), NEW w,
         w = CHOOSE x : WalkRec(shelf, c, lo, hi, dir, x)
  PROVE  \A t \in (lo - 1)..(hi + 1) :
           w[t] = IF t < lo \/ t > hi THEN -1 ELSE find_in_row(shelf, RowFrom(RowsOf(shelf), dir, t), c)
<1> DEFINE R == RowsOf(shelf)
           find(r) == find_in_row(shelf, r, c)
           from(t) == RowFrom(R, dir, t)
           w0 == [t \in (lo - 1)..(hi + 1) |-> IF t < lo \/ t > hi THEN -1 ELSE find(from(t))]
<1>1. /\ R \in SUBSET Nat /\ lo \in R /\ hi \in R /\ \A r \in R : lo <= r /\ r <= hi
      /\ \A r \in R : \E j \in Positions(shelf) : row(At(shelf, j)) = r
      /\ \A j \in Positions(shelf) : row(At(shelf, j)) \in R
  BY RowsBounded
<1>2. lo \in Nat /\ hi \in Nat /\ lo <= hi
  BY <1>1
<1>3. \A r \in Int : find(r) >= 0 <=> r \in R
  <2> SUFFICES ASSUME NEW r \in Int PROVE find(r) >= 0 <=> r \in R
    OBVIOUS
  <2>1. NearestOf(shelf, Len(shelf), r, c, find(r))
    BY FindNearest
  <2> HIDE DEF R
  <2> QED
    BY <1>1, <2>1 DEF NearestOf, Positions
<1>a. RowFromSkips(R, lo, hi, dir)
  <2> HIDE DEF R
  <2> QED
    BY <1>1, RowFromSteps
<1>4. \A t \in lo..hi : t \in R => from(t) = t
  BY <1>a DEF RowFromSkips
<1>5. \A t \in lo..hi : t \notin R => t + dir \in lo..hi /\ from(t) = from(t + dir)
  BY <1>a DEF RowFromSkips
<1> HIDE DEF R, find, from
<1>6. WalkRec(shelf, c, lo, hi, dir, w0)
  <2> SUFFICES ASSUME NEW t \in (lo - 1)..(hi + 1)
               PROVE  w0[t] = IF t < lo \/ t > hi THEN -1
                              ELSE IF find(t) >= 0 THEN find(t) ELSE w0[t + dir]
    BY DEF WalkRec, find
  <2>1. CASE t < lo \/ t > hi
    BY <2>1
  <2>2. CASE t \in lo..hi /\ t \in R
    BY <1>2, <1>3, <1>4, <2>2
  <2>3. CASE t \in lo..hi /\ t \notin R
    <3>1. t + dir \in lo..hi /\ from(t) = from(t + dir) /\ ~(find(t) >= 0) /\ ~(t < lo \/ t > hi)
      BY <1>2, <1>3, <1>5, <2>3
    <3>2. t + dir \in (lo - 1)..(hi + 1) /\ ~(t + dir < lo \/ t + dir > hi)
      BY <1>2, <3>1
    <3>3. w0[t] = find(from(t)) /\ w0[t + dir] = find(from(t + dir))
      BY <3>1, <3>2
    <3> HIDE DEF w0
    <3> QED
      BY <3>1, <3>3
  <2> QED
    BY <1>2, <2>1, <2>2, <2>3
<1>7. WalkRec(shelf, c, lo, hi, dir, w)
  <2> HIDE DEF w0
  <2> QED
    BY <1>6
<1>8. \A t \in (lo - 1)..(hi + 1) :
        w[t] = IF t < lo \/ t > hi THEN -1 ELSE IF find(t) >= 0 THEN find(t) ELSE w[t + dir]
  BY <1>7 DEF WalkRec, find
<1> DEFINE d(t) == IF dir = 1 THEN hi - t ELSE t - lo
           T == {k \in Nat : \A t \in lo..hi : d(t) = k => w[t] = find(from(t))}
<1>9. \A t \in lo..hi : d(t) \in Nat /\ t \in (lo - 1)..(hi + 1) /\ ~(t < lo \/ t > hi)
  BY <1>2
<1>10. ASSUME NEW t \in lo..hi, t \in R PROVE w[t] = find(from(t))
  <2>1. t \in Int /\ w[t] = find(t)
    BY <1>2, <1>3, <1>8, <1>9, <1>10
  <2> QED
    BY <1>4, <1>10, <2>1
<1>11. 0 \in T
  BY <1>1, <1>2, <1>10
<1>12. ASSUME NEW k \in Nat, k \in T PROVE k + 1 \in T
  <2> SUFFICES ASSUME NEW t \in lo..hi, d(t) = k + 1 PROVE w[t] = find(from(t))
    OBVIOUS
  <2>1. CASE t \in R
    BY <1>10, <2>1
  <2>2. CASE t \notin R
    <3>1. t + dir \in lo..hi /\ from(t) = from(t + dir) /\ t \in Int
      BY <1>2, <1>5, <2>2
    <3>2. d(t + dir) = k
      BY <1>2, <3>1
    <3>3. w[t + dir] = find(from(t + dir))
      BY <1>12, <3>1, <3>2
    <3>4. w[t] = w[t + dir]
      BY <1>3, <1>8, <1>9, <2>2, <3>1
    <3> QED
      BY <3>1, <3>3, <3>4
  <2> QED
    BY <2>1, <2>2
<1> HIDE DEF T
<1>13. Nat \subseteq T
  BY <1>11, <1>12, Induct
<1>14. \A t \in lo..hi : w[t] = find(from(t))
  BY <1>9, <1>13 DEF T
<1> QED
  BY <1>2, <1>8, <1>14 DEF find, from, R

\* A vertical step goes to the next row with slots and there to the nearest
\* column.
LEMMA VerticalExact ==
  ASSUME NEW shelf \in Seq(Nat), NEW i \in Positions(shelf), NEW dir \in {-1, 1}
  PROVE  IsVerticalStep(shelf, i, dir, move_vertical(shelf, i, dir))
<1> DEFINE R == RowsOf(shelf)
           lo == Min(R)
           hi == Max(R)
           here == At(shelf, i)
           r == row(here)
           c == col(here)
           w == CHOOSE x : WalkRec(shelf, c, lo, hi, dir, x)
           j == move_vertical(shelf, i, dir)
           find(x) == find_in_row(shelf, x, c)
           edge == edge_row(R, dir)
           next == IF dir > 0
                   THEN IF \E x \in R : x > r THEN Min({x \in R : x > r}) ELSE Min(R)
                   ELSE IF \E x \in R : x < r THEN Max({x \in R : x < r}) ELSE Max(R)
<1>1. shelf # <<>>
  BY DEF Positions
<1>2. /\ R \in SUBSET Nat /\ lo \in R /\ hi \in R /\ \A x \in R : lo <= x /\ x <= hi
      /\ here \in Nat /\ r \in R
  BY <1>1, RowsBounded
<1>3. lo \in Nat /\ hi \in Nat /\ r \in Nat /\ c \in Int /\ lo <= r /\ r <= hi /\ edge \in lo..hi
  <2>1. c \in 0..9
    BY <1>2, RowsAndColumns
  <2> QED
    BY <1>2, <2>1 DEF edge_row
<1>4. j = IF w[r + dir] >= 0 THEN w[r + dir] ELSE IF w[edge] >= 0 THEN w[edge] ELSE i
  BY <1>1 DEF move_vertical, WalkRec, RowsOf
<1>5. \A t \in (lo - 1)..(hi + 1) :
        w[t] = IF t < lo \/ t > hi THEN -1 ELSE find(RowFrom(R, dir, t))
  <2> HIDE DEF c, lo, hi, w
  <2> QED
    BY <1>1, <1>3, WalkEnds DEF lo, hi, w
<1> HIDE DEF j, w
<1>6. \A x \in Nat : NearestOf(shelf, Len(shelf), x, c, find(x))
  BY <1>3, FindNearest
<1>7. \A x \in R : \E k \in Positions(shelf) : row(At(shelf, k)) = x
  BY <1>1, RowsBounded
<1> HIDE DEF R, c
<1>8. ASSUME NEW x \in R
      PROVE  /\ find(x) \in Positions(shelf) /\ find(x) >= 0 /\ row(At(shelf, find(x))) = x
             /\ \A k \in Positions(shelf) : row(At(shelf, k)) = x =>
                  Distance(col(At(shelf, find(x))), c) <= Distance(col(At(shelf, k)), c)
  BY <1>2, <1>6, <1>7 DEF NearestOf, Positions
<1>9. edge \in R /\ RowFrom(R, dir, edge) = edge
  <2>1. edge \in R
    BY <1>2 DEF edge_row
  <2> HIDE DEF lo, hi, edge
  <2> QED
    BY <1>2, <1>3, <2>1, RowFromSteps DEF RowFromSkips
<1>10. w[edge] = find(edge)
  <2>1. edge \in (lo - 1)..(hi + 1) /\ ~(edge < lo \/ edge > hi)
    BY <1>3
  <2> QED
    BY <1>5, <1>9, <2>1
<1>11. next \in R /\ j = find(next)
  <2>1. CASE r + dir \in lo..hi
    <3>1. r + dir \in (lo - 1)..(hi + 1) /\ ~(r + dir < lo \/ r + dir > hi)
      BY <1>3, <2>1
    <3>2. w[r + dir] = find(RowFrom(R, dir, r + dir))
      BY <1>5, <3>1
    <3>3. RowFrom(R, dir, r + dir) \in R
      <4> HIDE DEF lo, hi, r
      <4> QED
        BY <1>2, <2>1, RowFromIs
    <3>4. j = find(RowFrom(R, dir, r + dir))
      BY <1>4, <1>8, <3>2, <3>3
    <3>5. next = RowFrom(R, dir, r + dir)
      <4>1. CASE dir = 1
        <5>1. \A x \in R : x >= r + dir <=> x > r
          BY <1>2, <1>3, <4>1
        <5>2. hi \in R /\ hi > r
          BY <1>2, <1>3, <2>1, <4>1
        <5> HIDE DEF r, hi, lo
        <5>3. {x \in R : x >= r + dir} = {x \in R : x > r}
          BY <5>1
        <5>4. next = Min({x \in R : x > r})
          BY <4>1, <5>2
        <5>5. RowFrom(R, dir, r + dir) = Min({x \in R : x >= r + dir})
          BY <4>1 DEF RowFrom
        <5> HIDE DEF next
        <5> QED
          BY <5>3, <5>4, <5>5
      <4>2. CASE dir = -1
        <5>1. \A x \in R : x <= r + dir <=> x < r
          BY <1>2, <1>3, <4>2
        <5>2. lo \in R /\ lo < r
          BY <1>2, <1>3, <2>1, <4>2
        <5> HIDE DEF r, hi, lo
        <5>3. {x \in R : x <= r + dir} = {x \in R : x < r}
          BY <5>1
        <5>4. next = Max({x \in R : x < r})
          BY <4>2, <5>2
        <5>5. RowFrom(R, dir, r + dir) = Max({x \in R : x <= r + dir})
          BY <4>2 DEF RowFrom
        <5> HIDE DEF next
        <5> QED
          BY <5>3, <5>4, <5>5
      <4> QED
        BY <4>1, <4>2
    <3> QED
      BY <3>3, <3>4, <3>5
  <2>2. CASE r + dir \notin lo..hi
    <3>1. r + dir \in (lo - 1)..(hi + 1) /\ (r + dir < lo \/ r + dir > hi)
      BY <1>3, <2>2
    <3>2. w[r + dir] = -1
      BY <1>5, <3>1
    <3>3. j = find(edge)
      BY <1>4, <1>8, <1>9, <1>10, <3>2
    <3>4. next = edge
      <4>1. CASE dir = 1
        <5>1. ~\E x \in R : x > r
          BY <1>2, <1>3, <3>1, <4>1
        <5> QED
          BY <4>1, <5>1 DEF edge_row
      <4>2. CASE dir = -1
        <5>1. ~\E x \in R : x < r
          BY <1>2, <1>3, <3>1, <4>2
        <5> QED
          BY <4>2, <5>1 DEF edge_row
      <4> QED
        BY <4>1, <4>2
    <3> QED
      BY <1>9, <3>3, <3>4
  <2> QED
    BY <2>1, <2>2
<1>12. /\ j \in Positions(shelf) /\ row(At(shelf, j)) = next
       /\ \A k \in Positions(shelf) : row(At(shelf, k)) = next =>
            Distance(col(At(shelf, j)), c) <= Distance(col(At(shelf, k)), c)
  <2> HIDE DEF next, find
  <2> QED
    BY <1>8, <1>11
<1> QED
  BY <1>12 DEF IsVerticalStep, RowsOf, R, c, j

\* A horizontal step stays on the shelf.
LEMMA HorizontalInside ==
  ASSUME NEW shelf \in Seq(Nat), NEW i \in Positions(shelf), NEW dir \in {-1, 1}
  PROVE  move_horizontal(shelf, i, dir) \in Positions(shelf)
<1> DEFINE n == Len(shelf)
           x == i + dir + n
<1>1. n \in Nat \ {0} /\ x \in Int /\ shelf # <<>>
  BY DEF Positions
<1>2. x % n \in 0..(n - 1)
  <2> HIDE DEF x, n
  <2> QED
    BY <1>1
<1> QED
  BY <1>1, <1>2 DEF move_horizontal, Positions

\* A vertical move leaves the cursor on a product.
LEMMA VerticalInside ==
  ASSUME NEW shelf \in Seq(Nat), NEW i \in Positions(shelf), NEW dir \in {-1, 1}
  PROVE  move_vertical(shelf, i, dir) \in Positions(shelf)
BY VerticalExact DEF IsVerticalStep
=============================================================================
