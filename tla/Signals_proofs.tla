-------------------------- MODULE Signals_proofs --------------------------
(***************************************************************************)
(* For every series, threshold and neighbour: medians exist and sums are   *)
(* numbers, a card has a window and idle time, its target fits its jump,   *)
(* what it says of a neighbour fits together, the maintenance run has a    *)
(* timeline for it, and the timeline shows the busy instants of a workload *)
(* that is up for less than a third of its period.                         *)
(***************************************************************************)
EXTENDS Signals, FiniteSetTheorems, WellFoundedInduction, TLAPS

-----------------------------------------------------------------------------
(* Sums, medians and recursion over the instants.                          *)

\* A set of numbers that is not empty has a least one.
LEMMA LeastNumber ==
  ASSUME NEW S \in SUBSET Nat, S # {}
  PROVE  \E m \in S : \A n \in S : m <= n
<1>1. PICK m \in S : \A n \in S : <<n, m>> \notin OpToRel(<, Nat)
  BY NatLessThanWellFounded, WFMin, Zenon
<1>2. \A n \in S : ~ (n < m)
  BY <1>1 DEF OpToRel
<1>3. QED BY <1>2

\* What f is that takes the step g[i] from f[i - 1] to f[i].
Recursive(f, n, base, g) == f[0] = base /\ \A i \in 1 .. n : f[i] = g[i][f[i - 1]]

\* There is a function that takes these steps.
LEMMA RecursionExists ==
  ASSUME NEW S, NEW base \in S, NEW g \in [Nat -> [S -> S]], NEW n \in Nat
  PROVE  \E f \in [0 .. n -> S] : Recursive(f, n, base, g)
<1> DEFINE Good(k) == \E f \in [0 .. k -> S] : Recursive(f, k, base, g)
           Bad == {k \in Nat : ~Good(k)}
<1>1. Bad = {}
  <2> SUFFICES ASSUME Bad # {} PROVE FALSE
    OBVIOUS
  <2>1. PICK m \in Bad : \A k \in Bad : m <= k
    BY LeastNumber
  <2>2. m \in Nat /\ ~Good(m)
    OBVIOUS
  <2>3. Good(0)
    <3>1. [i \in 0 .. 0 |-> base] \in [0 .. 0 -> S]
      OBVIOUS
    <3>2. Recursive([i \in 0 .. 0 |-> base], 0, base, g)
      BY DEF Recursive
    <3>3. QED BY <3>1, <3>2
  <2>4. m # 0 /\ m - 1 \in Nat
    <3> HIDE DEF Good
    <3>1. m # 0
      BY <2>2, <2>3
    <3>2. QED BY <2>2, <3>1
  <2>5. Good(m - 1)
    <3>1. m - 1 \notin Bad
      BY <2>1, <2>2, <2>4
    <3>2. QED BY <2>4, <3>1
  <2>6. PICK f \in [0 .. m - 1 -> S] : Recursive(f, m - 1, base, g)
    BY <2>5
  <2> DEFINE h == [i \in 0 .. m |-> IF i = m THEN g[m][f[m - 1]] ELSE f[i]]
  <2>7. \A i \in 0 .. m : i = m \/ i \in 0 .. m - 1
    BY <2>2
  <2>8. g[m][f[m - 1]] \in S
    <3>1. f[m - 1] \in S
      BY <2>4
    <3>2. g[m] \in [S -> S]
      BY <2>2
    <3>3. QED BY <3>1, <3>2
  <2>9. h \in [0 .. m -> S]
    BY <2>7, <2>8
  <2>10. Recursive(h, m, base, g)
    <3>1. 0 \in 0 .. m /\ h[0] = base
      BY <2>2, <2>4, <2>6 DEF Recursive
    <3>2. ASSUME NEW i \in 1 .. m PROVE h[i] = g[i][h[i - 1]]
      <4>1. i \in 0 .. m /\ i - 1 \in 0 .. m - 1 /\ i - 1 \in 0 .. m /\ i - 1 # m
        BY <2>2
      <4>2. h[i - 1] = f[i - 1]
        BY <4>1
      <4>3. CASE i = m
        BY <4>1, <4>2, <4>3
      <4>4. CASE i # m
        <5>1. i \in 1 .. m - 1
          BY <2>2, <4>4
        <5>2. f[i] = g[i][f[i - 1]]
          BY <2>6, <5>1 DEF Recursive
        <5>3. h[i] = f[i]
          BY <4>1, <4>4
        <5>4. QED BY <4>2, <5>2, <5>3
      <4>5. QED BY <4>3, <4>4
    <3>3. QED BY <3>1, <3>2 DEF Recursive
  <2> HIDE DEF h
  <2>11. QED BY <2>2, <2>9, <2>10
<1>2. QED BY <1>1

\* A function on a finite set of numbers has an upper bound.
LEMMA FiniteBound ==
  ASSUME NEW S, IsFiniteSet(S), NEW f, \A j \in S : f[j] \in Nat
  PROVE  \E b \in Nat : \A j \in S : f[j] <= b
<1> DEFINE Bounded(T) == \E b \in Nat : \A j \in T : f[j] <= b
           Bad == {k \in Nat : \E T \in SUBSET S : Cardinality(T) = k /\ ~Bounded(T)}
<1> SUFFICES ASSUME ~Bounded(S) PROVE FALSE
  OBVIOUS
<1>1. Cardinality(S) \in Bad
  BY FS_CardinalityType
<1>2. PICK m \in Bad : \A k \in Bad : m <= k
  <2>1. Bad \in SUBSET Nat /\ Bad # {}
    BY <1>1
  <2> HIDE DEF Bad
  <2>2. QED BY <2>1, LeastNumber
<1>3. PICK T \in SUBSET S : Cardinality(T) = m /\ ~Bounded(T)
  OBVIOUS
<1>4. IsFiniteSet(T)
  BY FS_Subset
<1>5. PICK e : e \in T
  <2>1. T # {}
    <3>1. CASE T = {}
      <4>1. Bounded(T)
        BY <3>1
      <4>2. QED BY <1>3, <4>1
    <3>2. QED BY <3>1
  <2>2. QED BY <2>1
<1>6. Cardinality(T \ {e}) = m - 1 /\ Cardinality(T \ {e}) \in Nat
  <2>1. Cardinality(T \ {e}) = m - 1
    BY <1>3, <1>4, <1>5, FS_RemoveElement
  <2>2. IsFiniteSet(T \ {e})
    BY <1>4, FS_RemoveElement
  <2>3. QED BY <2>1, <2>2, FS_CardinalityType
<1>7. Bounded(T \ {e})
  <2>1. m - 1 \notin Bad
    BY <1>2
  <2>2. QED BY <1>6, <2>1
<1>8. PICK b \in Nat : \A j \in T \ {e} : f[j] <= b
  BY <1>7
<1>9. f[e] \in Nat
  BY <1>5
<1>10. \A j \in T : f[j] <= b + f[e]
  <2>1. ASSUME NEW j \in T PROVE f[j] <= b + f[e]
    <3>1. CASE j = e
      BY <1>9, <3>1
    <3>2. CASE j # e
      <4>1. f[j] <= b /\ f[j] \in Nat
        BY <1>8, <3>2
      <4>2. QED BY <1>9, <4>1
    <3>3. QED BY <3>1, <3>2
  <2>2. QED BY <2>1
<1>11. b + f[e] \in Nat
  BY <1>9
<1>12. QED BY <1>3, <1>10, <1>11

\* The k-th smallest of at least k numbers exists: it is the least number that at least k
\* of them do not exceed.
LEMMA RankedIs ==
  ASSUME NEW S, IsFiniteSet(S), NEW f, \A j \in S : f[j] \in Nat,
         NEW k \in 1 .. Cardinality(S)
  PROVE  /\ Ranked(f, S, k) \in {f[j] : j \in S} /\ Ranked(f, S, k) \in Nat
         /\ Cardinality({j \in S : f[j] < Ranked(f, S, k)}) < k
         /\ k <= Cardinality({j \in S : f[j] <= Ranked(f, S, k)})
<1> DEFINE AtMost(v) == {j \in S : f[j] <= v}
           Below(v) == {j \in S : f[j] < v}
           V == {v \in Nat : k <= Cardinality(AtMost(v))}
<1>0. Cardinality(S) \in Nat /\ k \in Nat /\ k <= Cardinality(S) /\ k > 0
  BY FS_CardinalityType
<1>1. V # {}
  <2>1. PICK b \in Nat : \A j \in S : f[j] <= b
    BY FiniteBound
  <2>2. AtMost(b) = S
    BY <2>1
  <2>3. b \in V
    BY <1>0, <2>2
  <2>4. QED BY <2>3
<1>2. PICK v \in V : \A w \in V : v <= w
  <2> HIDE DEF V
  <2>1. V \in SUBSET Nat
    BY DEF V
  <2>2. QED BY <1>1, <2>1, LeastNumber
<1>3. v \in Nat /\ k <= Cardinality(AtMost(v))
  OBVIOUS
<1>4. IsFiniteSet(AtMost(v)) /\ IsFiniteSet(Below(v))
  BY FS_Subset
<1>5. Cardinality(Below(v)) < k
  <2>1. CASE v = 0
    <3>1. Below(v) = {}
      BY <2>1
    <3>2. QED BY <1>0, <3>1, FS_EmptySet
  <2>2. CASE v # 0
    <3>1. v - 1 \in Nat /\ ~(v <= v - 1)
      BY <1>3, <2>2
    <3>2. Below(v) = AtMost(v - 1)
      <4>1. \A j \in S : f[j] < v <=> f[j] <= v - 1
        BY <1>3, <2>2
      <4>2. QED BY <4>1
    <3>3. v - 1 \notin V
      BY <1>2, <3>1
    <3>4. ~(k <= Cardinality(Below(v)))
      BY <3>1, <3>2, <3>3
    <3>5. Cardinality(Below(v)) \in Nat
      BY <1>4, FS_CardinalityType
    <3> HIDE DEF Below
    <3>6. QED BY <1>0, <3>4, <3>5
  <2>3. QED BY <2>1, <2>2
<1>6. v \in {f[j] : j \in S}
  <2>1. CASE \E j \in S : f[j] = v
    BY <2>1
  <2>2. CASE \A j \in S : f[j] # v
    <3>1. Below(v) = AtMost(v)
      <4>1. \A j \in S : f[j] < v <=> f[j] <= v
        BY <1>3, <2>2
      <4>2. QED BY <4>1
    <3>2. Cardinality(AtMost(v)) \in Nat
      BY <1>4, FS_CardinalityType
    <3> HIDE DEF Below, AtMost
    <3>3. QED BY <1>0, <1>3, <1>5, <3>1, <3>2
  <2>3. QED BY <2>1, <2>2
<1>7. \E w \in {f[j] : j \in S} :
        /\ Cardinality({j \in S : f[j] < w}) < k
        /\ k <= Cardinality({j \in S : f[j] <= w})
  BY <1>3, <1>5, <1>6
<1>8. /\ Ranked(f, S, k) \in {f[j] : j \in S}
      /\ Cardinality({j \in S : f[j] < Ranked(f, S, k)}) < k
      /\ k <= Cardinality({j \in S : f[j] <= Ranked(f, S, k)})
  BY <1>7, Zenon DEF Ranked
<1>9. Ranked(f, S, k) \in Nat
  BY <1>8
<1>10. QED BY <1>8, <1>9

\* Twice the median is the sum of two of the values.
LEMMA MedianIs ==
  ASSUME NEW S, IsFiniteSet(S), S # {}, NEW f, \A j \in S : f[j] \in Nat
  PROVE  TwiceMedian(f, S) \in Nat /\ \E i, j \in S : TwiceMedian(f, S) = f[i] + f[j]
<1> DEFINE n == Cardinality(S)
<1>1. n \in Nat \ {0}
  BY FS_CardinalityType, FS_EmptySet
<1>2. (n + 1) \div 2 \in 1 .. n /\ n \div 2 + 1 \in 1 .. n
  BY <1>1
<1>3. PICK i \in S : Ranked(f, S, (n + 1) \div 2) = f[i]
  BY <1>2, RankedIs
<1>4. PICK j \in S : Ranked(f, S, n \div 2 + 1) = f[j]
  BY <1>2, RankedIs
<1>5. TwiceMedian(f, S) = f[i] + f[j]
  BY <1>3, <1>4 DEF TwiceMedian
<1>6. QED BY <1>5

\* The sum of a series over some instants is a number.
LEMMA SumIs ==
  ASSUME NEW f \in Seq(Nat), NEW S
  PROVE  SumOver(f, S) \in Nat
<1> DEFINE n == Len(f)
           g == [i \in Nat |-> [t \in Nat |-> IF i \in 1 .. n /\ i \in S THEN t + f[i] ELSE t]]
           Rec(h) == h = [i \in 0 .. n |-> IF i = 0 THEN 0
                            ELSE IF i \in S THEN h[i - 1] + f[i] ELSE h[i - 1]]
<1>0. n \in Nat /\ \A i \in 1 .. n : f[i] \in Nat
  OBVIOUS
<1>1. g \in [Nat -> [Nat -> Nat]]
  <2>1. ASSUME NEW i \in Nat
        PROVE  [t \in Nat |-> IF i \in 1 .. n /\ i \in S THEN t + f[i] ELSE t] \in [Nat -> Nat]
    <3>1. CASE i \in 1 .. n
      <4>1. f[i] \in Nat
        BY <1>0, <3>1
      <4> HIDE DEF n
      <4>2. QED BY <4>1
    <3>2. CASE i \notin 1 .. n
      BY <3>2
    <3>3. QED BY <3>1, <3>2
  <2> HIDE DEF n
  <2>2. QED BY <2>1
<1>2. PICK h \in [0 .. n -> Nat] : Recursive(h, n, 0, g)
  <2> DEFINE N == Nat
  <2>1. 0 \in N /\ g \in [Nat -> [N -> N]]
    BY <1>1
  <2>2. \E h \in [0 .. n -> N] : Recursive(h, n, 0, g)
    <3> HIDE DEF g, n, N
    <3>1. QED BY <1>0, <2>1, RecursionExists
  <2>3. QED BY <2>2
<1>3. ASSUME NEW i \in 0 .. n, i # 0
      PROVE  g[i][h[i - 1]] = IF i \in S THEN h[i - 1] + f[i] ELSE h[i - 1]
  <2>1. i \in Nat /\ i \in 1 .. n /\ i - 1 \in 0 .. n
    BY <1>0, <1>3
  <2>2. h[i - 1] \in Nat
    BY <2>1
  <2> HIDE DEF n
  <2>3. QED BY <2>1, <2>2
<1>4. Rec(h)
  <2>1. \A i \in 0 .. n : h[i] = IF i = 0 THEN 0 ELSE g[i][h[i - 1]]
    <3> HIDE DEF g, n
    <3> TAKE i \in 0 .. n
    <3>1. CASE i = 0
      BY <1>2, <3>1 DEF Recursive
    <3>2. CASE i # 0
      <4>1. i \in 1 .. n
        BY <1>0, <3>2
      <4>2. QED BY <1>2, <3>2, <4>1 DEF Recursive
    <3>3. QED BY <3>1, <3>2
  <2> HIDE DEF g
  <2>2. \A i \in 0 .. n : h[i] = IF i = 0 THEN 0 ELSE IF i \in S THEN h[i - 1] + f[i]
                                                       ELSE h[i - 1]
    BY <1>3, <2>1, Zenon
  <2>3. h = [i \in 0 .. n |-> h[i]]
    OBVIOUS
  <2>4. QED BY <2>2, <2>3, Zenon
<1> DEFINE total == CHOOSE h_ : Rec(h_)
<1>5. Rec(total)
  BY <1>4, Zenon
<1>6. SumOver(f, S) = total[n]
  BY Zenon DEF SumOver
<1>7. \A i \in 0 .. n : total[i] = IF i = 0 THEN 0
                            ELSE IF i \in S THEN total[i - 1] + f[i] ELSE total[i - 1]
  BY <1>5, Zenon
<1> DEFINE Bad == {i \in 0 .. n : total[i] \notin Nat}
<1>8. Bad = {}
  <2> HIDE DEF total
  <2> SUFFICES ASSUME Bad # {} PROVE FALSE
    OBVIOUS
  <2>1. PICK m \in Bad : \A i \in Bad : m <= i
    <3>1. Bad \in SUBSET Nat
      BY <1>0
    <3> HIDE DEF Bad
    <3>2. QED BY <3>1, LeastNumber
  <2>2. m \in 0 .. n /\ total[m] \notin Nat
    OBVIOUS
  <2>3. m # 0
    BY <1>7, <2>2
  <2>4. m - 1 \in 0 .. n /\ total[m - 1] \in Nat /\ f[m] \in Nat
    BY <1>0, <2>1, <2>2, <2>3
  <2> HIDE DEF n
  <2>5. total[m] = IF m \in S THEN total[m - 1] + f[m] ELSE total[m - 1]
    BY <1>7, <2>2, <2>3
  <2>6. QED BY <2>2, <2>4, <2>5
<1>9. n \in 0 .. n
  BY <1>0
<1> HIDE DEF total, n
<1>10. QED BY <1>6, <1>8, <1>9

\* A sequence that is appended to is not empty.
LEMMA Appended ==
  ASSUME NEW S, NEW q \in Seq(S), NEW e \in S
  PROVE  Append(q, e) \in Seq(S) /\ Append(q, e) # <<>>
<1>1. Append(q, e) \in Seq(S) /\ Len(Append(q, e)) = Len(q) + 1 /\ Len(q) \in Nat
  OBVIOUS
<1>2. Len(<<>>) = 0
  OBVIOUS
<1>3. Len(Append(q, e)) # Len(<<>>)
  BY <1>1, <1>2
<1>4. QED BY <1>1, <1>3

\* A function on the instants is a sequence of that length.
LEMMA OnInstants ==
  ASSUME NEW n \in Nat, NEW S, NEW f \in [1 .. n -> S]
  PROVE  f \in Seq(S) /\ Len(f) = n /\ DOMAIN f = 1 .. n
OBVIOUS

-----------------------------------------------------------------------------
(* The windows of a mask.                                                  *)

\* The windows are pairs of instants, and there is one if an instant is active.
LEMMA WindowsAre ==
  ASSUME NEW n \in Nat, NEW mask \in [1 .. n -> BOOLEAN]
  PROVE  /\ ContiguousTrue(mask) \in Seq((1 .. n) \X (1 .. n))
         /\ (\E i \in 1 .. n : mask[i]) => ContiguousTrue(mask) # <<>>
<1> DEFINE S == [ended : Seq(Nat \X Int), start : Nat]
           base == [ended |-> <<>>, start |-> 0]
           g == [i \in Nat |-> [s \in S |-> IF i \in 1 .. n THEN NextRuns(s, mask, i) ELSE s]]
           Rec(h) == h = [i \in 0 .. n |-> IF i = 0 THEN base ELSE NextRuns(h[i - 1], mask, i)]
<1>0. Len(mask) = n
  BY OnInstants
<1>1. ASSUME NEW i \in 1 .. n, NEW s \in S PROVE NextRuns(s, mask, i) \in S
  <2>1. mask[i] \in BOOLEAN /\ s.start \in Nat /\ s.ended \in Seq(Nat \X Int) /\ i \in Nat
    OBVIOUS
  <2>2. [s EXCEPT !.start = i] \in S
    BY <2>1
  <2>3. <<s.start, i - 1>> \in Nat \X Int
    BY <2>1
  <2>4. Append(s.ended, <<s.start, i - 1>>) \in Seq(Nat \X Int)
    BY <2>1, <2>3
  <2>5. [ended |-> Append(s.ended, <<s.start, i - 1>>), start |-> 0] \in S
    BY <2>4
  <2> HIDE DEF S
  <2>6. QED BY <2>2, <2>5 DEF NextRuns
<1>2. base \in S /\ g \in [Nat -> [S -> S]]
  <2>1. base \in S
    OBVIOUS
  <2> HIDE DEF S, base
  <2>2. QED BY <1>1, <2>1
<1>3. PICK h \in [0 .. n -> S] : Recursive(h, n, base, g)
  <2> HIDE DEF S, base, g
  <2>1. QED BY <1>2, RecursionExists
<1>4. Rec(h)
  <2>1. \A i \in 0 .. n : h[i] = IF i = 0 THEN base ELSE g[i][h[i - 1]]
    <3> HIDE DEF S, base, g
    <3> TAKE i \in 0 .. n
    <3>1. CASE i = 0
      BY <1>3, <3>1 DEF Recursive
    <3>2. CASE i # 0
      <4>1. i \in 1 .. n
        BY <3>2
      <4>2. QED BY <1>3, <3>2, <4>1 DEF Recursive
    <3>3. QED BY <3>1, <3>2
  <2>2. ASSUME NEW i \in 0 .. n, i # 0 PROVE g[i][h[i - 1]] = NextRuns(h[i - 1], mask, i)
    <3>1. i \in Nat /\ i \in 1 .. n /\ i - 1 \in 0 .. n
      BY <2>2
    <3> HIDE DEF S
    <3>2. h[i - 1] \in S
      BY <3>1
    <3>3. QED BY <3>1, <3>2
  <2> HIDE DEF g, base, S
  <2>3. \A i \in 0 .. n : h[i] = IF i = 0 THEN base ELSE NextRuns(h[i - 1], mask, i)
    BY <2>1, <2>2, Zenon
  <2>4. h = [i \in 0 .. n |-> h[i]]
    OBVIOUS
  <2>5. QED BY <2>3, <2>4, Zenon
<1> DEFINE after == CHOOSE h_ : Rec(h_)
<1>5. Rec(after)
  BY <1>4, Zenon
<1>6. Runs(mask) = after[n]
  BY <1>0, Zenon DEF Runs
<1>7. \A i \in 0 .. n : after[i] = IF i = 0 THEN base ELSE NextRuns(after[i - 1], mask, i)
  BY <1>5, Zenon
<1> DEFINE W == (1 .. n) \X (1 .. n)
           Found(s, i) == /\ s \in [ended : Seq(W), start : 0 .. i]
                          /\ (\E j \in 1 .. i : mask[j]) => s.start # 0 \/ s.ended # <<>>
           Bad == {i \in 0 .. n : ~Found(after[i], i)}
<1>8. Found(base, 0)
  OBVIOUS
<1>9. ASSUME NEW i \in 1 .. n, NEW s, Found(s, i - 1) PROVE Found(NextRuns(s, mask, i), i)
  <2>1. /\ s \in [ended : Seq(W), start : 0 .. i - 1] /\ mask[i] \in BOOLEAN
        /\ s.start \in 0 .. i - 1 /\ s.ended \in Seq(W) /\ i \in Nat /\ i <= n
    BY <1>9
  <2>2. (\E j \in 1 .. i : mask[j]) => mask[i] \/ s.start # 0 \/ s.ended # <<>>
    <3> SUFFICES ASSUME NEW j \in 1 .. i, mask[j] PROVE mask[i] \/ s.start # 0 \/ s.ended # <<>>
      OBVIOUS
    <3>1. CASE j = i
      BY <3>1
    <3>2. CASE j # i
      <4>1. j \in 1 .. i - 1
        BY <2>1, <3>2
      <4>2. QED BY <1>9, <4>1
    <3>3. QED BY <3>1, <3>2
  <2>3. CASE mask[i] /\ s.start = 0
    <3>1. NextRuns(s, mask, i) = [s EXCEPT !.start = i]
      BY <2>3 DEF NextRuns
    <3>2. i \in 0 .. i /\ i # 0
      BY <2>1
    <3> HIDE DEF W
    <3>3. [s EXCEPT !.start = i] = [ended |-> s.ended, start |-> i]
      <4>1. s = [ended |-> s.ended, start |-> s.start]
        BY <2>1
      <4>2. QED BY <4>1
    <3>4. QED BY <2>1, <3>1, <3>2, <3>3
  <2>4. CASE ~mask[i] /\ s.start # 0
    <3>1. NextRuns(s, mask, i) = [ended |-> Append(s.ended, <<s.start, i - 1>>), start |-> 0]
      BY <2>4 DEF NextRuns
    <3>2. s.start \in 1 .. n /\ i - 1 \in 1 .. n /\ 0 \in 0 .. i
      <4>1. PICK k : k = s.start
        OBVIOUS
      <4>2. k \in 0 .. i - 1 /\ i \in 1 .. n /\ n \in Nat /\ k # 0
        BY <2>1, <2>4, <4>1
      <4>3. QED BY <4>1, <4>2
    <3>3. <<s.start, i - 1>> \in W
      BY <3>2
    <3>4. PICK q \in Seq(W) : q = Append(s.ended, <<s.start, i - 1>>) /\ q # <<>>
      <4> HIDE DEF W
      <4>1. QED BY <2>1, <3>3, Appended
    <3>5. PICK t : t = NextRuns(s, mask, i)
      OBVIOUS
    <3>6. t = [ended |-> q, start |-> 0]
      BY <3>1, <3>4, <3>5
    <3> HIDE DEF W
    <3>7. t \in [ended : Seq(W), start : 0 .. i] /\ t.ended # <<>>
      BY <3>2, <3>4, <3>6
    <3>8. QED BY <3>5, <3>7
  <2>5. CASE ~(mask[i] /\ s.start = 0) /\ ~(~mask[i] /\ s.start # 0)
    <3>1. NextRuns(s, mask, i) = s
      BY <2>5 DEF NextRuns
    <3> HIDE DEF W
    <3>2. s \in [ended : Seq(W), start : 0 .. i]
      BY <2>1
    <3>3. QED BY <2>2, <2>5, <3>1, <3>2
  <2>6. QED BY <2>3, <2>4, <2>5
<1>10. Bad = {}
  <2> HIDE DEF after, Found, base
  <2> SUFFICES ASSUME Bad # {} PROVE FALSE
    OBVIOUS
  <2>1. PICK m \in Bad : \A i \in Bad : m <= i
    <3>1. Bad \in SUBSET Nat
      OBVIOUS
    <3> HIDE DEF Bad
    <3>2. QED BY <3>1, LeastNumber
  <2>2. m \in 0 .. n /\ ~Found(after[m], m)
    OBVIOUS
  <2>3. m # 0
    BY <1>7, <1>8, <2>2
  <2>4. m \in 1 .. n /\ m - 1 \in 0 .. n /\ m - 1 \notin Bad
    BY <2>1, <2>2, <2>3
  <2>5. Found(after[m - 1], m - 1)
    BY <2>4
  <2>6. QED BY <1>7, <1>9, <2>2, <2>3, <2>4, <2>5
<1>11. PICK runs : runs = Runs(mask)
  OBVIOUS
<1>12. Found(runs, n)
  <2> HIDE DEF after, Found
  <2>1. n \in 0 .. n
    OBVIOUS
  <2>2. QED BY <1>6, <1>10, <1>11, <2>1
<1>13. CASE runs.start = 0
  BY <1>11, <1>12, <1>13 DEF ContiguousTrue
<1>14. CASE runs.start # 0
  <2>1. <<runs.start, n>> \in W /\ runs.ended \in Seq(W)
    BY <1>12, <1>14
  <2>2. Append(runs.ended, <<runs.start, n>>) \in Seq(W) /\ Append(runs.ended, <<runs.start, n>>) # <<>>
    <3> HIDE DEF W
    <3>1. QED BY <2>1, Appended
  <2>3. ContiguousTrue(mask) = Append(runs.ended, <<runs.start, n>>)
    BY <1>0, <1>11, <1>14 DEF ContiguousTrue
  <2>4. QED BY <2>2, <2>3 DEF W
<1>15. QED BY <1>13, <1>14

-----------------------------------------------------------------------------
(* What is observed of the workload, and what a stage returns for it.      *)

Observed == input \in Inputs /\ cfg \in Configs

\* The samples are numbers at the instants, and a period is at most half of them.
LEMMA SamplesAre ==
  ASSUME Observed
  PROVE  /\ Length \in Nat \ {0} /\ IsFiniteSet(Instants)
         /\ \A r \in Resources : /\ input.values[r] \in [Instants -> Nat]
                                 /\ input.values[r] \in Seq(Nat) /\ Len(input.values[r]) = Length
                                 /\ DOMAIN input.values[r] = Instants
         /\ \A r \in Resources : input.found[r] \in Nat /\ 2 * input.found[r] <= Length
         /\ input.strength \in [Resources -> Strengths]
         /\ input.found \in [Resources -> Findable(Length)]
         /\ cfg \in Thresholds
<1> DEFINE n == Length
<1>1. /\ n \in Nat \ {0} /\ input.values \in [Resources -> [1 .. n -> Nat]]
      /\ input.found \in [Resources -> Findable(n)]
      /\ input.strength \in [Resources -> Strengths] /\ cfg \in Thresholds
  BY SignalAssumption DEF Observed, Length
<1>2. IsFiniteSet(Instants)
  BY <1>1, FS_Interval DEF Instants
<1> HIDE DEF n
<1>3. ASSUME NEW r \in Resources
      PROVE  /\ input.values[r] \in [1 .. n -> Nat]
             /\ input.values[r] \in Seq(Nat) /\ Len(input.values[r]) = n
             /\ DOMAIN input.values[r] = 1 .. n
  <2>1. PICK f : f = input.values[r]
    OBVIOUS
  <2>2. f \in [1 .. n -> Nat]
    BY <1>1, <2>1
  <2> DEFINE N == Nat
  <2>3. f \in Seq(N) /\ Len(f) = n /\ DOMAIN f = 1 .. n
    <3>1. f \in [1 .. n -> N]
      BY <2>2
    <3> HIDE DEF N
    <3>2. QED BY <1>1, <3>1, OnInstants
  <2>4. QED BY <2>1, <2>2, <2>3
<1>4. ASSUME NEW r \in Resources PROVE input.found[r] \in Nat /\ 2 * input.found[r] <= n
  <2>1. input.found[r] \in Findable(n)
    BY <1>1
  <2>2. QED BY <1>1, <2>1 DEF Findable
<1>5. QED BY <1>1, <1>2, <1>3, <1>4 DEF n, Instants

\* The period that the resources agree on fits the series.
LEMMA PeriodIs ==
  ASSUME Observed
  PROVE  Consensus(input, cfg) \in 0 .. Length
<1> DEFINE S == Periodic(input, cfg)
           median == TwiceMedian(input.found, S)
<1>1. S \subseteq Resources /\ IsFiniteSet(S)
  BY SignalAssumption, FS_Subset DEF Periodic
<1>2. Length \in Nat /\ \A r \in S : input.found[r] \in Nat /\ 2 * input.found[r] <= Length
  BY <1>1, SamplesAre
<1>3. S # {} => median \in 0 .. Length
  <2> SUFFICES ASSUME S # {} PROVE median \in 0 .. Length
    OBVIOUS
  <2>1. PICK f : f = input.found
    OBVIOUS
  <2> HIDE DEF S
  <2>2. median \in Nat /\ \E i, j \in S : median = f[i] + f[j]
    BY <1>1, <1>2, <2>1, MedianIs
  <2>3. PICK i, j \in S : median = f[i] + f[j]
    BY <2>2
  <2>4. /\ f[i] \in Nat /\ 2 * f[i] <= Length
        /\ f[j] \in Nat /\ 2 * f[j] <= Length
    BY <1>2, <2>1
  <2> HIDE DEF median
  <2>5. QED BY <1>2, <2>2, <2>3, <2>4
<1>4. Consensus(input, cfg) = median \/ Consensus(input, cfg) = 0
  BY DEF Consensus
<1>5. CASE S # {}
  BY <1>2, <1>3, <1>4, <1>5
<1>6. CASE S = {}
  <2>1. Consensus(input, cfg) = 0
    BY <1>6 DEF Consensus
  <2>2. QED BY <1>2, <2>1
<1>7. QED BY <1>5, <1>6

\* The window around an instant has instants of the series, that one among them.
LEMMA AroundIs ==
  ASSUME NEW n \in Nat, NEW i \in 1 .. n, NEW width \in Nat \ {0}
  PROVE  /\ i \in Around(i, n, width) /\ Around(i, n, width) \subseteq 1 .. n
         /\ IsFiniteSet(Around(i, n, width))
<1>1. i \in Around(i, n, width) /\ Around(i, n, width) \subseteq 1 .. n
  BY DEF Around
<1>2. IsFiniteSet(1 .. n)
  BY FS_Interval
<1>3. QED BY <1>1, <1>2, FS_Subset

\* A classified series is a mask.
LEMMA ClassifyIs ==
  ASSUME NEW n \in Nat, NEW values \in [1 .. n -> Nat], NEW period \in Nat, NEW band \in Nat
  PROVE  Classify(values, period, band) \in [1 .. n -> BOOLEAN]
<1> DEFINE width == IF period > 3 THEN period ELSE 3
           median(i) == TwiceMedian(values, Around(i, Len(values), width))
<1>1. width \in Nat \ {0} /\ DOMAIN values = 1 .. n /\ Len(values) = n
  BY OnInstants
<1>2. ASSUME NEW i \in 1 .. n PROVE median(i) \in Nat
  <2> HIDE DEF width
  <2>1. PICK A : A = Around(i, Len(values), width)
    OBVIOUS
  <2>2. A # {} /\ A \subseteq 1 .. n /\ IsFiniteSet(A)
    BY <1>1, <2>1, AroundIs
  <2>3. \A j \in A : values[j] \in Nat
    BY <2>2
  <2>4. TwiceMedian(values, A) \in Nat
    BY <2>2, <2>3, MedianIs
  <2>5. QED BY <2>1, <2>4
<1>3. ASSUME NEW i \in 1 .. n PROVE (200 * values[i] > (100 + band) * median(i)) \in BOOLEAN
  <2>1. values[i] \in Nat
    OBVIOUS
  <2> HIDE DEF median
  <2>2. QED BY <1>2, <2>1
<1>4. Classify(values, period, band) =
        [i \in 1 .. n |-> 200 * values[i] > (100 + band) * median(i)]
  BY <1>1 DEF Classify
<1> HIDE DEF median
<1>5. QED BY <1>3, <1>4

\* The masks of some resources, and what they have together.
LEMMA MasksAre ==
  ASSUME Observed, NEW kept \in SUBSET Resources
  PROVE  /\ Masks(input, cfg, kept) \in [kept -> Mask]
         /\ Union(Masks(input, cfg, kept)) \in Mask
<1>1. Length \in Nat /\ Instants = 1 .. Length /\ cfg.band \in Nat
  BY SamplesAre DEF Instants, Thresholds
<1>2. Consensus(input, cfg) \in Nat
  BY <1>1, PeriodIs
<1>3. ASSUME NEW r \in kept
      PROVE  Classify(input.values[r], Consensus(input, cfg), cfg.band) \in Mask
  <2>1. PICK v : v = input.values[r]
    OBVIOUS
  <2>2. v \in [1 .. Length -> Nat]
    BY <1>1, <2>1, SamplesAre
  <2>3. QED BY <1>1, <1>2, <2>1, <2>2, ClassifyIs DEF Mask
<1>4. Masks(input, cfg, kept) \in [kept -> Mask]
  BY <1>3 DEF Masks
<1>5. Union(Masks(input, cfg, kept)) \in Mask
  BY DEF Union, Mask
<1>6. QED BY <1>4, <1>5

\* What passes the filters has active and idle instants.
LEMMA QualifiedIs ==
  ASSUME Observed, NEW masks, Qualifies(masks, cfg)
  PROVE  /\ ActiveSet(Union(masks)) # {} /\ ActiveSet(Union(masks)) \subseteq Instants
         /\ Length - Cardinality(ActiveSet(Union(masks))) \in Nat \ {0}
<1> DEFINE U == ActiveSet(Union(masks))
<1>1. U \subseteq Instants
  BY DEF ActiveSet, Union
<1>2. Cardinality(U) \in Nat /\ Length \in Nat
  BY <1>1, SamplesAre, FS_Subset, FS_CardinalityType
<1>3. Length - Cardinality(U) > 0
  BY DEF Qualifies
<1>4. U # {}
  BY DEF Qualifies, Overlaps, overlap_min
<1>5. QED
  <2> HIDE DEF U
  <2>1. Length - Cardinality(U) \in Nat \ {0}
    BY <1>2, <1>3
  <2>2. QED BY <1>1, <1>4, <2>1 DEF U

\* What analyze_signal returns when it returns a signal.
LEMMA SignalIs ==
  ASSUME Observed, Signal(input, cfg) # None
  PROVE  \E kept \in (SUBSET Seasonal(input, cfg)) \ {{}} :
           /\ Signal(input, cfg) = [period |-> Consensus(input, cfg), kept |-> kept,
                                    masks |-> Masks(input, cfg, kept),
                                    active |-> Union(Masks(input, cfg, kept))]
           /\ Consensus(input, cfg) # 0 /\ Qualifies(Masks(input, cfg, kept), cfg)
<1> DEFINE seasonal == Seasonal(input, cfg)
           kept == {r \in seasonal :
                      AtLeast(Jump(input.values[r], Masks(input, cfg, seasonal)[r]), cfg.jump_min)}
<1>1. kept \in SUBSET seasonal
  OBVIOUS
<1>2. kept # {} /\ Consensus(input, cfg) # 0 /\ Qualifies(Masks(input, cfg, kept), cfg)
  BY Zenon DEF Signal
<1>3. Signal(input, cfg) = [period |-> Consensus(input, cfg), kept |-> kept,
                            masks |-> Masks(input, cfg, kept),
                            active |-> Union(Masks(input, cfg, kept))]
  BY <1>2, Zenon DEF Signal
<1>4. kept \in (SUBSET Seasonal(input, cfg)) \ {{}}
  <2>1. kept # {}
    BY <1>2
  <2> HIDE DEF kept
  <2>2. QED BY <1>1, <2>1
<1> HIDE DEF kept
<1>5. QED BY <1>2, <1>3, <1>4, Zenon

\* What detect_timeline returns when it returns a timeline, and when it does.
LEMMA TimelineIs ==
  ASSUME Observed
  PROVE  /\ Seasonal(input, cfg) \subseteq Resources
         /\ Timeline(input, cfg) # None <=> Consensus(input, cfg) # 0 /\ Seasonal(input, cfg) # {}
         /\ Timeline(input, cfg) # None =>
              Timeline(input, cfg) = [period |-> Consensus(input, cfg), kept |-> Seasonal(input, cfg),
                                      active |-> Union(Masks(input, cfg, Seasonal(input, cfg)))]
<1>1. Seasonal(input, cfg) \subseteq Resources
  BY DEF Seasonal, Periodic
<1> DEFINE record == [period |-> Consensus(input, cfg), kept |-> Seasonal(input, cfg),
                      active |-> Union(Masks(input, cfg, Seasonal(input, cfg)))]
<1>2. record # None
  <2>1. Consensus(input, cfg) \in Nat
    BY PeriodIs, SamplesAre
  <2>2. PICK a : a = Union(Masks(input, cfg, Seasonal(input, cfg)))
    OBVIOUS
  <2>3. a \in Seq(BOOLEAN)
    <3>1. a \in [1 .. Length -> BOOLEAN]
      BY <1>1, <2>2, MasksAre DEF Mask, Instants
    <3> DEFINE B == BOOLEAN
    <3>2. a \in Seq(B)
      <4>1. a \in [1 .. Length -> B] /\ Length \in Nat
        BY <3>1, SamplesAre
      <4> HIDE DEF B
      <4>2. QED BY <4>1, OnInstants
    <3>3. QED BY <3>2
  <2>4. record \in [period : Nat, kept : SUBSET Resources, active : Seq(BOOLEAN)]
    BY <1>1, <2>1, <2>2, <2>3
  <2> HIDE DEF record
  <2>5. QED BY <2>4, SignalAssumption
<1>3. Timeline(input, cfg) =
        IF Consensus(input, cfg) # 0 /\ Seasonal(input, cfg) # {} THEN record ELSE None
  BY Zenon DEF Timeline
<1> HIDE DEF record
<1>4. QED BY <1>1, <1>2, <1>3 DEF record

-----------------------------------------------------------------------------
(* The stages in their order.                                              *)

\* Each stage returns what its definition says of the workload, and a signal that passed
\* the filters has an active instant for its card.
Staged ==
  /\ Observed
  /\ pc \in {"analyze", "detect", "build", "done"}
  /\ signal # None => signal = Signal(input, cfg)
  /\ pc = "build" => signal # None
  /\ timeline # None => timeline = Timeline(input, cfg)
  /\ pc \in {"build", "done"} => timeline = Timeline(input, cfg)
  /\ pc # "done" => card = None
  /\ card # None => signal # None /\ \E o \in Others \cup {None} : card = Card(signal, o)

\* The stages read only what is observed of the workload.
LEMMA ReadsObserved ==
  ASSUME UNCHANGED <<input, cfg>>
  PROVE  /\ Signal(input, cfg)' = Signal(input, cfg)
         /\ Timeline(input, cfg)' = Timeline(input, cfg)
<1>1. input' = input /\ cfg' = cfg
  OBVIOUS
<1>2. Signal(input, cfg)' = Signal(input, cfg)
  BY <1>1 DEF Signal, Qualifies, Overlaps, Common, Union, Instants, Length
<1>3. Timeline(input, cfg)' = Timeline(input, cfg)
  BY <1>1 DEF Timeline, Union, Instants, Length
<1>4. QED BY <1>2, <1>3

\* A card is about the workload that is observed.
LEMMA CardReads ==
  ASSUME UNCHANGED <<input, cfg, signal>>, NEW o
  PROVE  Card(signal, o)' = Card(signal, o)
<1>1. input' = input /\ cfg' = cfg /\ signal' = signal
  OBVIOUS
<1>2. QED BY <1>1 DEF Card, confidence, Overlaps, Common, Union, Instants, Length

\* A signal has an active instant.
LEMMA SignalActive ==
  ASSUME Observed, Signal(input, cfg) # None
  PROVE  /\ Signal(input, cfg).active \in Mask
         /\ ActiveSet(Signal(input, cfg).active) # {}
         /\ Length - Cardinality(ActiveSet(Signal(input, cfg).active)) \in Nat \ {0}
<1>1. PICK kept \in (SUBSET Seasonal(input, cfg)) \ {{}} :
        /\ Signal(input, cfg) = [period |-> Consensus(input, cfg), kept |-> kept,
                                 masks |-> Masks(input, cfg, kept),
                                 active |-> Union(Masks(input, cfg, kept))]
        /\ Qualifies(Masks(input, cfg, kept), cfg)
  BY SignalIs
<1>2. kept \in SUBSET Resources
  BY <1>1 DEF Seasonal, Periodic
<1>3. Signal(input, cfg).active = Union(Masks(input, cfg, kept))
  BY <1>1
<1>4. QED BY <1>1, <1>2, <1>3, MasksAre, QualifiedIs

LEMMA StagedKept == Spec => []Staged
<1>1. Init => Staged
  BY DEF Init, Staged, Observed
<1>2. Staged /\ [Next]_vars => Staged'
  <2> SUFFICES ASSUME Staged, [Next]_vars PROVE Staged'
    OBVIOUS
  <2>1. ASSUME UNCHANGED <<input, cfg>> PROVE Observed'
    BY <2>1 DEF Staged, Observed
  <2>2. CASE AnalyzeSignal
    <3>1. UNCHANGED <<input, cfg, timeline, card>> /\ signal' = Signal(input, cfg) /\ pc' = "detect"
      BY <2>2 DEF AnalyzeSignal
    <3>2. card = None
      BY <2>2 DEF AnalyzeSignal, Staged
    <3>3. QED BY <2>1, <3>1, <3>2, ReadsObserved DEF Staged
  <2>3. CASE DetectTimeline
    <3>1. /\ UNCHANGED <<input, cfg, signal, card>> /\ timeline' = Timeline(input, cfg)
          /\ pc' = IF signal = None THEN "done" ELSE "build"
      BY <2>3 DEF DetectTimeline
    <3>2. pc = "detect" /\ card = None
      BY <2>3 DEF DetectTimeline, Staged
    <3>3. QED BY <2>1, <3>1, <3>2, ReadsObserved DEF Staged
  <2>4. CASE BuildCard
    <3>1. UNCHANGED <<input, cfg, signal, timeline>> /\ pc = "build"
      BY <2>4 DEF BuildCard
    <3>2. ActiveSet(signal.active) # {}
      BY <3>1, SignalActive DEF Staged
    <3>3. PICK o \in Others \cup {None} : pc' = "done" /\ card' = Card(signal, o)
      BY <2>4, <3>2 DEF BuildCard
    <3>4. Card(signal, o)' = Card(signal, o)
      BY <3>1, CardReads
    <3>5. QED BY <2>1, <3>1, <3>3, <3>4, ReadsObserved DEF Staged
  <2>5. CASE UNCHANGED vars
    <3>1. UNCHANGED <<input, cfg, signal, timeline, card, pc>>
      BY <2>5 DEF vars
    <3>2. \A o : Card(signal, o)' = Card(signal, o)
      BY <3>1, CardReads
    <3>3. QED BY <2>1, <3>1, <3>2, ReadsObserved DEF Staged
  <2>6. QED BY <2>2, <2>3, <2>4, <2>5 DEF Next
<1>3. QED BY <1>1, <1>2, PTL DEF Spec

\* detect_timeline only leaves filters out: in every state a signal has a timeline of its
\* period that is active whenever it is.
LEMMA TimelineCovers ==
  ASSUME Observed, Signal(input, cfg) # None
  PROVE  /\ Timeline(input, cfg) # None
         /\ Timeline(input, cfg).period = Signal(input, cfg).period
         /\ Signal(input, cfg).kept \subseteq Timeline(input, cfg).kept
         /\ ActiveSet(Signal(input, cfg).active) \subseteq ActiveSet(Timeline(input, cfg).active)
<1> DEFINE seasonal == Seasonal(input, cfg)
<1>1. PICK kept \in (SUBSET seasonal) \ {{}} :
        /\ Signal(input, cfg) = [period |-> Consensus(input, cfg), kept |-> kept,
                                 masks |-> Masks(input, cfg, kept),
                                 active |-> Union(Masks(input, cfg, kept))]
        /\ Consensus(input, cfg) # 0
  BY SignalIs
<1>2. Timeline(input, cfg) # None
  BY <1>1, TimelineIs
<1>3. Timeline(input, cfg) = [period |-> Consensus(input, cfg), kept |-> seasonal,
                              active |-> Union(Masks(input, cfg, seasonal))]
  BY <1>2, TimelineIs
<1>4. ActiveSet(Union(Masks(input, cfg, kept))) \subseteq
        ActiveSet(Union(Masks(input, cfg, seasonal)))
  BY <1>1 DEF ActiveSet, Union, Masks
<1>5. QED BY <1>1, <1>2, <1>3, <1>4

\* A workload with a card also has a timeline in a maintenance run on the same data, of
\* the same period and active whenever the card says so.
THEOREM TimelineOfSignal == Spec => []SignalHasTimeline
<1>1. Staged => SignalHasTimeline
  BY TimelineCovers DEF Staged, SignalHasTimeline
<1>2. QED BY <1>1, StagedKept, PTL

\* Whatever the thresholds: a card has a window and idle time, and none is ever refused for
\* the want of a window.
THEOREM WindowOfCard == Spec => []CardHasWindow
<1>1. ASSUME Staged PROVE CardHasWindow
  <2>1. pc # "raised"
    BY <1>1 DEF Staged
  <2>2. ASSUME card # None PROVE card.windows # <<>> /\ card.idle > 0
    <3>1. signal # None /\ signal = Signal(input, cfg) /\ Observed
      BY <1>1, <2>2 DEF Staged
    <3>2. PICK o : card = Card(signal, o)
      BY <1>1, <2>2 DEF Staged
    <3>3. /\ signal.active \in Mask /\ ActiveSet(signal.active) # {}
          /\ Length - Cardinality(ActiveSet(signal.active)) \in Nat \ {0}
      BY <3>1, SignalActive
    <3>4. Length \in Nat /\ signal.active \in [1 .. Length -> BOOLEAN]
      BY <3>1, <3>3, SamplesAre DEF Mask, Instants
    <3>5. \E i \in 1 .. Length : signal.active[i]
      BY <3>3, <3>4 DEF ActiveSet
    <3>6. ContiguousTrue(signal.active) # <<>>
      BY <3>4, <3>5, WindowsAre
    <3>7. /\ card.windows = ContiguousTrue(signal.active)
          /\ card.idle = Length - Cardinality(ActiveSet(signal.active))
      BY <3>2 DEF Card
    <3>8. QED BY <3>3, <3>6, <3>7
  <2>3. QED BY <2>1, <2>2 DEF CardHasWindow
<1>2. QED BY <1>1, StagedKept, PTL

\* Every stage returns what its type says.
THEOREM TypeCorrect == Spec => []TypeOK
<1>1. ASSUME Staged PROVE TypeOK
  <2>1. /\ Observed /\ Consensus(input, cfg) \in 0 .. Length /\ Length \in Nat
        /\ Seasonal(input, cfg) \subseteq Resources
    BY <1>1, PeriodIs, SamplesAre, TimelineIs DEF Staged
  <2>2. /\ pc \in {"analyze", "detect", "build", "done", "raised"}
        /\ input.found \in [Resources -> Findable(Length)] /\ cfg \in Thresholds
    BY <1>1, <2>1, SamplesAre DEF Staged
  <2>3. ASSUME signal # None
        PROVE  /\ signal.period \in 1 .. Length /\ signal.kept \in (SUBSET Resources) \ {{}}
               /\ signal.masks \in [signal.kept -> Mask] /\ signal.active \in Mask
    <3>1. PICK kept \in (SUBSET Seasonal(input, cfg)) \ {{}} :
            /\ signal = [period |-> Consensus(input, cfg), kept |-> kept,
                         masks |-> Masks(input, cfg, kept),
                         active |-> Union(Masks(input, cfg, kept))]
            /\ Consensus(input, cfg) # 0
      BY <1>1, <2>3, SignalIs DEF Staged
    <3>2. kept \in SUBSET Resources /\ kept # {}
      BY <2>1, <3>1
    <3>3. /\ Masks(input, cfg, kept) \in [kept -> Mask]
          /\ Union(Masks(input, cfg, kept)) \in Mask
      BY <2>1, <3>2, MasksAre
    <3>4. QED BY <2>1, <3>1, <3>2, <3>3
  <2>4. ASSUME timeline # None
        PROVE  /\ timeline.period \in 1 .. Length /\ timeline.active \in Mask
               /\ timeline.kept \in (SUBSET Resources) \ {{}}
    <3>1. timeline = Timeline(input, cfg)
      BY <1>1, <2>4 DEF Staged
    <3>2. PICK kept \in SUBSET Resources :
            /\ kept # {} /\ Consensus(input, cfg) # 0
            /\ timeline = [period |-> Consensus(input, cfg), kept |-> kept,
                           active |-> Union(Masks(input, cfg, kept))]
      BY <2>1, <2>4, <3>1, TimelineIs
    <3>3. Union(Masks(input, cfg, kept)) \in Mask
      BY <2>1, MasksAre
    <3>4. QED BY <2>1, <3>2, <3>3
  <2>5. ASSUME card # None
        PROVE  /\ card.target \in {"Knative", "KEDA", "Job", "CronJob"}
               /\ card.confidence \in {"high", "medium", "low"}
               /\ card.idle \in Nat /\ card.windows \in Seq(Instants \X Instants)
    <3>1. PICK o : card = Card(signal, o)
      BY <1>1, <2>5 DEF Staged
    <3>2. signal # None /\ signal = Signal(input, cfg)
      BY <1>1, <2>5 DEF Staged
    <3>3. signal.active \in [1 .. Length -> BOOLEAN]
      BY <2>3, <3>2 DEF Mask, Instants
    <3>4. Length - Cardinality(ActiveSet(signal.active)) \in Nat
      BY <2>1, <3>2, SignalActive
    <3>5. ContiguousTrue(signal.active) \in Seq(Instants \X Instants)
      BY <2>1, <3>3, WindowsAre DEF Instants
    <3>6. /\ card.idle = Length - Cardinality(ActiveSet(signal.active))
          /\ card.windows = ContiguousTrue(signal.active)
      BY <3>1 DEF Card
    <3>7. /\ card.target \in {"Knative", "KEDA", "Job", "CronJob"}
          /\ card.confidence \in {"high", "medium", "low"}
      BY <3>1 DEF Card, choose_target, confidence
    <3>8. QED BY <3>4, <3>5, <3>6, <3>7
  <2>6. QED BY <2>2, <2>3, <2>4, <2>5 DEF TypeOK
<1>2. QED BY <1>1, StagedKept, PTL

-----------------------------------------------------------------------------
(* What a card says of a neighbour.                                        *)

\* Aligned and called in idle time at once: the workload's activity is half the neighbour's.
LEMMA PeerAndAdhoc ==
  ASSUME NEW mask, IsFiniteSet(DOMAIN mask), NEW other,
         WindowsAlign(mask, other), Adhoc(mask, other)
  PROVE  LET T == ActiveSet(mask) \cap Both(mask, other)
             S == ActiveSet(other) \cap Both(mask, other)
         IN  T \subseteq S /\ Cardinality(S) = 2 * Cardinality(T)
<1> DEFINE T == ActiveSet(mask) \cap Both(mask, other)
           S == ActiveSet(other) \cap Both(mask, other)
<1>1. IsFiniteSet(T) /\ IsFiniteSet(S)
  BY FS_Subset DEF Both
<1>2. S \ ActiveSet(mask) = S \ T
  OBVIOUS
<1>3. 100 * Cardinality(S \ T) >= 50 * Cardinality(S)
  BY <1>2 DEF Adhoc, adhoc_min
<1>4. 100 * Cardinality(T \cap S) >= 50 * Cardinality(T \cup S)
  BY DEF WindowsAlign, peer_overlap_min
<1> HIDE DEF S, T
<1>5. /\ Cardinality(T \cup S) = Cardinality(T) + Cardinality(S) - Cardinality(T \cap S)
      /\ Cardinality(S \ T) = Cardinality(S) - Cardinality(T \cap S)
      /\ Cardinality(T \cap S) \in Nat /\ Cardinality(T) \in Nat /\ Cardinality(S) \in Nat
      /\ Cardinality(T \cap S) <= Cardinality(T)
  <2>1. T \cap S = S \cap T
    OBVIOUS
  <2>2. IsFiniteSet(T \cap S) /\ Cardinality(T \cap S) <= Cardinality(T)
    <3>1. T \cap S \in SUBSET T
      OBVIOUS
    <3>2. QED BY <1>1, <3>1, FS_Subset
  <2>3. Cardinality(T \cup S) = Cardinality(T) + Cardinality(S) - Cardinality(T \cap S)
    BY <1>1, FS_Union
  <2>4. Cardinality(S \ T) = Cardinality(S) - Cardinality(T \cap S)
    BY <1>1, <2>1, FS_Difference
  <2>5. QED BY <1>1, <2>2, <2>3, <2>4, FS_CardinalityType
<1>6. Cardinality(T \cap S) = Cardinality(T) /\ Cardinality(S) = 2 * Cardinality(T)
  BY <1>3, <1>4, <1>5
<1>7. T \cap S = T
  <2>1. T \cap S \in SUBSET T
    OBVIOUS
  <2>2. QED BY <1>1, <1>6, <2>1, FS_Subset
<1>8. QED BY <1>6, <1>7 DEF S, T

\* A card does not say of one neighbour that it peaks at the same time and that it calls in
\* idle time, but for the tie.
THEOREM PeerOrCaller == Spec => []PeerOrAdhoc
<1>1. ASSUME Staged PROVE PeerOrAdhoc
  <2> SUFFICES ASSUME card # None, card.peer, card.target = "Knative"
               PROVE  LET T == ActiveSet(signal.active) \cap Both(signal.active, card.other.active)
                          S == ActiveSet(card.other.active) \cap Both(signal.active, card.other.active)
                      IN  T \subseteq S /\ Cardinality(S) = 2 * Cardinality(T)
    BY DEF PeerOrAdhoc
  <2>1. signal # None /\ signal = Signal(input, cfg) /\ Observed
    BY <1>1 DEF Staged
  <2>2. PICK o : card = Card(signal, o)
    BY <1>1 DEF Staged
  <2>3. card.other = o
    BY <2>2 DEF Card
  <2>4. WindowsAlign(signal.active, o.active)
    BY <2>2 DEF Card
  <2>5. Adhoc(signal.active, o.active)
    BY <2>2 DEF Card, choose_target
  <2>6. IsFiniteSet(DOMAIN signal.active)
    BY <2>1, SignalActive, SamplesAre DEF Mask
  <2>7. QED BY <2>3, <2>4, <2>5, <2>6, PeerAndAdhoc
<1>2. QED BY <1>1, StagedKept, PTL

-----------------------------------------------------------------------------
(* The jump and the baseline of the primary resource.                      *)

\* Products of numbers, in an order and by a factor.
LEMMA Products ==
  /\ \A x, y \in Int, z \in Nat : x <= y => x * z <= y * z
  /\ \A x, y \in Int, z \in Nat : z # 0 /\ x * z <= y * z => x <= y
  /\ \A x, y, z \in Int : (x * y) * z = (x * z) * y
<1>1. ASSUME NEW x \in Int, NEW y \in Int, NEW z \in Nat, x <= y PROVE x * z <= y * z
  <2>1. (y - x) * z >= 0 /\ (y - x) * z = y * z - x * z
    BY <1>1
  <2>2. QED BY <2>1
<1>2. ASSUME NEW x \in Int, NEW y \in Int, NEW z \in Nat, z # 0, x * z <= y * z PROVE x <= y
  <2> SUFFICES ASSUME x > y PROVE FALSE
    OBVIOUS
  <2>1. (x - y) * z > 0 /\ (x - y) * z = x * z - y * z
    BY <1>2
  <2>2. x * z \in Int /\ y * z \in Int
    OBVIOUS
  <2>3. QED BY <1>2, <2>1, <2>2
<1>3. ASSUME NEW x \in Int, NEW y \in Int, NEW z \in Int PROVE (x * y) * z = (x * z) * y
  OBVIOUS
<1>4. QED BY <1>1, <1>2, <1>3

\* A fraction; with the denominator 0 it is infinity.
Fraction(q) == q.num \in Int /\ q.den \in Nat /\ (q.den = 0 => q.num = 1)

\* The order in which the largest jump is chosen.
NotAbove(p, q) == p.num * q.den <= q.num * p.den

\* It is an order of all fractions.
LEMMA FractionOrder ==
  ASSUME NEW p, NEW q, NEW r, Fraction(p), Fraction(q), Fraction(r)
  PROVE  /\ NotAbove(p, q) \/ NotAbove(q, p)
         /\ NotAbove(p, q) /\ NotAbove(q, r) => NotAbove(p, r)
<1>1. NotAbove(p, q) \/ NotAbove(q, p)
  <2>1. p.num * q.den \in Int /\ q.num * p.den \in Int
    BY DEF Fraction
  <2>2. QED BY <2>1 DEF NotAbove
<1>2. ASSUME NotAbove(p, q), NotAbove(q, r) PROVE NotAbove(p, r)
  <2>1. PICK a \in Int, b \in Nat, c \in Int, d \in Nat, e \in Int, f \in Nat :
          /\ a = p.num /\ b = p.den /\ c = q.num /\ d = q.den /\ e = r.num /\ f = r.den
          /\ (b = 0 => a = 1) /\ (d = 0 => c = 1) /\ (f = 0 => e = 1)
    BY DEF Fraction
  <2>2. a * d <= c * b /\ c * f <= e * d
    BY <1>2, <2>1 DEF NotAbove
  <2>3. a * f <= e * b
    <3>1. CASE d = 0
      <4>1. c = 1 /\ f <= 0
        BY <2>1, <2>2, <3>1
      <4>2. f = 0 /\ e = 1
        BY <2>1, <4>1
      <4>3. QED BY <4>2
    <3>2. CASE d # 0
      <4>1. a * d \in Int /\ c * b \in Int /\ c * f \in Int /\ e * d \in Int
            /\ a * f \in Int /\ e * b \in Int
        OBVIOUS
      <4>2. (a * d) * f <= (c * b) * f
        BY <2>2, <4>1, Products
      <4>3. (c * f) * b <= (e * d) * b
        BY <2>2, <4>1, Products
      <4>4. (a * d) * f = (a * f) * d /\ (c * b) * f = (c * f) * b /\ (e * d) * b = (e * b) * d
        BY Products
      <4>5. (a * f) * d <= (e * b) * d
        <5>1. (a * f) * d \in Int /\ (c * f) * b \in Int /\ (e * b) * d \in Int
          BY <4>1
        <5>2. QED BY <4>2, <4>3, <4>4, <5>1
      <4>6. QED BY <3>2, <4>1, <4>5, Products
    <3>3. QED BY <3>1, <3>2
  <2>4. QED BY <2>1, <2>3 DEF NotAbove
<1>3. QED BY <1>1, <1>2

\* Among finitely many fractions one is the largest.
LEMMA LargestExists ==
  ASSUME NEW K, IsFiniteSet(K), K # {}, NEW j, \A r \in K : Fraction(j[r])
  PROVE  \E r \in K : \A q \in K : NotAbove(j[q], j[r])
<1> DEFINE Largest(T) == \E r \in T : \A q \in T : NotAbove(j[q], j[r])
           Bad == {k \in Nat : \E T \in SUBSET K : T # {} /\ Cardinality(T) = k /\ ~Largest(T)}
<1> SUFFICES ASSUME ~Largest(K) PROVE FALSE
  OBVIOUS
<1>1. Bad # {}
  <2>1. Cardinality(K) \in Bad
    BY FS_CardinalityType
  <2>2. QED BY <2>1
<1>2. PICK m \in Bad : \A k \in Bad : m <= k
  <2>1. Bad \in SUBSET Nat
    OBVIOUS
  <2> HIDE DEF Bad
  <2>2. QED BY <1>1, <2>1, LeastNumber
<1>3. PICK T \in SUBSET K : T # {} /\ Cardinality(T) = m /\ ~Largest(T)
  OBVIOUS
<1>4. PICK e : e \in T
  BY <1>3
<1>5. Fraction(j[e]) /\ NotAbove(j[e], j[e])
  <2>1. Fraction(j[e])
    BY <1>4
  <2>2. QED BY <2>1, FractionOrder
<1>6. CASE T \ {e} = {}
  <2>1. Largest(T)
    BY <1>4, <1>5, <1>6
  <2>2. QED BY <1>3, <2>1
<1>7. CASE T \ {e} # {}
  <2>1. IsFiniteSet(T) /\ IsFiniteSet(T \ {e})
    BY FS_Subset
  <2>2. Cardinality(T \ {e}) = m - 1 /\ Cardinality(T \ {e}) \in Nat
    <3>1. Cardinality(T \ {e}) = m - 1
      BY <1>3, <1>4, <2>1, FS_RemoveElement
    <3>2. QED BY <2>1, <3>1, FS_CardinalityType
  <2>3. Largest(T \ {e})
    <3>1. m - 1 \notin Bad
      BY <1>2
    <3> HIDE DEF Largest
    <3>2. QED BY <1>7, <2>2, <3>1
  <2>4. PICK r \in T \ {e} : \A q \in T \ {e} : NotAbove(j[q], j[r])
    BY <2>3
  <2>5. Fraction(j[r])
    OBVIOUS
  <2>6. CASE NotAbove(j[e], j[r])
    <3>1. Largest(T)
      BY <2>4, <2>6
    <3>2. QED BY <1>3, <3>1
  <2>7. CASE NotAbove(j[r], j[e])
    <3>1. ASSUME NEW q \in T PROVE NotAbove(j[q], j[e])
      <4>1. CASE q = e
        BY <1>5, <4>1
      <4>2. CASE q # e
        <5>1. NotAbove(j[q], j[r]) /\ Fraction(j[q])
          BY <2>4, <4>2
        <5>2. QED BY <1>5, <2>5, <2>7, <5>1, FractionOrder
      <4>3. QED BY <4>1, <4>2
    <3>2. Largest(T)
      BY <1>4, <3>1
    <3>3. QED BY <1>3, <3>2
  <2>8. QED BY <1>5, <2>5, <2>6, <2>7, FractionOrder
<1>8. QED BY <1>6, <1>7

\* The loads of the active and of the idle instants, each times the number of the others.
LEMMA Loads ==
  ASSUME NEW n \in Nat, NEW values \in Seq(Nat), NEW mask \in [1 .. n -> BOOLEAN]
  PROVE  LET A == ActiveSet(mask)
             I == (DOMAIN mask) \ A
         IN  /\ SumOver(values, A) \in Nat /\ SumOver(values, I) \in Nat
             /\ Cardinality(A) \in Nat /\ Cardinality(I) \in Nat
<1>1. DOMAIN mask = 1 .. n /\ IsFiniteSet(1 .. n)
  BY FS_Interval
<1> DEFINE A == ActiveSet(mask)
           I == (DOMAIN mask) \ A
<1>2. IsFiniteSet(A) /\ IsFiniteSet(I)
  BY <1>1, FS_Subset DEF ActiveSet
<1> HIDE DEF A, I
<1>3. QED BY <1>2, SumIs, FS_CardinalityType DEF A, I

\* A jump is a fraction.
LEMMA JumpIs ==
  ASSUME NEW n \in Nat, NEW values \in Seq(Nat), NEW mask \in [1 .. n -> BOOLEAN]
  PROVE  Fraction(Jump(values, mask))
<1> DEFINE A == ActiveSet(mask)
           I == (DOMAIN mask) \ A
           a == SumOver(values, A) * Cardinality(I)
           b == SumOver(values, I) * Cardinality(A)
<1>1. a \in Nat /\ b \in Nat
  <2>1. /\ SumOver(values, A) \in Nat /\ SumOver(values, I) \in Nat
        /\ Cardinality(A) \in Nat /\ Cardinality(I) \in Nat
    BY Loads
  <2> HIDE DEF A, I
  <2>2. QED BY <2>1
<1>2. \/ Jump(values, mask) = [num |-> 0, den |-> 1]
      \/ Jump(values, mask) = [num |-> 1, den |-> 0]
      \/ b # 0 /\ Jump(values, mask) = [num |-> 100 * (a - b), den |-> b]
  BY Zenon DEF Jump
<1> HIDE DEF a, b
<1>3. QED BY <1>1, <1>2 DEF Fraction

\* A baseline that is still a quarter of the peak makes the jump less than 300 percent.
LEMMA BaselineOrJump ==
  ASSUME NEW n \in Nat, NEW values \in Seq(Nat), NEW mask \in [1 .. n -> BOOLEAN],
         Baseline(values, mask)
  PROVE  ~AtLeast(Jump(values, mask), 300)
<1> DEFINE A == ActiveSet(mask)
           I == (DOMAIN mask) \ A
           a == SumOver(values, A) * Cardinality(I)
           b == SumOver(values, I) * Cardinality(A)
<1>1. /\ SumOver(values, A) \in Nat /\ SumOver(values, I) \in Nat
      /\ Cardinality(A) \in Nat /\ Cardinality(I) \in Nat
  BY Loads
<1>2. /\ A # {} /\ I # {}
      /\ 100 * SumOver(values, I) * Cardinality(A) > 25 * SumOver(values, A) * Cardinality(I)
  BY DEF Baseline, residual_baseline_max
<1>3. a \in Nat /\ b \in Nat /\ 100 * b > 25 * a
  <2> HIDE DEF A, I
  <2>1. PICK x \in Nat, y \in Nat, k \in Nat, l \in Nat :
          /\ x = SumOver(values, A) /\ y = SumOver(values, I)
          /\ k = Cardinality(A) /\ l = Cardinality(I)
    BY <1>1
  <2>2. 100 * y * k > 25 * x * l
    BY <1>2, <2>1
  <2>3. 100 * y * k = 100 * (y * k) /\ 25 * x * l = 25 * (x * l) /\ x * l \in Nat /\ y * k \in Nat
    OBVIOUS
  <2>4. QED BY <2>1, <2>2, <2>3
<1>4. b # 0
  BY <1>3
<1>5. Jump(values, mask) = [num |-> 100 * (a - b), den |-> b]
  BY <1>2, <1>4, Zenon DEF Jump
<1> HIDE DEF a, b
<1>6. QED BY <1>3, <1>5 DEF AtLeast

\* The resource of which the card shows the jump is one that was kept.
LEMMA PrimaryIs ==
  ASSUME NEW s, IsFiniteSet(s.kept), s.kept # {}, NEW j, \A r \in s.kept : Fraction(j[r])
  PROVE  Primary(s, j) \in s.kept
<1>1. CASE cpu \in s.kept
  BY <1>1 DEF Primary
<1>2. CASE cpu \notin s.kept
  <2>1. \E r \in s.kept : \A q \in s.kept : j[q].num * j[r].den <= j[r].num * j[q].den
    BY LargestExists DEF NotAbove
  <2>2. QED BY <1>2, <2>1, Zenon DEF Primary
<1>3. QED BY <1>1, <1>2

\* A card that shows a jump of 300 percent never calls for KEDA because of a residual
\* baseline: the two stages judge the same peak.
THEOREM TierOfJump == Spec => []TierFitsJump
<1>1. ASSUME Staged PROVE TierFitsJump
  <2> SUFFICES ASSUME card # None, card.target = "KEDA" PROVE ~AtLeast(card.jump, 300)
    BY DEF TierFitsJump
  <2>1. signal # None /\ signal = Signal(input, cfg) /\ Observed
    BY <1>1 DEF Staged
  <2>2. PICK o : card = Card(signal, o)
    BY <1>1 DEF Staged
  <2>3. PICK kept \in (SUBSET Seasonal(input, cfg)) \ {{}} :
          signal = [period |-> Consensus(input, cfg), kept |-> kept,
                    masks |-> Masks(input, cfg, kept),
                    active |-> Union(Masks(input, cfg, kept))]
    BY <2>1, SignalIs
  <2>4. kept \in SUBSET Resources /\ kept # {} /\ IsFiniteSet(kept)
    BY <2>3, SignalAssumption, FS_Subset DEF Seasonal, Periodic
  <2>5. signal.kept = kept /\ signal.masks \in [kept -> Mask]
    BY <2>1, <2>3, <2>4, MasksAre
  <2> DEFINE jumps == [r \in signal.kept |-> Jump(input.values[r], signal.masks[r])]
             p == Primary(signal, jumps)
  <2>6. ASSUME NEW r \in kept
        PROVE  /\ input.values[r] \in Seq(Nat) /\ signal.masks[r] \in [1 .. Length -> BOOLEAN]
               /\ Length \in Nat
    BY <2>1, <2>4, <2>5, SamplesAre DEF Mask, Instants
  <2>7. ASSUME NEW r \in kept PROVE Fraction(jumps[r])
    <3>1. Fraction(Jump(input.values[r], signal.masks[r]))
      BY <2>6, JumpIs
    <3>2. QED BY <2>5, <3>1
  <2>8. p \in kept
    <3> HIDE DEF jumps
    <3>1. QED BY <2>4, <2>5, <2>7, PrimaryIs
  <2>9. Baseline(input.values[p], signal.masks[p])
    BY <2>2 DEF Card, choose_target
  <2>10. card.jump = Jump(input.values[p], signal.masks[p])
    <3>1. card.jump = jumps[p]
      BY <2>2 DEF Card
    <3> HIDE DEF p
    <3>2. QED BY <2>5, <2>8, <3>1
  <2> HIDE DEF p
  <2>11. PICK v, m : v = input.values[p] /\ m = signal.masks[p]
    OBVIOUS
  <2>12. v \in Seq(Nat) /\ m \in [1 .. Length -> BOOLEAN] /\ Length \in Nat /\ Baseline(v, m)
    BY <2>6, <2>8, <2>9, <2>11
  <2>13. ~AtLeast(Jump(v, m), 300)
    BY <2>12, BaselineOrJump
  <2>14. QED BY <2>10, <2>11, <2>13
<1>2. QED BY <1>1, StagedKept, PTL

-----------------------------------------------------------------------------
(* Instants above the band, in a series that repeats itself.               *)

\* Of a set that repeats itself, every period has as many instants as the first.
LEMMA PeriodCount ==
  ASSUME NEW n \in Nat, NEW p \in Nat \ {0}, p <= n, NEW H \in SUBSET (1 .. n),
         \A j \in 1 .. n - p : j \in H <=> j + p \in H
  PROVE  \A a \in 0 .. n - p : Cardinality(H \cap ((a + 1) .. (a + p))) = Cardinality(H \cap (1 .. p))
<1> DEFINE w(a) == H \cap ((a + 1) .. (a + p))
           Bad == {a \in 0 .. n - p : Cardinality(w(a)) # Cardinality(w(0))}
<1>1. Bad = {}
  <2> SUFFICES ASSUME Bad # {} PROVE FALSE
    OBVIOUS
  <2>1. PICK m \in Bad : \A a \in Bad : m <= a
    <3>1. Bad \in SUBSET Nat
      OBVIOUS
    <3> HIDE DEF Bad
    <3>2. QED BY <3>1, LeastNumber
  <2>2. m \in 0 .. n - p /\ m # 0
    OBVIOUS
  <2>3. m - 1 \in 0 .. n - p /\ m - 1 \notin Bad
    <3>1. m - 1 \in 0 .. n - p /\ ~(m <= m - 1)
      BY <2>2
    <3> HIDE DEF Bad
    <3>2. QED BY <2>1, <3>1
  <2>4. Cardinality(w(m - 1)) = Cardinality(w(0))
    BY <2>3
  <2> DEFINE X == H \cap ((m + 1) .. (m + p - 1))
  <2>5. IsFiniteSet(X) /\ m \notin X /\ m + p \notin X
    <3>1. IsFiniteSet((m + 1) .. (m + p - 1))
      BY <2>2, FS_Interval
    <3>2. IsFiniteSet(X)
      BY <3>1, FS_Subset
    <3>3. QED BY <2>2, <3>2
  <2>6. m \in H <=> m + p \in H
    BY <2>2
  <2>7. CASE m \in H
    <3>1. w(m - 1) = X \cup {m} /\ w(m) = X \cup {m + p}
      BY <2>2, <2>6, <2>7
    <3> HIDE DEF X, w
    <3>2. Cardinality(w(m - 1)) = Cardinality(w(m))
      <4>1. Cardinality(X \cup {m}) = Cardinality(X) + 1
        BY <2>5, FS_AddElement
      <4>2. PICK e : e = m + p
        OBVIOUS
      <4>3. Cardinality(X \cup {e}) = Cardinality(X) + 1
        BY <2>5, <4>2, FS_AddElement
      <4>4. QED BY <3>1, <4>1, <4>2, <4>3
    <3>3. Cardinality(w(m)) # Cardinality(w(0))
      OBVIOUS
    <3>4. QED BY <2>4, <3>2, <3>3
  <2>8. CASE m \notin H
    <3>1. w(m - 1) = X /\ w(m) = X
      BY <2>2, <2>6, <2>8
    <3> HIDE DEF X, w
    <3>2. Cardinality(w(m)) # Cardinality(w(0))
      OBVIOUS
    <3>3. QED BY <2>4, <3>1, <3>2
  <2>9. QED BY <2>7, <2>8
<1>2. w(0) = H \cap (1 .. p)
  OBVIOUS
<1>3. QED BY <1>1, <1>2

\* An interval of at most one period has no more of them.
LEMMA ShortCount ==
  ASSUME NEW n \in Nat, NEW p \in Nat \ {0}, p <= n, NEW H \in SUBSET (1 .. n),
         \A j \in 1 .. n - p : j \in H <=> j + p \in H,
         NEW a \in 1 .. n, NEW b \in Int, b <= n, b < a + p
  PROVE  /\ IsFiniteSet(H \cap (a .. b))
         /\ Cardinality(H \cap (a .. b)) <= Cardinality(H \cap (1 .. p))
         /\ Cardinality(H \cap (1 .. p)) \in Nat
<1>1. PICK d \in 0 .. n - p : a .. b \subseteq (d + 1) .. (d + p)
  <2>1. CASE a + p <= n + 1
    <3>1. a - 1 \in 0 .. n - p /\ a .. b \subseteq ((a - 1) + 1) .. ((a - 1) + p)
      BY <2>1
    <3>2. QED BY <3>1
  <2>2. CASE ~(a + p <= n + 1)
    <3>1. n - p \in 0 .. n - p /\ a .. b \subseteq ((n - p) + 1) .. ((n - p) + p)
      BY <2>2
    <3>2. QED BY <3>1
  <2>3. QED BY <2>1, <2>2
<1>2. Cardinality(H \cap ((d + 1) .. (d + p))) = Cardinality(H \cap (1 .. p))
  <2>1. \A i \in 0 .. n - p :
          Cardinality(H \cap ((i + 1) .. (i + p))) = Cardinality(H \cap (1 .. p))
    BY PeriodCount
  <2>2. QED BY <2>1
<1>3. IsFiniteSet((d + 1) .. (d + p)) /\ IsFiniteSet(1 .. p)
  BY FS_Interval
<1>4. IsFiniteSet(H \cap ((d + 1) .. (d + p))) /\ IsFiniteSet(H \cap (1 .. p))
  BY <1>3, FS_Subset
<1>5. H \cap (a .. b) \in SUBSET (H \cap ((d + 1) .. (d + p)))
  BY <1>1
<1>6. QED BY <1>2, <1>4, <1>5, FS_Subset, FS_CardinalityType

\* However a window of one to two periods is cut, fewer than half of its instants are among
\* them when fewer than a third of a period are.
LEMMA FewInWindow ==
  ASSUME NEW n \in Nat, NEW p \in Nat \ {0}, p <= n, NEW H \in SUBSET (1 .. n),
         \A j \in 1 .. n - p : j \in H <=> j + p \in H,
         3 * Cardinality(H \cap (1 .. p)) < p,
         NEW a \in 1 .. n, NEW b \in 1 .. n, a + p <= b + 1, b < a + 2 * p
  PROVE  2 * Cardinality((a .. b) \ H) > b - a + 1
<1> DEFINE c == Cardinality(H \cap (1 .. p))
           X == H \cap (a .. (a + p - 1))
           Y == H \cap ((a + p) .. b)
           W == a .. b
<1>1. IsFiniteSet(X) /\ Cardinality(X) <= c /\ c \in Nat
  <2>1. a + p - 1 \in Int /\ a + p - 1 <= n /\ a + p - 1 < a + p
    OBVIOUS
  <2>2. QED BY <2>1, ShortCount
<1>2. IsFiniteSet(Y) /\ Cardinality(Y) <= c /\ Cardinality(Y) <= b - a - p + 1
  <2>1. CASE a + p <= b
    <3>1. a + p \in 1 .. n /\ b < (a + p) + p /\ b \in Int /\ b <= n
      BY <2>1
    <3>2. IsFiniteSet(Y) /\ Cardinality(Y) <= c
      BY <3>1, ShortCount
    <3>3. IsFiniteSet((a + p) .. b) /\ Cardinality((a + p) .. b) = b - a - p + 1
      <4>1. PICK d \in Int : d = a + p /\ ~(d > b)
        BY <2>1
      <4>2. b \in Int
        OBVIOUS
      <4>3. IsFiniteSet(d .. b) /\ Cardinality(d .. b) = IF d > b THEN 0 ELSE b - d + 1
        BY <4>2, FS_Interval, Zenon
      <4>4. QED BY <4>1, <4>3
    <3>4. Y \in SUBSET ((a + p) .. b)
      OBVIOUS
    <3>5. Cardinality(Y) <= Cardinality((a + p) .. b)
      <4> HIDE DEF Y
      <4>1. QED BY <3>3, <3>4, FS_Subset
    <3> HIDE DEF Y, c
    <3>6. QED BY <3>2, <3>3, <3>5
  <2>2. CASE ~(a + p <= b)
    <3>1. Y = {}
      BY <2>2
    <3> HIDE DEF Y, c
    <3>2. IsFiniteSet(Y) /\ Cardinality(Y) = 0
      BY <3>1, FS_EmptySet
    <3>3. QED BY <1>1, <3>2
  <2>3. QED BY <2>1, <2>2
<1>3. IsFiniteSet(W) /\ Cardinality(W) = b - a + 1
  <2>1. a \in Int /\ b \in Int /\ ~(a > b)
    OBVIOUS
  <2>2. QED BY <2>1, FS_Interval
<1>4. W \cap H = X \cup Y
  OBVIOUS
<1>5. Cardinality(X \cup Y) <= Cardinality(X) + Cardinality(Y)
  <2> HIDE DEF X, Y
  <2>1. IsFiniteSet(X \cap Y)
    BY <1>1, FS_Subset
  <2>2. Cardinality(X \cap Y) \in Nat /\ Cardinality(X) \in Nat /\ Cardinality(Y) \in Nat
    BY <1>1, <1>2, <2>1, FS_CardinalityType
  <2>3. Cardinality(X \cup Y) = Cardinality(X) + Cardinality(Y) - Cardinality(X \cap Y)
    BY <1>1, <1>2, FS_Union
  <2>4. QED BY <2>2, <2>3
<1>6. Cardinality(W \ H) = Cardinality(W) - Cardinality(X \cup Y)
  <2> HIDE DEF W, X, Y
  <2>1. Cardinality(W \ H) = Cardinality(W) - Cardinality(W \cap H)
    BY <1>3, FS_Difference
  <2>2. QED BY <1>4, <2>1
<1>7. Cardinality(X) \in Nat /\ Cardinality(Y) \in Nat /\ Cardinality(X \cup Y) \in Nat
  <2> HIDE DEF X, Y
  <2>1. IsFiniteSet(X \cup Y)
    BY <1>1, <1>2, FS_Union
  <2>2. QED BY <1>1, <1>2, <2>1, FS_CardinalityType
<1>8. 3 * c < p
  OBVIOUS
<1> HIDE DEF c, X, Y, W
<1>9. 2 * Cardinality(W \ H) > b - a + 1
  <2>1. PICK k : k = Cardinality(W \ H)
    OBVIOUS
  <2>2. k = b - a + 1 - Cardinality(X \cup Y)
    BY <1>3, <1>6, <1>7, <2>1
  <2>3. 2 * k > b - a + 1
    BY <1>1, <1>2, <1>5, <1>7, <1>8, <2>2
  <2>4. QED BY <2>1, <2>3
<1>10. QED BY <1>9 DEF W

\* The window of two periods around an instant has at least one of them, and all of it.
LEMMA AroundPeriod ==
  ASSUME NEW n \in Nat, NEW p \in Nat \ {0}, 2 * p <= n, NEW i \in 1 .. n
  PROVE  \E a, b \in 1 .. n : /\ Around(i, n, 2 * p) = a .. b
                              /\ a + p <= b + 1 /\ b < a + 2 * p
<1>1. (2 * p - 1) \div 2 = p - 1
  OBVIOUS
<1>2. Around(i, n, 2 * p) = {j \in 1 .. n : j <= i + p - 1 /\ j > i - p - 1}
  BY <1>1 DEF Around
<1> DEFINE a == IF i <= p THEN 1 ELSE i - p
           b == IF i + p - 1 <= n THEN i + p - 1 ELSE n
<1>3. a \in 1 .. n /\ b \in 1 .. n
  OBVIOUS
<1>4. a + p <= b + 1 /\ b < a + 2 * p
  OBVIOUS
<1>5. {j \in 1 .. n : j <= i + p - 1 /\ j > i - p - 1} = a .. b
  OBVIOUS
<1> HIDE DEF a, b
<1>6. QED BY <1>2, <1>3, <1>4, <1>5

\* x is above the band around y.
Above(x, y, band) == 100 * x > (100 + band) * y

\* A sample that is above the band around more than half of the values of a window is above
\* the band around their median.
LEMMA AboveMedian ==
  ASSUME NEW W, IsFiniteSet(W), W # {}, NEW v, \A j \in W : v[j] \in Nat,
         NEW x \in Nat, NEW band \in Nat,
         2 * Cardinality({j \in W : Above(x, v[j], band)}) > Cardinality(W)
  PROVE  200 * x > (100 + band) * TwiceMedian(v, W)
<1> DEFINE N == {j \in W : Above(x, v[j], band)}
<1>0. /\ N \in SUBSET W /\ \A j \in N : 100 * x > (100 + band) * v[j]
      /\ 2 * Cardinality(N) > Cardinality(W)
  BY DEF Above
<1> HIDE DEF N
<1> DEFINE m == Cardinality(W)
<1>1. m \in Nat \ {0} /\ IsFiniteSet(N) /\ Cardinality(N) \in Nat
  BY <1>0, FS_CardinalityType, FS_EmptySet, FS_Subset
<1>2. ASSUME NEW k \in 1 .. m, k <= m \div 2 + 1
      PROVE  Ranked(v, W, k) \in Nat /\ 100 * x > (100 + band) * Ranked(v, W, k)
  <2>1. PICK y : y = Ranked(v, W, k)
    OBVIOUS
  <2>2. y \in Nat /\ Cardinality({j \in W : v[j] < y}) < k
    BY <2>1, RankedIs
  <2>3. ASSUME ~(100 * x > (100 + band) * y) PROVE FALSE
    <3>1. (100 + band) * y \in Nat /\ 100 * x <= (100 + band) * y
      BY <2>2, <2>3
    <3>2. ASSUME NEW j \in N PROVE v[j] < y
      <4>1. v[j] \in Nat /\ 100 * x > (100 + band) * v[j]
        BY <1>0
      <4>2. ASSUME y <= v[j] PROVE FALSE
        <5>1. y * (100 + band) <= v[j] * (100 + band) /\ 100 + band \in Nat
          BY <2>2, <4>1, <4>2, Products
        <5>2. y * (100 + band) = (100 + band) * y /\ v[j] * (100 + band) = (100 + band) * v[j]
              /\ (100 + band) * v[j] \in Nat
          BY <2>2, <4>1
        <5>3. QED BY <3>1, <4>1, <5>1, <5>2
      <4>3. QED BY <2>2, <4>1, <4>2
    <3>3. N \in SUBSET {j \in W : v[j] < y} /\ IsFiniteSet({j \in W : v[j] < y})
      BY <1>0, <3>2, FS_Subset
    <3>4. Cardinality(N) <= Cardinality({j \in W : v[j] < y})
          /\ Cardinality({j \in W : v[j] < y}) \in Nat
      BY <3>3, FS_Subset, FS_CardinalityType
    <3>5. m \div 2 + 1 <= Cardinality(N)
      BY <1>0, <1>1
    <3> HIDE DEF m
    <3>6. QED BY <1>1, <1>2, <2>2, <3>4, <3>5
  <2>4. (100 + band) * y \in Nat
    BY <2>2
  <2>5. QED BY <2>1, <2>2, <2>3
<1>3. /\ (m + 1) \div 2 \in 1 .. m /\ (m + 1) \div 2 <= m \div 2 + 1
      /\ m \div 2 + 1 \in 1 .. m
  <2>1. m \div 2 + 1 \in 1 .. m \/ m = 1
    BY <1>1
  <2>2. QED BY <1>1, <2>1
<1>4. PICK y \in Nat, z \in Nat :
        /\ TwiceMedian(v, W) = y + z
        /\ 100 * x > (100 + band) * y /\ 100 * x > (100 + band) * z
  <2>1. /\ Ranked(v, W, (m + 1) \div 2) \in Nat
        /\ 100 * x > (100 + band) * Ranked(v, W, (m + 1) \div 2)
    BY <1>2, <1>3
  <2>2. /\ Ranked(v, W, m \div 2 + 1) \in Nat
        /\ 100 * x > (100 + band) * Ranked(v, W, m \div 2 + 1)
    BY <1>2, <1>3
  <2>3. QED BY <2>1, <2>2 DEF TwiceMedian
<1>5. (100 + band) * (y + z) = (100 + band) * y + (100 + band) * z
      /\ (100 + band) * y \in Nat /\ (100 + band) * z \in Nat
  OBVIOUS
<1>6. QED BY <1>4, <1>5

\* The instants of the first period that x is not above the band around.
High(v, x, p, band) == {j \in 1 .. p : 100 * x <= (100 + band) * v[j]}

\* The instants at which a sample is above the band around all but a third of its period
\* are classified as active.
LEMMA BusyClassified ==
  ASSUME NEW n \in Nat, NEW v \in [1 .. n -> Nat], NEW p \in Nat \ {0}, 2 * p <= n,
         NEW band \in Nat, \A j \in 1 .. n - p : v[j] = v[j + p], NEW i \in 1 .. n,
         3 * Cardinality(High(v, v[i], p, band)) < p
  PROVE  Classify(v, 2 * p, band)[i]
<1> DEFINE H == {j \in 1 .. n : 100 * v[i] <= (100 + band) * v[j]}
<1>0. \A j \in 1 .. n : v[j] \in Nat
  OBVIOUS
<1>1. High(v, v[i], p, band) = H \cap (1 .. p)
  BY DEF High
<1>2. p <= n /\ H \in SUBSET (1 .. n)
  OBVIOUS
<1>3. \A j \in 1 .. n - p : j \in H <=> j + p \in H
  <2> TAKE j \in 1 .. n - p
  <2>1. j \in 1 .. n /\ j + p \in 1 .. n /\ v[j] = v[j + p]
    OBVIOUS
  <2>2. QED BY <2>1
<1>4. 3 * Cardinality(H \cap (1 .. p)) < p
  BY <1>1
<1>5. i \in H
  <2>1. PICK x \in Nat : x = v[i]
    OBVIOUS
  <2>2. (100 + band) * x = 100 * x + band * x /\ band * x \in Nat /\ 100 * x \in Nat
    OBVIOUS
  <2>3. 100 * x <= (100 + band) * x
    BY <2>2
  <2>4. QED BY <2>1, <2>3
<1>6. p > 3
  <2> HIDE DEF H
  <2>1. IsFiniteSet(H \cap (1 .. p)) /\ Cardinality(H \cap (i .. i)) <= Cardinality(H \cap (1 .. p))
        /\ Cardinality(H \cap (1 .. p)) \in Nat
    <3>1. i \in Int /\ i <= n /\ i < i + p
      OBVIOUS
    <3>2. IsFiniteSet(1 .. p)
      BY FS_Interval
    <3>3. QED BY <1>2, <1>3, <3>1, <3>2, ShortCount, FS_Subset
  <2>2. H \cap (i .. i) = {i}
    BY <1>5
  <2>3. Cardinality({i}) = 1
    BY FS_Singleton
  <2>4. PICK c \in Nat : c = Cardinality(H \cap (1 .. p))
    BY <2>1
  <2>5. 1 <= c /\ 3 * c < p
    BY <1>4, <2>1, <2>2, <2>3, <2>4
  <2>6. QED BY <2>5
<1>7. PICK a \in 1 .. n, b \in 1 .. n :
        Around(i, n, 2 * p) = a .. b /\ a + p <= b + 1 /\ b < a + 2 * p
  BY AroundPeriod
<1> DEFINE W == a .. b
<1>8. IsFiniteSet(W) /\ Cardinality(W) = b - a + 1 /\ W # {} /\ W \subseteq 1 .. n
  <2>1. a \in Int /\ b \in Int /\ ~(a > b)
    BY <1>7
  <2>2. a \in W /\ \A j \in W : j \in 1 .. n
    BY <2>1
  <2>3. IsFiniteSet(W) /\ Cardinality(W) = b - a + 1
    BY <2>1, FS_Interval
  <2> HIDE DEF W
  <2>4. QED BY <2>2, <2>3
<1>9. 2 * Cardinality(W \ H) > b - a + 1
  <2> HIDE DEF H
  <2>1. QED BY <1>2, <1>3, <1>4, <1>7, FewInWindow
<1>10. 200 * v[i] > (100 + band) * TwiceMedian(v, W)
  <2>1. \A j \in W : Above(v[i], v[j], band) <=> j \notin H
    <3> TAKE j \in W
    <3>1. PICK x \in Nat, y \in Nat : x = v[i] /\ y = v[j] /\ j \in 1 .. n
      BY <1>0, <1>8
    <3>2. PICK z \in Nat, w \in Nat : z = (100 + band) * y /\ w = 100 * x
      OBVIOUS
    <3>3. Above(x, y, band) <=> w > z
      BY <3>2 DEF Above
    <3>4. j \in H <=> w <= z
      BY <3>1, <3>2
    <3> HIDE DEF H
    <3>5. w > z <=> ~(w <= z)
      BY <3>2
    <3>6. QED BY <3>1, <3>3, <3>4, <3>5, Zenon
  <2>2. \A j \in W : v[j] \in Nat
    BY <1>0, <1>8
  <2> HIDE DEF W, H
  <2>3. {j \in W : Above(v[i], v[j], band)} = W \ H
    BY <2>1
  <2>4. PICK x \in Nat : x = v[i]
    BY <1>0
  <2>5. 2 * Cardinality({j \in W : Above(x, v[j], band)}) > Cardinality(W)
    BY <1>8, <1>9, <2>3, <2>4
  <2>6. 200 * x > (100 + band) * TwiceMedian(v, W)
    BY <1>8, <2>2, <2>5, AboveMedian
  <2>7. QED BY <2>4, <2>6
<1>11. Len(v) = n /\ DOMAIN v = 1 .. n /\ 2 * p > 3
  BY <1>6, OnInstants
<1>12. Classify(v, 2 * p, band) =
         [j \in 1 .. n |-> 200 * v[j] > (100 + band) * TwiceMedian(v, Around(j, n, 2 * p))]
  BY <1>11 DEF Classify
<1>13. QED BY <1>7, <1>10, <1>12

\* However short the series: where a workload repeats itself and a sample is above the band
\* around more than two thirds of its period, the timeline marks it active.
THEOREM BusyMarked == Spec => []BusyIsMarked
<1>1. ASSUME Staged PROVE BusyIsMarked
  <2> SUFFICES ASSUME timeline # None, NEW r \in timeline.kept,
                      timeline.period = 2 * input.found[r],
                      \A i \in 1 .. Length - input.found[r] :
                        input.values[r][i] = input.values[r][i + input.found[r]],
                      NEW i \in Instants,
                      3 * Cardinality({j \in 1 .. input.found[r] :
                            100 * input.values[r][i] <= (100 + cfg.band) * input.values[r][j]})
                        < input.found[r]
               PROVE  timeline.active[i]
    BY DEF BusyIsMarked
  <2>1. /\ Observed /\ timeline = Timeline(input, cfg)
        /\ Timeline(input, cfg) = [period |-> Consensus(input, cfg), kept |-> Seasonal(input, cfg),
                                   active |-> Union(Masks(input, cfg, Seasonal(input, cfg)))]
    BY <1>1, TimelineIs DEF Staged
  <2>2. r \in Seasonal(input, cfg) /\ r \in Resources /\ input.found[r] > 0
    BY <2>1 DEF Seasonal, Periodic
  <2>3. PICK v, p, band, n :
          v = input.values[r] /\ p = input.found[r] /\ band = cfg.band /\ n = Length
    OBVIOUS
  <2>4. /\ n \in Nat /\ v \in [1 .. n -> Nat] /\ p \in Nat \ {0} /\ 2 * p <= n /\ band \in Nat
        /\ i \in 1 .. n
    BY <2>1, <2>2, <2>3, SamplesAre DEF Instants, Thresholds
  <2>5. Consensus(input, cfg) = 2 * p
    BY <2>1, <2>3
  <2>6. /\ \A j \in 1 .. n - p : v[j] = v[j + p]
        /\ 3 * Cardinality(High(v, v[i], p, band)) < p
    BY <2>3 DEF High
  <2>7. Classify(v, 2 * p, band)[i]
    BY <2>4, <2>6, BusyClassified
  <2>8. Masks(input, cfg, Seasonal(input, cfg))[r] = Classify(v, 2 * p, band)
    BY <2>2, <2>3, <2>5 DEF Masks
  <2>9. Union(Masks(input, cfg, Seasonal(input, cfg)))[i]
    BY <2>2, <2>7, <2>8 DEF Union, Masks
  <2>10. QED BY <2>1, <2>9
<1>2. QED BY <1>1, StagedKept, PTL
=============================================================================
