---------------------- MODULE MaintenanceWindow_proofs ----------------------
(***************************************************************************)
(* For every sample step, duration, deadline, set of workloads and         *)
(* observed timelines: an accepted request has room for its window and its *)
(* templates unless resample_freq is not understood, and a window whose    *)
(* samples were read right overruns the deadline by at most one and a half *)
(* of them; the chosen window is the first of the smallest count, its      *)
(* score is what the impacts add up to, what the result says of it in its  *)
(* four places agrees, and an instant projects the sample it repeats if    *)
(* the period went to hours and back unchanged.                            *)
(***************************************************************************)
EXTENDS MaintenanceWindow, Folds, FiniteSetTheorems, SequenceTheorems, WellFoundedInduction, TLAPS

\* Division with remainder on the naturals.
LEMMA DivMod ==
  ASSUME NEW a \in Nat, NEW b \in Nat \ {0}
  PROVE  /\ a \div b \in Nat /\ a % b \in 0 .. b - 1
         /\ a = b * (a \div b) + (a % b)
OBVIOUS

\* The quotient grows with the dividend.
LEMMA DivMonotone ==
  ASSUME NEW a \in Nat, NEW c \in Nat, a <= c, NEW b \in Nat \ {0}
  PROVE  a \div b <= c \div b
<1> DEFINE q == a \div b  r == c \div b
<1>1. /\ q \in Nat /\ r \in Nat /\ a % b \in 0 .. b - 1 /\ c % b \in 0 .. b - 1
      /\ a = b * q + (a % b) /\ c = b * r + (c % b)
  BY DivMod
<1> HIDE DEF q, r
<1>2. SUFFICES ASSUME q >= r + 1 PROVE FALSE
  BY <1>1 DEF q, r
<1>3. b * q >= b * (r + 1) /\ b * (r + 1) = b * r + b
  BY <1>1, <1>2
<1>4. QED BY <1>1, <1>3

\* The quotient falls with the divisor.
LEMMA DivAntitone ==
  ASSUME NEW a \in Nat, NEW b \in Nat \ {0}, NEW c \in Nat \ {0}, b <= c
  PROVE  a \div c <= a \div b
<1> DEFINE q == a \div b  r == a \div c
<1>1. /\ q \in Nat /\ r \in Nat /\ a % b \in 0 .. b - 1 /\ a % c \in 0 .. c - 1
      /\ a = b * q + (a % b) /\ a = c * r + (a % c)
  BY DivMod
<1> HIDE DEF q, r
<1>2. SUFFICES ASSUME r >= q + 1 PROVE FALSE
  BY <1>1 DEF q, r
<1>3. c * r >= b * r
  BY <1>1
<1>4. b * r >= b * (q + 1) /\ b * (q + 1) = b * q + b
  BY <1>1, <1>2
<1>5. /\ c * r \in Nat /\ b * r \in Nat /\ b * q \in Nat
  BY <1>1
<1>6. QED BY <1>1, <1>3, <1>4, <1>5

\* window_samples is a rounding of the duration: at least one, at most one more
\* than the whole samples of the duration, and at most half a sample short.
LEMMA WindowRounds ==
  ASSUME NEW d \in Nat, NEW s \in Nat \ {0}
  PROVE  /\ WindowSamples(d, s) \in Nat /\ WindowSamples(d, s) >= 1
         /\ WindowSamples(d, s) <= d \div s + 1
         /\ 2 * (s * WindowSamples(d, s)) >= 2 * d - s
<1> DEFINE q == d \div s  m == d % s  w == WindowSamples(d, s)
<1>1. q \in Nat /\ m \in 0 .. s - 1 /\ d = s * q + m
  BY DivMod
<1>2. RoundDiv(d, s) \in {q, q + 1} /\ (RoundDiv(d, s) = q => 2 * m <= s)
  BY <1>1 DEF RoundDiv
<1>3. w \in Nat /\ w >= 1 /\ w <= q + 1 /\ w >= q /\ (w = q => 2 * m <= s)
  BY <1>1, <1>2 DEF WindowSamples
<1> HIDE DEF q, m, w
<1>4. 2 * (s * w) >= 2 * d - s
  <2>1. CASE w = q
    BY <2>1, <1>1, <1>3
  <2>2. CASE w = q + 1
    <3>1. s * w = s * q + s
      BY <2>2, <1>1
    <3>2. s * q \in Nat /\ s * w \in Nat
      BY <1>1, <1>3
    <3>3. QED BY <1>1, <3>1, <3>2
  <2>3. QED BY <1>1, <1>3, <2>1, <2>2
<1>5. QED BY <1>3, <1>4 DEF q, w

\* A template whose samples are not taken for longer than they are fits into the mask it
\* is the end of: a period is at most half of it.
LEMMA TemplateFits ==
  ASSUME NEW o \in Observed, step \in Nat \ {0}, hps \in Nat \ {0}, hps <= step
  PROVE  ~ TooShort(o)
<1> SUFFICES ASSUME HasTemplate(o) PROVE TemplateLength(o) <= Len(o.mask)
  <2>1. /\ o.mask \in Seq(BOOLEAN) /\ o.period \in Nat
    BY WindowAssumption DEF Timeline
  <2>2. Len(o.mask) \in Nat /\ TemplateLength(o) \in Int
    BY <2>1 DEF TemplateLength, RoundDiv
  <2>3. QED BY <2>2 DEF TooShort
<1>1. PICK p, n : p = o.period /\ n = Len(o.mask)
  OBVIOUS
<1>2. p \in Nat /\ n \in Nat /\ p > 0 /\ n > 1 /\ p <= n
  BY <1>1, WindowAssumption DEF Timeline, HasTemplate
<1> DEFINE a == p * hps  b == 2 * step  q == a \div b
<1>3. a \in Nat /\ b \in Nat \ {0}
  BY <1>2
<1>4. q \in Nat /\ a % b \in 0 .. b - 1 /\ a = b * q + (a % b)
  BY <1>3, DivMod
<1>5. RoundDiv(a, b) \in {q, q + 1}
  BY DEF RoundDiv
<1>6. a <= p * step
  BY <1>2
<1>7. 2 * q <= p
  <2>1. SUFFICES ASSUME 2 * q >= p + 1 PROVE FALSE
    BY <1>2, <1>4
  <2>2. step * (2 * q) >= step * (p + 1)
    <3> HIDE DEF q
    <3>1. 2 * q \in Nat /\ p + 1 \in Nat
      BY <1>2, <1>4
    <3>2. QED BY <2>1, <3>1
  <2>3. step * (p + 1) = p * step + step /\ step * (2 * q) = b * q
    <3> HIDE DEF q
    <3>1. QED BY <1>2, <1>4
  <2> HIDE DEF a, q, b
  <2>4. b * q \in Nat /\ p * step \in Nat /\ a % b \in Nat
    BY <1>2, <1>3, <1>4
  <2>5. QED BY <1>3, <1>4, <1>6, <2>2, <2>3, <2>4
<1> HIDE DEF q
<1>8. q + 1 <= n
  BY <1>2, <1>4, <1>7
<1>9. TemplateLength(o) = IF RoundDiv(a, b) > 1 THEN RoundDiv(a, b) ELSE 1
  BY <1>1 DEF TemplateLength
<1>10. TemplateLength(o) \in {q, q + 1, 1}
  BY <1>5, <1>9
<1>11. TemplateLength(o) <= n
  BY <1>2, <1>4, <1>8, <1>10
<1>12. QED BY <1>1, <1>11

-----------------------------------------------------------------------------
\* What the stages have established when they are past.
Inv ==
  /\ pc \in {"request", "index", "forecast", "score", "done", "rejected", "failed"}
  /\ step \in Nat \ {0} /\ width \in Nat \ {0} /\ duration \in Nat /\ deadline \in Nat
  /\ hps \in {step, width} /\ hps \in Nat \ {0} /\ observed \in [Apps -> Observed]
  /\ pc = "failed" => width < step \/ hps > step
  /\ pc \in {"index", "forecast", "score", "done"} =>
       /\ deadline > duration
       /\ samples = deadline \div step + 1
       /\ window = WindowSamples(duration, width)
  /\ pc \in {"score", "done"} => pick.start \in 0 .. samples - window
  /\ pc = "done" => result.end = pick.start * step + duration

LEMMA Invariance == Spec => []Inv
<1> USE WindowAssumption
<1>1. Init => Inv
  BY DEF Init, Inv
<1>2. Inv /\ [Next]_vars => Inv'
  <2> SUFFICES ASSUME Inv, [Next]_vars PROVE Inv'
    OBVIOUS
  <2> USE DEF Inv
  <2>0. CASE RejectUnreadable
    BY <2>0 DEF RejectUnreadable, request
  <2>1. CASE Reject
    BY <2>1 DEF Reject, request
  <2>2. CASE BuildIndex
    BY <2>2 DEF BuildIndex, request
  <2>3. CASE BuildForecasts
    <3> USE <2>3 DEF BuildForecasts
    <3>1. CASE samples < window
      <4>1. pc' = "failed" /\ UNCHANGED <<step, width, hps, duration, deadline, observed>>
        BY <3>1 DEF request
      <4>2. width < step
        <5> SUFFICES ASSUME step <= width PROVE FALSE
          OBVIOUS
        <5>0. /\ duration \in Nat /\ deadline \in Nat /\ duration <= deadline
              /\ step \in Nat \ {0} /\ width \in Nat \ {0}
          OBVIOUS
        <5>1. duration \div width <= duration \div step
          BY <5>0, DivAntitone
        <5>2. duration \div step <= deadline \div step
          BY <5>0, DivMonotone
        <5>3. window <= duration \div width + 1
          BY WindowRounds
        <5>4. /\ duration \div width \in Nat /\ duration \div step \in Nat
              /\ deadline \div step \in Nat /\ window \in Nat
          <6>1. /\ duration \div width \in Nat /\ duration \div step \in Nat
                /\ deadline \div step \in Nat
            BY <5>0, DivMod
          <6>2. window = WindowSamples(duration, width)
            OBVIOUS
          <6>3. window \in Nat
            BY <5>0, <6>2, WindowRounds
          <6>4. QED BY <6>1, <6>3
        <5>5. QED BY <3>1, <5>1, <5>2, <5>3, <5>4
      <4>3. QED BY <4>1, <4>2
    <3>2. CASE \E u \in Apps : TooShort(observed[u])
      <4>1. pc' = "failed" /\ UNCHANGED <<step, width, hps, duration, deadline, observed>>
        BY <3>2 DEF request
      <4>2. PICK u \in Apps : TooShort(observed[u])
        BY <3>2
      <4>3. hps > step
        <5> SUFFICES ASSUME hps <= step PROVE FALSE
          OBVIOUS
        <5>1. observed[u] \in Observed
          OBVIOUS
        <5>2. QED BY <4>2, <5>1, TemplateFits
      <4>4. QED BY <4>1, <4>3
    <3>3. CASE ~(samples < window \/ \E u \in Apps : TooShort(observed[u]))
      <4>1. pc' = "forecast" /\ UNCHANGED <<request, samples, window>>
        BY <3>3
      <4>2. QED BY <4>1 DEF request
    <3>4. QED BY <3>1, <3>2, <3>3
  <2>4. CASE PickWindow
    <3>1. pick'.start \in 0 .. samples - window
      BY <2>4 DEF PickWindow
    <3>2. QED BY <2>4, <3>1 DEF PickWindow, request
  <2>5. CASE Assemble
    <3>1. result'.end = pick.start * step + duration
      BY <2>5 DEF Assemble
    <3>2. QED BY <2>5, <3>1 DEF Assemble, request
  <2>6. CASE UNCHANGED vars
    BY <2>6 DEF vars, request
  <2>7. QED BY <2>0, <2>1, <2>2, <2>3, <2>4, <2>5, <2>6 DEF Next
<1>3. QED BY <1>1, <1>2, PTL DEF Spec

\* len(future_index) < window_samples is never true after the headroom check, and no
\* template reaches back before its mask, when a sample is no longer than the runner
\* takes it for and no shorter than detect_timeline does.
THEOREM HorizonSuffices == Spec => []HeadroomIsEnough
<1>1. Inv => HeadroomIsEnough
  <2> SUFFICES ASSUME Inv, width >= step, hps <= step PROVE pc # "failed"
    BY DEF HeadroomIsEnough
  <2>1. QED BY DEF Inv
<1>2. QED BY <1>1, Invariance, PTL

\* The recommended window ends at most one and a half samples after the deadline, when
\* the width of a sample was read right.
THEOREM Overrun == Spec => []OverrunBounded
<1>1. Inv => OverrunBounded
  <2> SUFFICES ASSUME Inv, pc = "done", width = step
                  PROVE 2 * (result.end - deadline) <= 3 * step
    BY DEF OverrunBounded
  <2>0. /\ step \in Nat \ {0} /\ duration \in Nat /\ deadline \in Nat
        /\ samples = deadline \div step + 1
        /\ window = WindowSamples(duration, step)
        /\ pick.start \in 0 .. samples - window
        /\ result.end = pick.start * step + duration
    BY DEF Inv
  <2>a. /\ deadline \div step \in Nat /\ deadline % step \in 0 .. step - 1
        /\ deadline = step * (deadline \div step) + (deadline % step)
    BY <2>0, DivMod
  <2>b. /\ WindowSamples(duration, step) \in Nat
        /\ 2 * (step * WindowSamples(duration, step)) >= 2 * duration - step
    BY <2>0, WindowRounds
  <2> DEFINE q == deadline \div step  w == window  b == pick.start
  <2>1. /\ step \in Nat \ {0} /\ duration \in Nat /\ deadline \in Nat
        /\ w = WindowSamples(duration, step) /\ b \in 0 .. q + 1 - w
        /\ result.end = b * step + duration
    BY <2>0, <2>a, <2>b
  <2>2. q \in Nat /\ step * q <= deadline
    <3> HIDE DEF q
    <3>1. /\ q \in Nat /\ deadline % step \in 0 .. step - 1
          /\ deadline = step * q + (deadline % step)
      BY <2>a DEF q
    <3>2. step * q \in Nat
      BY <2>1, <3>1
    <3>3. QED BY <2>1, <3>1, <3>2
  <2>3. w \in Nat /\ 2 * (step * w) >= 2 * duration - step
    <3> HIDE DEF w
    <3>1. QED BY <2>1, <2>b
  <2> HIDE DEF q, w, b
  <2>4. b \in Nat /\ b <= q + 1 - w
    BY <2>1, <2>2, <2>3
  <2>5. b * step <= (q + 1 - w) * step
    BY <2>1, <2>2, <2>3, <2>4
  <2>6. (q + 1 - w) * step = step * q + step - step * w
    BY <2>1, <2>2, <2>3
  <2>7. /\ b * step \in Nat /\ step * q \in Nat /\ step * w \in Nat
    BY <2>1, <2>2, <2>3, <2>4
  <2>8. QED BY <2>1, <2>2, <2>3, <2>5, <2>6, <2>7
<1>2. QED BY <1>1, Invariance, PTL

-----------------------------------------------------------------------------
(* Counting active workloads.                                              *)

\* A set of numbers that is not empty has a least one.
LEMMA LeastNumber ==
  ASSUME NEW S \in SUBSET Nat, S # {}
  PROVE  \E m \in S : \A n \in S : m <= n
<1>1. PICK m \in S : \A n \in S : <<n, m>> \notin OpToRel(<, Nat)
  BY NatLessThanWellFounded, WFMin, Zenon
<1>2. \A n \in S : ~ (n < m)
  BY <1>1 DEF OpToRel
<1>3. QED BY <1>2

\* How often the workloads of U are active at the instants of W.
Count(f, U, W) == Cardinality({a \in U \X W : f[a[1]][a[2]]})

LEMMA CountFinite ==
  ASSUME NEW f, NEW U, NEW W, IsFiniteSet(U), IsFiniteSet(W)
  PROVE  IsFiniteSet({a \in U \X W : f[a[1]][a[2]]}) /\ Count(f, U, W) \in Nat
<1>1. IsFiniteSet(U \X W)
  BY FS_Product
<1>2. IsFiniteSet({a \in U \X W : f[a[1]][a[2]]})
  BY <1>1, FS_Subset
<1>3. QED BY <1>2, FS_CardinalityType DEF Count

\* Counts of other workloads, or of other instants, add up.
LEMMA CountAdds ==
  ASSUME NEW f, NEW U, NEW W, NEW V, IsFiniteSet(U), IsFiniteSet(W), IsFiniteSet(V), W \cap V = {}
  PROVE  /\ Count(f, U, W \cup V) = Count(f, U, W) + Count(f, U, V)
         /\ Count(f, W \cup V, U) = Count(f, W, U) + Count(f, V, U)
<1>1. /\ IsFiniteSet({a \in U \X W : f[a[1]][a[2]]}) /\ IsFiniteSet({a \in U \X V : f[a[1]][a[2]]})
      /\ IsFiniteSet({a \in W \X U : f[a[1]][a[2]]}) /\ IsFiniteSet({a \in V \X U : f[a[1]][a[2]]})
      /\ Count(f, U, W) \in Nat /\ Count(f, U, V) \in Nat
      /\ Count(f, W, U) \in Nat /\ Count(f, V, U) \in Nat
  BY CountFinite
<1>2. Count(f, U, W \cup V) = Count(f, U, W) + Count(f, U, V)
  <2>1. PICK A, B : A = {a \in U \X W : f[a[1]][a[2]]} /\ B = {a \in U \X V : f[a[1]][a[2]]}
    OBVIOUS
  <2>2. {a \in U \X (W \cup V) : f[a[1]][a[2]]} = A \cup B
    BY <2>1
  <2>3. A \cap B = {}
    BY <2>1
  <2>4. Cardinality(A \cup B) = Cardinality(A) + Cardinality(B) - 0
    <3>1. IsFiniteSet(A) /\ IsFiniteSet(B)
      BY <1>1, <2>1
    <3>2. Cardinality(A \cap B) = 0
      BY <2>3, FS_EmptySet
    <3>3. Cardinality(A \cup B) = Cardinality(A) + Cardinality(B) - Cardinality(A \cap B)
      BY <3>1, FS_Union
    <3>4. QED BY <3>2, <3>3
  <2>5. Cardinality(A) \in Nat /\ Cardinality(B) \in Nat
    BY <1>1, <2>1 DEF Count
  <2>6. Cardinality(A \cup B) = Cardinality(A) + Cardinality(B)
    BY <2>4, <2>5
  <2>7. QED BY <2>1, <2>2, <2>6, Zenon DEF Count
<1>3. Count(f, W \cup V, U) = Count(f, W, U) + Count(f, V, U)
  <2>1. PICK A, B : A = {a \in W \X U : f[a[1]][a[2]]} /\ B = {a \in V \X U : f[a[1]][a[2]]}
    OBVIOUS
  <2>2. {a \in (W \cup V) \X U : f[a[1]][a[2]]} = A \cup B
    BY <2>1
  <2>3. A \cap B = {}
    BY <2>1
  <2>4. Cardinality(A \cup B) = Cardinality(A) + Cardinality(B) - 0
    <3>1. IsFiniteSet(A) /\ IsFiniteSet(B)
      BY <1>1, <2>1
    <3>2. Cardinality(A \cap B) = 0
      BY <2>3, FS_EmptySet
    <3>3. Cardinality(A \cup B) = Cardinality(A) + Cardinality(B) - Cardinality(A \cap B)
      BY <3>1, FS_Union
    <3>4. QED BY <3>2, <3>3
  <2>5. Cardinality(A) \in Nat /\ Cardinality(B) \in Nat
    BY <1>1, <2>1 DEF Count
  <2>6. Cardinality(A \cup B) = Cardinality(A) + Cardinality(B)
    BY <2>4, <2>5
  <2>7. QED BY <2>1, <2>2, <2>6, Zenon DEF Count
<1>4. QED BY <1>2, <1>3

\* The workloads that are active at an instant, and the instants at which one is.
ActiveAt(f, U, e) == {u \in U : f[u][e]}
ActiveOf(f, W, e) == {i \in W : f[e][i]}

\* At one instant the count is the number of active workloads.
LEMMA CountAt ==
  ASSUME NEW f, NEW U, NEW e, IsFiniteSet(U)
  PROVE  Count(f, U, {e}) = Cardinality(ActiveAt(f, U, e))
<1> DEFINE S == {u \in U : f[u][e]}
           T == {a \in U \X {e} : f[a[1]][a[2]]}
           g == [u \in S |-> <<u, e>>]
<1>1. \A u \in S : <<u, e>> \in T
  OBVIOUS
<1>2. ASSUME NEW a \in T PROVE a[1] \in S /\ a = <<a[1], e>>
  OBVIOUS
<1>3. IsFiniteSet(S)
  BY FS_Subset
<1>4. g \in Bijection(S, T)
  <2> HIDE DEF S, T
  <2>1. g \in [S -> T] /\ \A u, w \in S : g[u] = g[w] => u = w
    BY <1>1
  <2>2. \A a \in T : \E u \in S : g[u] = a
    BY <1>2
  <2>3. QED BY <2>1, <2>2 DEF Bijection, Injection, Surjection, IsInjective
<1>5. Cardinality(T) = Cardinality(S)
  <2> HIDE DEF S, T, g
  <2>1. ExistsBijection(S, T)
    BY <1>4 DEF ExistsBijection
  <2>2. QED BY <1>3, <2>1, FS_Bijection
<1>6. QED BY <1>5 DEF Count, ActiveAt

\* Of one workload it is the number of its active instants.
LEMMA CountOf ==
  ASSUME NEW f, NEW W, NEW e, IsFiniteSet(W)
  PROVE  Count(f, {e}, W) = Cardinality(ActiveOf(f, W, e))
<1> DEFINE S == {i \in W : f[e][i]}
           T == {a \in {e} \X W : f[a[1]][a[2]]}
           g == [i \in S |-> <<e, i>>]
<1>1. \A i \in S : <<e, i>> \in T
  OBVIOUS
<1>2. ASSUME NEW a \in T PROVE a[2] \in S /\ a = <<e, a[2]>>
  OBVIOUS
<1>3. IsFiniteSet(S)
  BY FS_Subset
<1>4. g \in Bijection(S, T)
  <2> HIDE DEF S, T
  <2>1. g \in [S -> T] /\ \A u, w \in S : g[u] = g[w] => u = w
    BY <1>1
  <2>2. \A a \in T : \E u \in S : g[u] = a
    BY <1>2
  <2>3. QED BY <2>1, <2>2 DEF Bijection, Injection, Surjection, IsInjective
<1>5. Cardinality(T) = Cardinality(S)
  <2> HIDE DEF S, T, g
  <2>1. ExistsBijection(S, T)
    BY <1>4 DEF ExistsBijection
  <2>2. QED BY <1>3, <2>1, FS_Bijection
<1>6. QED BY <1>5 DEF Count, ActiveOf

-----------------------------------------------------------------------------
(* The stages in their order.                                              *)

\* What each stage leaves to the next: the projection of every workload, the window of the
\* smallest sum, and the result assembled from it.
Staged ==
  /\ Inv /\ samples \in Nat /\ window \in Nat /\ offset \in Nat
  /\ width \in {step, Fallback} /\ step \in Steps /\ observed \in [Apps -> Observed]
  /\ pc \in {"index", "forecast", "score", "done"} => samples \in Nat \ {0} /\ window \in Nat \ {0}
  /\ pc \in {"forecast", "score", "done"} =>
       /\ window <= samples
       /\ forecast = [u \in Apps |-> [i \in Horizon |-> Project(observed[u], i)]]
  /\ pc \in {"score", "done"} =>
       /\ \A s \in 0 .. samples - window :
            /\ DirectSum(pick.start) <= DirectSum(s)
            /\ s < pick.start => DirectSum(pick.start) < DirectSum(s)
       /\ pick.sum = DirectSum(pick.start)
       /\ pick.peak = Max({Score(i) : i \in pick.start .. pick.start + window - 1})
  /\ pc = "done" =>
       result = [start |-> pick.start * step, end |-> pick.start * step + duration,
                 score |-> pick.sum, added |-> [u \in Apps |-> IF u = target THEN 0 ELSE Added(u)],
                 windows |-> [u \in Apps |-> WindowsFromMask(forecast[u])],
                 confidence |-> Confidence(pick.peak), named |-> Named]

\* The cumulative sums count the workloads active before an instant.
LEMMA SumsAre ==
  ASSUME samples \in Nat
  PROVE  \A i \in 0 .. samples : CumulativeSum[i] = Count(forecast, Apps, 0 .. i - 1)
<1> DEFINE Rec(h) == h = [i \in 0 .. samples |-> IF i = 0 THEN 0 ELSE h[i - 1] + Score(i - 1)]
           counts == [i \in 0 .. samples |-> Count(forecast, Apps, 0 .. i - 1)]
           csum == CHOOSE h : Rec(h)
<1>1. Count(forecast, Apps, 0 .. 0 - 1) = 0
  <2>1. {a \in Apps \X (0 .. 0 - 1) : forecast[a[1]][a[2]]} = {}
    OBVIOUS
  <2>2. QED BY <2>1, FS_EmptySet DEF Count
<1>2. ASSUME NEW i \in 1 .. samples
      PROVE  Count(forecast, Apps, 0 .. i - 1) = Count(forecast, Apps, 0 .. (i - 1) - 1) + Score(i - 1)
  <2>1. PICK W, e : W = 0 .. (i - 1) - 1 /\ e = i - 1
    OBVIOUS
  <2>2. /\ IsFiniteSet(Apps) /\ IsFiniteSet(W) /\ IsFiniteSet({e}) /\ W \cap {e} = {}
        /\ 0 .. i - 1 = W \cup {e}
    <3>1. IsFiniteSet(W)
      <4>1. 0 \in Int /\ (i - 1) - 1 \in Int
        OBVIOUS
      <4>2. QED BY <2>1, <4>1, FS_Interval
    <3>2. IsFiniteSet(Apps) /\ IsFiniteSet({e})
      BY WindowAssumption, FS_Singleton
    <3>3. W \cap {e} = {} /\ 0 .. i - 1 = W \cup {e}
      BY <2>1
    <3>4. QED BY <3>1, <3>2, <3>3
  <2>3. Count(forecast, Apps, W \cup {e}) = Count(forecast, Apps, W) + Count(forecast, Apps, {e})
    BY <2>2, CountAdds
  <2>4. Count(forecast, Apps, {e}) = Score(e)
    <3>1. Count(forecast, Apps, {e}) = Cardinality(ActiveAt(forecast, Apps, e))
      BY <2>2, CountAt
    <3>2. QED BY <3>1 DEF Score, ActiveAt
  <2>5. QED BY <2>1, <2>2, <2>3, <2>4
<1>3. Rec(counts)
  <2>1. ASSUME NEW i \in 0 .. samples
        PROVE  counts[i] = IF i = 0 THEN 0 ELSE counts[i - 1] + Score(i - 1)
    <3>1. CASE i = 0
      BY <1>1, <3>1
    <3>2. CASE i # 0
      <4>1. i \in 1 .. samples /\ i - 1 \in 0 .. samples
        BY <3>2
      <4>2. counts[i] = Count(forecast, Apps, 0 .. i - 1)
            /\ counts[i - 1] = Count(forecast, Apps, 0 .. (i - 1) - 1)
        BY <4>1
      <4>3. QED BY <1>2, <3>2, <4>1, <4>2
    <3>3. QED BY <3>1, <3>2
  <2>2. counts = [i \in 0 .. samples |-> counts[i]]
    OBVIOUS
  <2> HIDE DEF counts
  <2>3. QED BY <2>1, <2>2, Zenon
<1>4. Rec(csum)
  BY <1>3, Zenon
<1>5. CumulativeSum = csum
  BY Zenon DEF CumulativeSum
<1>6. \A i \in 0 .. samples : csum[i] = IF i = 0 THEN 0 ELSE csum[i - 1] + Score(i - 1)
  BY <1>4, Zenon
<1> DEFINE Bad == {i \in 0 .. samples : csum[i] # Count(forecast, Apps, 0 .. i - 1)}
<1>7. Bad = {}
  <2> HIDE DEF csum
  <2> SUFFICES ASSUME Bad # {} PROVE FALSE
    OBVIOUS
  <2>1. PICK m \in Bad : \A i \in Bad : m <= i
    <3>1. Bad \in SUBSET Nat
      OBVIOUS
    <3> HIDE DEF Bad
    <3>2. QED BY <3>1, LeastNumber
  <2>2. m \in 0 .. samples /\ csum[m] # Count(forecast, Apps, 0 .. m - 1)
    OBVIOUS
  <2>3. m # 0
    BY <1>1, <1>6, <2>2
  <2>4. m \in 1 .. samples /\ m - 1 \in 0 .. samples /\ m - 1 \notin Bad
    <3>1. m \in 1 .. samples /\ m - 1 \in 0 .. samples /\ ~(m <= m - 1)
      BY <2>2, <2>3
    <3> HIDE DEF Bad
    <3>2. QED BY <2>1, <3>1
  <2>5. csum[m - 1] = Count(forecast, Apps, 0 .. (m - 1) - 1)
    BY <2>4
  <2>6. QED BY <1>2, <1>6, <2>2, <2>3, <2>4, <2>5
<1> HIDE DEF csum
<1>8. QED BY <1>5, <1>7

\* So the difference of two cumulative sums counts what is active in between.
LEMMA WindowSums ==
  ASSUME samples \in Nat, window \in Nat, NEW s \in 0 .. samples - window
  PROVE  CumulativeSum[s + window] - CumulativeSum[s] = DirectSum(s)
<1>1. s \in 0 .. samples /\ s + window \in 0 .. samples
  OBVIOUS
<1>2. /\ CumulativeSum[s] = Count(forecast, Apps, 0 .. s - 1)
      /\ CumulativeSum[s + window] = Count(forecast, Apps, 0 .. s + window - 1)
  <2>1. PICK e : e = s + window
    OBVIOUS
  <2>2. CumulativeSum[e] = Count(forecast, Apps, 0 .. e - 1)
    BY <1>1, <2>1, SumsAre
  <2>3. CumulativeSum[s] = Count(forecast, Apps, 0 .. s - 1)
    BY <1>1, SumsAre
  <2>4. QED BY <2>1, <2>2, <2>3
<1>3. PICK W, V : W = 0 .. s - 1 /\ V = s .. s + window - 1
  OBVIOUS
<1>4. /\ IsFiniteSet(Apps) /\ IsFiniteSet(W) /\ IsFiniteSet(V)
  <2>1. 0 \in Int /\ s \in Int /\ s - 1 \in Int /\ s + window - 1 \in Int
    OBVIOUS
  <2>2. IsFiniteSet(W)
    BY <1>3, <2>1, FS_Interval
  <2>3. IsFiniteSet(V)
    BY <1>3, <2>1, FS_Interval
  <2>4. QED BY <2>2, <2>3, WindowAssumption
<1>5. W \cap V = {} /\ 0 .. s + window - 1 = W \cup V
  BY <1>3
<1>6. Count(forecast, Apps, W \cup V) = Count(forecast, Apps, W) + Count(forecast, Apps, V)
  BY <1>4, <1>5, CountAdds
<1>7. Count(forecast, Apps, W) \in Nat /\ Count(forecast, Apps, V) \in Nat
  BY <1>4, CountFinite
<1>8. DirectSum(s) = Count(forecast, Apps, V)
  BY <1>3 DEF DirectSum, Count
<1>9. /\ CumulativeSum[s] = Count(forecast, Apps, W)
      /\ CumulativeSum[s + window] = Count(forecast, Apps, W) + Count(forecast, Apps, V)
  BY <1>2, <1>3, <1>5, <1>6
<1>10. QED BY <1>7, <1>8, <1>9

\* What the forecasts are counted from stays: so do the counts.
LEMMA CountsStay ==
  ASSUME UNCHANGED <<request, samples, window, forecast>>
  PROVE  /\ \A s : DirectSum(s)' = DirectSum(s) /\ Score(s)' = Score(s)
         /\ \A f : WindowsFromMask(f)' = WindowsFromMask(f)
         /\ \A o, i : Project(o, i)' = Project(o, i) /\ TooShort(o)' = TooShort(o)
         /\ Horizon' = Horizon
<1>1. /\ step' = step /\ hps' = hps /\ offset' = offset /\ observed' = observed
      /\ samples' = samples /\ window' = window /\ forecast' = forecast
  BY DEF request
<1>2. \A s : DirectSum(s)' = DirectSum(s) /\ Score(s)' = Score(s)
  BY <1>1 DEF DirectSum, Score
<1>3. \A f : WindowsFromMask(f)' = WindowsFromMask(f)
  BY <1>1 DEF WindowsFromMask, Horizon
<1>4. \A o, i : Project(o, i)' = Project(o, i) /\ TooShort(o)' = TooShort(o)
  BY <1>1 DEF Project, Fit, TooShort, TemplateLength
<1>5. Horizon' = Horizon
  BY <1>1 DEF Horizon
<1>6. QED BY <1>2, <1>3, <1>4, <1>5

LEMMA StagedKept == Spec => []Staged
<1> USE WindowAssumption
<1>1. Init => Staged
  BY DEF Init, Inv, Staged
<1>2. ASSUME Staged, Inv', [Next]_vars PROVE Staged'
  <2>0. ASSUME UNCHANGED <<request, samples, window, forecast>>
        PROVE  [u \in Apps |-> [i \in Horizon |-> Project(observed[u], i)]]' =
               [u \in Apps |-> [i \in Horizon |-> Project(observed[u], i)]]
    BY <2>0, CountsStay DEF request
  <2>1. CASE RejectUnreadable \/ Reject
    BY <1>2, <2>1 DEF RejectUnreadable, Reject, Staged, request
  <2>2. CASE BuildIndex
    <3>1. /\ UNCHANGED <<step, width, hps, duration, deadline, offset, observed>> /\ pc' = "index"
          /\ samples' = deadline \div step + 1 /\ window' = WindowSamples(duration, width)
      BY <2>2 DEF BuildIndex, request
    <3>2. samples' \in Nat \ {0} /\ window' \in Nat \ {0}
      <4>1. duration \in Nat /\ deadline \in Nat /\ step \in Nat \ {0} /\ width \in Nat \ {0}
        BY <1>2 DEF Staged, Inv
      <4>2. WindowSamples(duration, width) \in Nat /\ WindowSamples(duration, width) >= 1
        BY <4>1, WindowRounds
      <4>3. deadline \div step \in Nat
        BY <4>1, DivMod
      <4>4. QED BY <3>1, <4>2, <4>3
    <3>3. QED BY <1>2, <3>1, <3>2 DEF Staged
  <2>3. CASE BuildForecasts
    <3>1. pc = "index" /\ UNCHANGED <<request, samples, window, pick, result>>
      BY <2>3 DEF BuildForecasts
    <3>2. CASE samples < window \/ \E u \in Apps : TooShort(observed[u])
      <4>1. pc' = "failed"
        BY <2>3, <3>2 DEF BuildForecasts
      <4>2. QED BY <1>2, <3>1, <4>1 DEF Staged, request
    <3>3. CASE ~(samples < window \/ \E u \in Apps : TooShort(observed[u]))
      <4>1. /\ pc' = "forecast"
            /\ forecast' = [u \in Apps |-> [i \in Horizon |-> Project(observed[u], i)]]
        BY <2>3, <3>3 DEF BuildForecasts
      <4>2. samples \in Nat \ {0} /\ window \in Nat \ {0} /\ window <= samples
        BY <1>2, <3>1, <3>3 DEF Staged
      <4>3. forecast' = [u \in Apps |-> [i \in Horizon |-> Project(observed[u], i)]]'
        <5>1. /\ step' = step /\ hps' = hps /\ offset' = offset /\ observed' = observed
              /\ samples' = samples
          BY <3>1 DEF request
        <5>2. \A o, i : Project(o, i)' = Project(o, i)
          BY <5>1 DEF Project, Fit, TemplateLength
        <5>3. Horizon' = Horizon
          BY <5>1 DEF Horizon
        <5>4. QED BY <4>1, <5>1, <5>2, <5>3
      <4>4. QED BY <1>2, <3>1, <4>1, <4>2, <4>3 DEF Staged, request
    <3>4. QED BY <3>2, <3>3
  <2>4. CASE PickWindow
    <3>1. /\ pc = "forecast" /\ pc' = "score"
          /\ UNCHANGED <<request, samples, window, forecast, result>>
      BY <2>4 DEF PickWindow
    <3>2. samples \in Nat /\ window \in Nat
      BY <1>2 DEF Staged
    <3> DEFINE sums == [s \in 0 .. samples - window |-> CumulativeSum[s + window] - CumulativeSum[s]]
    <3>3. PICK best \in 0 .. samples - window :
            /\ MinWindow(sums, best)
            /\ pick' = [start |-> best, sum |-> sums[best],
                        peak |-> Max({Score(i) : i \in best .. best + window - 1})]
      BY <2>4 DEF PickWindow
    <3>4. \A s \in 0 .. samples - window : sums[s] = DirectSum(s)
      BY <3>2, WindowSums
    <3>5. /\ \A s \in 0 .. samples - window :
               /\ DirectSum(best) <= DirectSum(s)
               /\ s < best => DirectSum(best) < DirectSum(s)
          /\ pick'.sum = DirectSum(best) /\ pick'.start = best
          /\ pick'.peak = Max({Score(i) : i \in best .. best + window - 1})
      <4>1. DOMAIN sums = 0 .. samples - window
        OBVIOUS
      <4> HIDE DEF sums
      <4>2. QED BY <3>3, <3>4, <4>1 DEF MinWindow
    <3>6. \A s : DirectSum(s)' = DirectSum(s) /\ Score(s)' = Score(s)
      BY <3>1, CountsStay
    <3>7. samples' = samples /\ window' = window /\ forecast' = forecast
          /\ UNCHANGED <<step, width, hps, duration, deadline, offset, observed>>
      BY <3>1 DEF request
    <3>8. /\ forecast' = [u \in Apps |-> [i \in Horizon |-> Project(observed[u], i)]]'
          /\ window' <= samples' /\ samples' \in Nat \ {0} /\ window' \in Nat \ {0}
      BY <1>2, <2>0, <3>1, <3>7 DEF Staged
    <3>9. /\ \A s \in 0 .. samples' - window' :
               /\ DirectSum(best)' <= DirectSum(s)'
               /\ s < best => DirectSum(best)' < DirectSum(s)'
          /\ pick'.sum = DirectSum(best)'
          /\ pick'.peak = Max({Score(i) : i \in best .. best + window - 1})'
      BY <3>5, <3>6, <3>7
    <3>10. QED BY <1>2, <3>1, <3>5, <3>7, <3>8, <3>9 DEF Staged
  <2>5. CASE Assemble
    <3>1. /\ pc = "score" /\ pc' = "done"
          /\ UNCHANGED <<request, samples, window, forecast, pick>>
          /\ result' = [start |-> pick.start * step, end |-> pick.start * step + duration,
                 score |-> pick.sum, added |-> [u \in Apps |-> IF u = target THEN 0 ELSE Added(u)],
                 windows |-> [u \in Apps |-> WindowsFromMask(forecast[u])],
                 confidence |-> Confidence(pick.peak), named |-> Named]
      BY <2>5 DEF Assemble
    <3>2. /\ \A s : DirectSum(s)' = DirectSum(s) /\ Score(s)' = Score(s)
          /\ samples' = samples /\ window' = window /\ forecast' = forecast /\ pick' = pick
          /\ UNCHANGED <<step, width, hps, duration, deadline, offset, observed>>
      BY <3>1, CountsStay DEF request
    <3>3. forecast' = [u \in Apps |-> [i \in Horizon |-> Project(observed[u], i)]]'
      BY <1>2, <2>0, <3>1, <3>2 DEF Staged
    <3>4. /\ \A s \in 0 .. samples' - window' :
               /\ DirectSum(pick.start)' <= DirectSum(s)'
               /\ s < pick'.start => DirectSum(pick.start)' < DirectSum(s)'
          /\ pick'.sum = DirectSum(pick.start)'
          /\ pick'.peak = Max({Score(i) : i \in pick.start .. pick.start + window - 1})'
      <4>1. DirectSum(pick.start)' = DirectSum(pick.start)
        BY <3>2 DEF DirectSum
      <4>2. {Score(i) : i \in pick.start .. pick.start + window - 1}' =
            {Score(i) : i \in pick.start .. pick.start + window - 1}
        BY <3>2 DEF Score
      <4>3. PICK S : S = {Score(i) : i \in pick.start .. pick.start + window - 1}
        OBVIOUS
      <4>4. pick.sum = DirectSum(pick.start) /\ pick.peak = Max(S)
        BY <1>2, <3>1, <4>3 DEF Staged
      <4>5. Max({Score(i) : i \in pick.start .. pick.start + window - 1})' = Max(S)
        BY <4>2, <4>3
      <4>6. \A s \in 0 .. samples' - window' :
               /\ DirectSum(pick.start)' <= DirectSum(s)'
               /\ s < pick'.start => DirectSum(pick.start)' < DirectSum(s)'
        BY <1>2, <3>1, <3>2, <4>1 DEF Staged
      <4>7. QED BY <3>2, <4>1, <4>4, <4>5, <4>6
    <3>5. result' = [start |-> pick.start * step, end |-> pick.start * step + duration,
                 score |-> pick.sum, added |-> [u \in Apps |-> IF u = target THEN 0 ELSE Added(u)],
                 windows |-> [u \in Apps |-> WindowsFromMask(forecast[u])],
                 confidence |-> Confidence(pick.peak), named |-> Named]'
      BY <3>1, <3>2 DEF Added, Named, WindowsFromMask, Horizon
    <3>6. QED BY <1>2, <3>1, <3>2, <3>3, <3>4, <3>5 DEF Staged
  <2>6. CASE UNCHANGED vars
    <3>1. /\ UNCHANGED <<step, width, hps, duration, deadline, offset, observed>>
          /\ samples' = samples /\ window' = window /\ forecast' = forecast /\ pick' = pick
          /\ pc' = pc /\ result' = result /\ UNCHANGED request
      BY <2>6 DEF vars, request
    <3>2. Staged' = Staged
      BY <3>1 DEF Staged, Inv, Horizon, Project, Fit, TemplateLength, DirectSum, Score, WindowsFromMask, Added, Named
    <3>3. QED BY <1>2, <3>2
  <2>7. QED BY <1>2, <2>1, <2>2, <2>3, <2>4, <2>5, <2>6 DEF Next
<1>3. QED BY <1>1, <1>2, Invariance, PTL DEF Spec

\* The variables of a run keep their types.
THEOREM TypeCorrect == Spec => []TypeOK
<1>1. Staged => TypeOK
  BY DEF Staged, Inv, TypeOK
<1>2. QED BY <1>1, StagedKept, PTL

\* The window has the smallest sum of all that fit into the horizon, and is the first of
\* those: what min_window takes from cumulative sums is what counting gives.
THEOREM FirstBest == Spec => []EarliestBest
<1>1. Staged => EarliestBest
  BY DEF Staged, EarliestBest
<1>2. QED BY <1>1, StagedKept, PTL

-----------------------------------------------------------------------------
(* The score and the impacts it adds up from.                              *)

\* The sum over workloads of how often each is active is how often they all are.
LEMMA SumOfCounts ==
  ASSUME NEW S, IsFiniteSet(S), NEW W, IsFiniteSet(W), NEW f, NEW g, DOMAIN g = S,
         \A u \in S : g[u] = Count(f, {u}, W)
  PROVE  SumFunction(g) = Count(f, S, W)
<1> DEFINE one(s) == CHOOSE x \in s : TRUE
           Rec(h) == h = [s \in SUBSET S |-> IF s = {} THEN 0 ELSE g[one(s)] + h[s \ {one(s)}]]
           counts == [s \in SUBSET S |-> Count(f, s, W)]
           total == CHOOSE h : Rec(h)
<1>1. Count(f, {}, W) = 0
  <2>1. {a \in {} \X W : f[a[1]][a[2]]} = {}
    OBVIOUS
  <2>2. QED BY <2>1, FS_EmptySet DEF Count
<1>2. ASSUME NEW s \in SUBSET S, s # {}
      PROVE  one(s) \in s /\ Count(f, s, W) = g[one(s)] + Count(f, s \ {one(s)}, W)
  <2>1. PICK x : x = one(s)
    OBVIOUS
  <2>2. x \in s
    BY <1>2, <2>1
  <2>3. IsFiniteSet(s \ {x}) /\ IsFiniteSet({x})
    BY FS_Subset, FS_Singleton
  <2>4. PICK V : V = s \ {x}
    OBVIOUS
  <2>5. s = {x} \cup V /\ {x} \cap V = {} /\ IsFiniteSet(V)
    BY <2>2, <2>3, <2>4
  <2>6. Count(f, {x} \cup V, W) = Count(f, {x}, W) + Count(f, V, W)
    BY <2>3, <2>5, CountAdds
  <2>7. g[x] = Count(f, {x}, W)
    BY <2>2
  <2> HIDE DEF one
  <2>8. QED BY <2>1, <2>2, <2>4, <2>5, <2>6, <2>7
<1>3. Rec(counts)
  <2>1. ASSUME NEW s \in SUBSET S
        PROVE  counts[s] = IF s = {} THEN 0 ELSE g[one(s)] + counts[s \ {one(s)}]
    <3>1. CASE s = {}
      BY <1>1, <3>1
    <3>2. CASE s # {}
      <4> HIDE DEF one
      <4>1. s \ {one(s)} \in SUBSET S
        OBVIOUS
      <4>2. counts[s \ {one(s)}] = Count(f, s \ {one(s)}, W) /\ counts[s] = Count(f, s, W)
        BY <4>1
      <4>3. QED BY <1>2, <3>2, <4>2
    <3>3. QED BY <3>1, <3>2
  <2>2. counts = [s \in SUBSET S |-> counts[s]]
    OBVIOUS
  <2> HIDE DEF counts, one
  <2>3. QED BY <2>1, <2>2, Zenon
<1>4. Rec(total)
  BY <1>3, Zenon
<1>5. SumFunction(g) = total[S]
  BY Zenon DEF SumFunction, SumFunctionOnSet, FoldFunctionOnSet, MapThenFoldSet
<1>6. \A s \in SUBSET S : total[s] = IF s = {} THEN 0 ELSE g[one(s)] + total[s \ {one(s)}]
  BY <1>4, Zenon
<1> DEFINE Bad == {k \in Nat : \E s \in SUBSET S : Cardinality(s) = k /\ total[s] # Count(f, s, W)}
<1>7. Bad = {}
  <2> HIDE DEF total, one
  <2> SUFFICES ASSUME Bad # {} PROVE FALSE
    OBVIOUS
  <2>1. PICK m \in Bad : \A k \in Bad : m <= k
    <3>1. Bad \in SUBSET Nat
      OBVIOUS
    <3> HIDE DEF Bad
    <3>2. QED BY <3>1, LeastNumber
  <2>2. PICK s \in SUBSET S : Cardinality(s) = m /\ total[s] # Count(f, s, W)
    OBVIOUS
  <2>3. s # {}
    BY <1>1, <1>6, <2>2
  <2>4. PICK x : x = one(s)
    OBVIOUS
  <2>5. x \in s
    BY <1>2, <2>3, <2>4
  <2>6. s \ {x} \in SUBSET S /\ IsFiniteSet(s) /\ IsFiniteSet(s \ {x})
    BY FS_Subset
  <2>7. Cardinality(s \ {x}) = m - 1 /\ Cardinality(s \ {x}) \in Nat
    <3>1. Cardinality(s \ {x}) = m - 1
      BY <2>2, <2>5, <2>6, FS_RemoveElement
    <3>2. Cardinality(s \ {x}) \in Nat
      BY <2>6, FS_CardinalityType
    <3> HIDE DEF Bad
    <3>3. QED BY <3>1, <3>2
  <2>8. m - 1 \notin Bad
    <3>1. m \in Nat /\ ~(m <= m - 1)
      OBVIOUS
    <3> HIDE DEF Bad
    <3>2. QED BY <2>1, <3>1
  <2>9. total[s \ {x}] = Count(f, s \ {x}, W)
    BY <2>6, <2>7, <2>8
  <2>10. total[s] = g[x] + total[s \ {x}]
    BY <1>6, <2>3, <2>4
  <2>11. Count(f, s, W) = g[x] + Count(f, s \ {x}, W)
    BY <1>2, <2>3, <2>4
  <2>12. QED BY <2>2, <2>9, <2>10, <2>11
<1>8. total[S] = Count(f, S, W)
  <2>1. Cardinality(S) \in Nat
    BY FS_CardinalityType
  <2> HIDE DEF total
  <2>2. QED BY <1>7, <2>1
<1>9. QED BY <1>5, <1>8

\* The impact_score of a result is what its impacted apps and the target add up to.
THEOREM ScoreIsSum == Spec => []ScoreAccounted
<1>1. ASSUME Staged, pc = "done"
      PROVE  result.score = SumFunction(result.added) +
                   Cardinality({i \in Horizon : forecast[target][i] /\
                                  i * step >= result.start /\ i < pick.start + window})
  <2>1. PICK W, f : W = pick.start .. pick.start + window - 1 /\ f = forecast
    OBVIOUS
  <2>2. /\ samples \in Nat /\ window \in Nat /\ step \in Nat \ {0}
        /\ pick.start \in 0 .. samples - window
        /\ result.start = pick.start * step /\ result.score = pick.sum
        /\ result.added = [u \in Apps |-> IF u = target THEN 0 ELSE Added(u)]
        /\ pick.sum = DirectSum(pick.start)
    BY <1>1 DEF Staged, Inv
  <2>3. /\ IsFiniteSet(W) /\ IsFiniteSet(Apps) /\ IsFiniteSet(Apps \ {target})
        /\ IsFiniteSet({target}) /\ target \in Apps
    <3>1. pick.start \in Int /\ pick.start + window - 1 \in Int
      BY <2>2
    <3>2. IsFiniteSet(W)
      BY <2>1, <3>1, FS_Interval
    <3>3. QED BY <3>2, WindowAssumption, FS_Subset, FS_Singleton
  <2>4. DirectSum(pick.start) = Count(f, Apps, W)
    BY <2>1 DEF DirectSum, Count
  <2>5. Count(f, Apps, W) = Count(f, Apps \ {target}, W) + Count(f, {target}, W)
    <3>1. PICK V : V = Apps \ {target}
      OBVIOUS
    <3>2. V \cap {target} = {} /\ V \cup {target} = Apps /\ IsFiniteSet(V)
      BY <2>3, <3>1
    <3>3. Count(f, V \cup {target}, W) = Count(f, V, W) + Count(f, {target}, W)
      BY <2>3, <3>2, CountAdds
    <3>4. QED BY <3>1, <3>2, <3>3
  <2>6. Count(f, {target}, W) =
          Cardinality({i \in Horizon : forecast[target][i] /\
                         i * step >= result.start /\ i < pick.start + window})
    <3>1. Count(f, {target}, W) = Cardinality(ActiveOf(f, W, target))
      BY <2>3, CountOf
    <3>2. ASSUME NEW i PROVE i \in W <=> i \in Horizon /\ i * step >= result.start /\ i < pick.start + window
      <4>1. ASSUME i \in Horizon PROVE i * step >= result.start <=> i >= pick.start
        <5>1. i \in Nat /\ pick.start \in Nat
          BY <2>2, <4>1 DEF Horizon
        <5>2. CASE i >= pick.start
          <6>1. (i - pick.start) * step >= 0 /\ (i - pick.start) * step = i * step - pick.start * step
            BY <2>2, <5>1, <5>2
          <6>2. i * step \in Nat /\ pick.start * step \in Nat
            BY <2>2, <5>1
          <6>3. QED BY <2>2, <5>2, <6>1, <6>2
        <5>3. CASE ~(i >= pick.start)
          <6>1. (pick.start - i) * step > 0 /\ (pick.start - i) * step = pick.start * step - i * step
            BY <2>2, <5>1, <5>3
          <6>2. i * step \in Nat /\ pick.start * step \in Nat
            BY <2>2, <5>1
          <6>3. QED BY <2>2, <5>3, <6>1, <6>2
        <5>4. QED BY <5>2, <5>3
      <4>2. i \in W => i \in Horizon
        BY <2>1, <2>2 DEF Horizon
      <4>3. i \in Horizon => (i \in W <=> i >= pick.start /\ i < pick.start + window)
        BY <2>1, <2>2 DEF Horizon
      <4>4. QED BY <4>1, <4>2, <4>3
    <3>3. ActiveOf(f, W, target) =
            {i \in Horizon : forecast[target][i] /\ i * step >= result.start /\ i < pick.start + window}
      BY <2>1, <3>2 DEF ActiveOf
    <3>4. QED BY <3>1, <3>3
  <2>7. SumFunction(result.added) = Count(f, Apps \ {target}, W)
    <3>1. PICK h : h = [u \in Apps |-> [i \in W |-> u # target /\ f[u][i]]]
      OBVIOUS
    <3>2. ASSUME NEW u \in Apps PROVE result.added[u] = Count(h, {u}, W)
      <4>1. Count(h, {u}, W) = Cardinality(ActiveOf(h, W, u))
        BY <2>3, CountOf
      <4>2. CASE u = target
        <5>1. ActiveOf(h, W, u) = {}
          BY <3>1, <4>2 DEF ActiveOf
        <5>2. result.added[u] = 0
          BY <2>2, <4>2
        <5>3. QED BY <4>1, <5>1, <5>2, FS_EmptySet
      <4>3. CASE u # target
        <5>1. ActiveOf(h, W, u) = {i \in W : f[u][i]}
          BY <3>1, <4>3 DEF ActiveOf
        <5>2. Added(u) = Cardinality(ActiveOf(h, W, u))
          BY <2>1, <5>1 DEF Added
        <5>3. result.added[u] = Added(u)
          BY <2>2, <4>3
        <5>4. QED BY <4>1, <5>2, <5>3
      <4>4. QED BY <4>2, <4>3
    <3>3. SumFunction(result.added) = Count(h, Apps, W)
      <4>1. PICK g : g = result.added
        OBVIOUS
      <4>2. DOMAIN g = Apps
        BY <2>2, <4>1
      <4>3. \A u \in Apps : g[u] = Count(h, {u}, W)
        BY <3>2, <4>1
      <4>4. SumFunction(g) = Count(h, Apps, W)
        BY <2>3, <4>2, <4>3, SumOfCounts
      <4>5. QED BY <4>1, <4>4
    <3>4. Count(h, Apps, W) = Count(f, Apps \ {target}, W)
      <4>1. {a \in Apps \X W : h[a[1]][a[2]]} = {a \in (Apps \ {target}) \X W : f[a[1]][a[2]]}
        BY <3>1
      <4>2. QED BY <4>1 DEF Count
    <3>5. QED BY <3>3, <3>4
  <2>8. QED BY <2>2, <2>4, <2>5, <2>6, <2>7
<1>2. Staged => ScoreAccounted
  BY <1>1 DEF ScoreAccounted
<1>3. QED BY <1>2, StagedKept, PTL
-----------------------------------------------------------------------------
(* The sample that an instant repeats.                                     *)

\* Quotient and remainder are the only ones.
LEMMA DivUnique ==
  ASSUME NEW a \in Nat, NEW s \in Nat \ {0}, NEW q \in Nat, NEW r \in 0 .. s - 1, a = s * q + r
  PROVE  a \div s = q /\ a % s = r
<1> DEFINE d == a \div s  m == a % s
<1>1. d \in Nat /\ m \in 0 .. s - 1 /\ a = s * d + m
  BY DivMod
<1> HIDE DEF d, m
<1>2. d = q
  <2>1. CASE d >= q + 1
    <3>1. s * d >= s * (q + 1) /\ s * (q + 1) = s * q + s
      BY <1>1, <2>1
    <3>2. s * d \in Nat /\ s * q \in Nat
      BY <1>1
    <3>3. QED BY <1>1, <3>1, <3>2
  <2>2. CASE q >= d + 1
    <3>1. s * q >= s * (d + 1) /\ s * (d + 1) = s * d + s
      BY <1>1, <2>2
    <3>2. s * d \in Nat /\ s * q \in Nat
      BY <1>1
    <3>3. QED BY <1>1, <3>1, <3>2
  <2>3. QED BY <1>1, <2>1, <2>2
<1>3. m = r
  <2>1. s * q \in Nat
    OBVIOUS
  <2>2. QED BY <1>1, <1>2, <2>1
<1>4. QED BY <1>2, <1>3 DEF d, m

\* Whole samples ahead of a moment are added to its quotient, and in the first half of a
\* sample the rounding changes nothing.
LEMMA SamplesAhead ==
  ASSUME NEW k \in Nat, NEW s \in Nat \ {0}, NEW o \in Nat
  PROVE  /\ o \div s \in Nat /\ (k * s + o) \div s = k + (o \div s)
         /\ 2 * (o % s) < s => RoundDiv(k * s + o, s) = k + (o \div s)
<1>1. PICK d \in Nat, m \in 0 .. s - 1 : d = o \div s /\ m = o % s /\ o = s * d + m
  BY DivMod
<1>2. k * s + o = s * (k + d) + m /\ k * s + o \in Nat /\ k + d \in Nat
  <2>1. s * (k + d) = k * s + s * d /\ k * s \in Nat /\ s * d \in Nat
    OBVIOUS
  <2>2. QED BY <1>1, <2>1
<1>3. PICK a \in Nat : a = k * s + o
  BY <1>2
<1>4. a \div s = k + d /\ a % s = m
  BY <1>2, <1>3, DivUnique
<1>5. 2 * m < s => RoundDiv(a, s) = k + d
  BY <1>4 DEF RoundDiv
<1>6. QED BY <1>1, <1>3, <1>4, <1>5

\* Where detect_timeline reads the width of a sample right, the template of a period of
\* whole samples is that period.
LEMMA TemplateIsPeriod ==
  ASSUME NEW o, o.period \in Nat, o.period > 0, o.period % 2 = 0, step \in Nat \ {0}, hps = step
  PROVE  TemplateLength(o) = o.period \div 2
<1>1. PICK p \in Nat : p = o.period \div 2 /\ o.period = 2 * p /\ p >= 1
  OBVIOUS
<1>2. o.period * hps = p * (2 * step) + 0 /\ 2 * step \in Nat \ {0}
  BY <1>1
<1>3. (o.period * hps) \div (2 * step) = p /\ (o.period * hps) % (2 * step) = 0
  <2>1. PICK a, b : a = o.period * hps /\ b = 2 * step
    OBVIOUS
  <2>2. a \in Nat /\ b \in Nat \ {0} /\ a = b * p + 0 /\ 0 \in 0 .. b - 1
    BY <1>1, <1>2, <2>1
  <2>3. a \div b = p /\ a % b = 0
    BY <1>1, <2>2, DivUnique
  <2>4. QED BY <2>1, <2>3
<1>4. RoundDiv(o.period * hps, 2 * step) = p
  BY <1>2, <1>3 DEF RoundDiv
<1>5. QED BY <1>1, <1>4 DEF TemplateLength

\* An instant is projected active iff the sample that contains it was, whole periods ago,
\* if the period is of whole samples and kept its length on the way through hours, and
\* the request comes in the first half of a sample.
THEOREM FirstHalfRepeats == Spec => []RepeatsFromFirstHalf
<1>1. ASSUME Staged, pc = "done", hps = step, 2 * (offset % step) < step,
             NEW u \in Apps, NEW i \in Horizon,
             HasTemplate(observed[u]), observed[u].period % 2 = 0
      PROVE  forecast[u][i] = SampleBefore(observed[u], observed[u].period \div 2, i)
  <2>1. PICK o \in Observed : o = observed[u]
    BY <1>1 DEF Staged
  <2>2. PICK mask, p : mask = o.mask /\ p = o.period \div 2
    OBVIOUS
  <2>3. PICK n : n = Len(mask)
    OBVIOUS
  <2>4. /\ mask \in Seq(BOOLEAN) /\ p \in Nat /\ p > 0 /\ n \in Nat /\ n > 1 /\ 2 * p <= n
        /\ TemplateLength(o) = p
    <3>1. o \in Timeline /\ o.period <= Len(o.mask)
      BY WindowAssumption
    <3>2. o.mask \in Seq(BOOLEAN) /\ o.period \in Nat
      BY <3>1 DEF Timeline
    <3>3. o.period > 0 /\ n > 1 /\ o.period % 2 = 0
      BY <1>1, <2>1, <2>2, <2>3 DEF HasTemplate
    <3>4. p \in Nat /\ p > 0 /\ 2 * p = o.period
      BY <2>2, <3>2, <3>3
    <3>5. TemplateLength(o) = p
      <4>1. step \in Nat \ {0}
        BY <1>1 DEF Staged, Inv
      <4>2. QED BY <1>1, <2>2, <3>2, <3>3, <4>1, TemplateIsPeriod
    <3>6. Len(mask) \in Nat
      BY <2>2, <3>2
    <3>7. QED BY <2>2, <2>3, <3>1, <3>2, <3>3, <3>4, <3>5, <3>6
  <2>5. PICK t : t = SubSeq(mask, n - p + 1, n)
    OBVIOUS
  <2>6. /\ Fit(o) = t /\ Len(t) = p /\ t # <<>>
        /\ \A j \in 1 .. p : t[j] = mask[n - p + j]
    <3>1. Fit(o) = t
      <4>1. HasTemplate(o)
        BY <1>1, <2>1
      <4>2. QED BY <2>2, <2>3, <2>4, <2>5, <4>1, Zenon DEF Fit
    <3>2. Len(t) = p /\ \A j \in 1 .. p : t[j] = mask[n - p + 1 + j - 1]
      <4>1. mask \in Seq(BOOLEAN) /\ p \in Nat /\ n \in Nat /\ n = Len(mask) /\ p > 0 /\ p <= n
        BY <2>3, <2>4
      <4>2. n - p + 1 \in 1 .. Len(mask) + 1 /\ n \in 0 .. Len(mask) /\ n - (n - p + 1) + 1 = p
        BY <4>1
      <4>3. QED BY <2>5, <4>1, <4>2, SubSeqProperties
    <3>3. t # <<>>
      BY <2>4, <3>2
    <3>4. QED BY <2>4, <3>1, <3>2, <3>3
  <2>7. /\ i \in Nat /\ step \in Nat \ {0} /\ offset \in Nat /\ samples \in Nat
    BY <1>1 DEF Staged, Inv, Horizon
  <2>8. PICK d \in Nat : d = offset \div step
    BY <2>7, SamplesAhead
  <2>9. PICK back \in Nat : back = (p - 1 + (i + d)) % p /\ back < p
    <3>1. p - 1 + (i + d) \in Nat /\ p \in Nat \ {0}
      BY <2>4, <2>7
    <3>2. QED BY <3>1, DivMod
  <2>10. SampleBefore(o, p, i) = mask[n - p + 1 + back]
    <3>1. (offset + i * step) \div step = i + d
      <4>1. (i * step + offset) \div step = i + d
        <5>1. \A k \in Nat, s \in Nat \ {0}, e \in Nat : (k * s + e) \div s = k + (e \div s)
          <6>1. ASSUME NEW k \in Nat, NEW s \in Nat \ {0}, NEW e \in Nat
                PROVE  (k * s + e) \div s = k + (e \div s)
            BY SamplesAhead, Zenon
          <6>2. QED BY <6>1
        <5>2. (i * step + offset) \div step = i + (offset \div step)
          BY <2>7, <5>1
        <5>3. QED BY <2>8, <5>2
      <4>2. i * step + offset = offset + i * step
        <5>1. i * step \in Nat
          BY <2>7
        <5>2. QED BY <2>7, <5>1
      <4>3. QED BY <4>1, <4>2
    <3>2. QED BY <2>2, <2>3, <2>9, <3>1 DEF SampleBefore
  <2>11. RoundDiv((p - 1 + i) * step + offset, step) = p - 1 + (i + d)
    <3>1. PICK k \in Nat : k = p - 1 + i
      BY <2>4, <2>7
    <3>2. RoundDiv(k * step + offset, step) = k + d
      BY <1>1, <2>7, <2>8, SamplesAhead
    <3>3. QED BY <2>4, <2>7, <3>1, <3>2
  <2>12. Project(o, i) = t[back + 1]
    <3>1. t[back + 1] \in BOOLEAN
      <4>1. n - p + (back + 1) \in 1 .. n /\ t[back + 1] = mask[n - p + (back + 1)]
        BY <2>4, <2>6, <2>9
      <4>2. QED BY <2>3, <2>4, <4>1
    <3>2. Project(o, i) = (t = <<>> \/ t[(RoundDiv((Len(t) - 1 + i) * step + offset, step) % Len(t)) + 1])
      BY <2>6, Zenon DEF Project
    <3>3. Project(o, i) = (t = <<>> \/ t[back + 1])
      BY <2>6, <2>9, <2>11, <3>2
    <3>4. QED BY <2>6, <3>1, <3>3
  <2>13. t[back + 1] = mask[n - p + 1 + back]
    BY <2>4, <2>6, <2>9
  <2>14. forecast[u][i] = Project(o, i)
    BY <1>1, <2>1 DEF Staged
  <2>15. QED BY <2>1, <2>2, <2>10, <2>12, <2>13, <2>14
<1>2. Staged => RepeatsFromFirstHalf
  BY <1>1 DEF RepeatsFromFirstHalf, Repeats
<1>3. QED BY <1>2, StagedKept, PTL
-----------------------------------------------------------------------------
(* What a result says of its window.                                       *)

\* Max of numbers up to a bound is one of them, and none exceeds it.
LEMMA MaxIs ==
  ASSUME NEW B \in Nat, NEW S \in SUBSET (0 .. B), S # {}
  PROVE  Max(S) \in S /\ \A y \in S : Max(S) >= y
<1> DEFINE Below == {k \in Nat : \E y \in S : k = B - y}
<1>1. Below # {}
  <2>1. PICK y \in S : TRUE
    OBVIOUS
  <2>2. B - y \in Below
    BY <2>1
  <2>3. QED BY <2>2
<1>2. PICK m \in Below : \A k \in Below : m <= k
  <2>1. Below \in SUBSET Nat
    OBVIOUS
  <2> HIDE DEF Below
  <2>2. QED BY <1>1, <2>1, LeastNumber
<1>3. PICK x \in S : m = B - x
  OBVIOUS
<1>4. \A y \in S : x >= y
  <2> SUFFICES ASSUME NEW y \in S PROVE x >= y
    OBVIOUS
  <2>1. B - y \in Below
    OBVIOUS
  <2>2. m <= B - y
    BY <1>2, <2>1
  <2>3. QED BY <1>3, <2>2
<1>5. \E z \in S : \A y \in S : z >= y
  BY <1>4
<1>6. QED BY <1>5, Zenon DEF Max

\* Order of instants is order of samples.
LEMMA InstantOrder ==
  ASSUME NEW a \in Nat, NEW b \in Nat, NEW s \in Nat \ {0}
  PROVE  a * s <= b * s <=> a <= b
<1>1. CASE a <= b
  <2>1. (b - a) * s >= 0 /\ (b - a) * s = b * s - a * s
    BY <1>1
  <2>2. b * s \in Nat /\ a * s \in Nat
    OBVIOUS
  <2>3. QED BY <1>1, <2>1, <2>2
<1>2. CASE ~(a <= b)
  <2>1. (a - b) * s > 0 /\ (a - b) * s = a * s - b * s
    BY <1>2
  <2>2. b * s \in Nat /\ a * s \in Nat
    OBVIOUS
  <2>3. QED BY <1>2, <2>1, <2>2
<1>3. QED BY <1>1, <1>2

\* An instant is inside an evidence window iff it is active.
LEMMA Covered ==
  ASSUME samples \in Nat, step \in Nat \ {0}, NEW f, NEW i \in Horizon
  PROVE  (\E w \in WindowsFromMask(f) : w.start <= i * step /\ i * step <= w.end) <=> f[i]
<1> DEFINE Run(q) == /\ q[1] <= q[2] /\ \A k \in q[1] .. q[2] : f[k]
                     /\ q[1] > 0 => ~f[q[1] - 1]
                     /\ q[2] < samples - 1 => ~f[q[2] + 1]
<1>0. i \in Nat /\ i < samples /\ Horizon \subseteq Nat /\ \A k \in Nat : k \in Horizon <=> k < samples
  BY DEF Horizon
<1>1. WindowsFromMask(f) = {[start |-> p[1] * step, end |-> p[2] * step] : p \in {q \in Horizon \X Horizon : Run(q)}}
  BY Zenon DEF WindowsFromMask
<1>2. ASSUME NEW w \in WindowsFromMask(f), w.start <= i * step, i * step <= w.end
      PROVE  f[i]
  <2>1. PICK p \in {q \in Horizon \X Horizon : Run(q)} : w = [start |-> p[1] * step, end |-> p[2] * step]
    BY <1>1, <1>2, Zenon
  <2>2. /\ p[1] \in Nat /\ p[2] \in Nat /\ \A k \in p[1] .. p[2] : f[k]
        /\ w.start = p[1] * step /\ w.end = p[2] * step
    BY <1>0, <2>1
  <2>3. p[1] <= i /\ i <= p[2]
    BY <1>0, <1>2, <2>2, InstantOrder
  <2>4. QED BY <1>0, <2>2, <2>3
<1>3. ASSUME f[i]
      PROVE  \E w \in WindowsFromMask(f) : w.start <= i * step /\ i * step <= w.end
  <2> DEFINE First == {a \in Nat : a <= i /\ \A k \in a .. i : f[k]}
             After == {e \in Nat : e > i /\ (e = samples \/ ~f[e])}
  <2>1. PICK a \in First : \A b \in First : a <= b
    <3>1. i \in First
      BY <1>0, <1>3
    <3>2. First \in SUBSET Nat /\ First # {}
      BY <3>1
    <3> HIDE DEF First
    <3>3. QED BY <3>2, LeastNumber
  <2>2. PICK e \in After : \A b \in After : e <= b
    <3>1. samples \in After
      BY <1>0
    <3>2. After \in SUBSET Nat /\ After # {}
      BY <3>1
    <3> HIDE DEF After
    <3>3. QED BY <3>2, LeastNumber
  <2>3. a \in Nat /\ a <= i /\ \A k \in a .. i : f[k]
    BY <2>1
  <2>4. e \in Nat /\ e > i /\ (e = samples \/ ~f[e]) /\ e <= samples
    <3>1. samples \in After
      BY <1>0
    <3>2. QED BY <2>2, <3>1
  <2>5. \A k \in Nat : k > i /\ k < e => f[k]
    <3> SUFFICES ASSUME NEW k \in Nat, k > i, k < e, ~f[k] PROVE FALSE
      OBVIOUS
    <3>1. k \in After
      OBVIOUS
    <3> HIDE DEF After
    <3>2. QED BY <2>2, <2>4, <3>1
  <2>6. a > 0 => ~f[a - 1]
    <3> SUFFICES ASSUME a > 0, f[a - 1] PROVE FALSE
      OBVIOUS
    <3>1. a - 1 \in Nat /\ a - 1 <= i
      BY <1>0, <2>3
    <3>2. \A k \in (a - 1) .. i : f[k]
      BY <1>0, <2>3
    <3>3. a - 1 \in First
      BY <3>1, <3>2
    <3> HIDE DEF First
    <3>4. QED BY <2>1, <2>3, <3>3
  <2>7. PICK p : p = <<a, e - 1>>
    OBVIOUS
  <2>8. p \in Horizon \X Horizon /\ p[1] = a /\ p[2] = e - 1 /\ e - 1 \in Nat
    BY <1>0, <2>3, <2>4, <2>7
  <2>9. Run(p)
    <3>1. p[1] <= p[2] /\ \A k \in p[1] .. p[2] : f[k]
      BY <1>0, <2>3, <2>4, <2>5, <2>8
    <3>2. p[2] < samples - 1 => ~f[p[2] + 1]
      <4>1. p[2] + 1 = e
        BY <2>4, <2>8
      <4>2. p[2] < samples - 1 => e # samples
        BY <2>4, <2>8
      <4>3. e # samples => ~f[e]
        BY <2>4, Zenon
      <4>4. QED BY <4>1, <4>2, <4>3, Zenon
    <3>3. QED BY <2>6, <2>8, <3>1, <3>2
  <2>10. [start |-> p[1] * step, end |-> p[2] * step] \in WindowsFromMask(f)
    <3> HIDE DEF Run
    <3>1. p \in {q \in Horizon \X Horizon : Run(q)}
      BY <2>8, <2>9
    <3>2. QED BY <1>1, <3>1, Zenon
  <2>11. p[1] * step <= i * step /\ i * step <= p[2] * step
    BY <1>0, <2>3, <2>4, <2>8, InstantOrder
  <2>12. QED BY <2>10, <2>11
<1>4. QED BY <1>2, <1>3

\* What a result says of its window in four places is one and the same: the named
\* workloads, the impacts, the evidence windows and the confidence.
THEOREM OneStory == Spec => []SummaryMatchesEvidence
<1>1. ASSUME Staged, pc = "done"
      PROVE  LET Scored == {i * step : i \in pick.start .. pick.start + window - 1}
                 Covers(u, t) == \E w \in result.windows[u] : w.start <= t /\ t <= w.end
             IN  /\ result.named = {u \in Apps : \E t \in Scored : Covers(u, t)}
                 /\ result.named \ {target} = {u \in Apps : result.added[u] > 0}
                 /\ (result.confidence = "high" <=>
                      \A t \in Scored : \A u, v \in Apps : Covers(u, t) /\ Covers(v, t) => u = v)
  <2>1. PICK W : W = pick.start .. pick.start + window - 1
    OBVIOUS
  <2> DEFINE Scored == {i * step : i \in W}
             Covers(u, t) == \E w \in result.windows[u] : w.start <= t /\ t <= w.end
  <2>2. /\ samples \in Nat /\ window \in Nat \ {0} /\ step \in Nat \ {0}
        /\ pick.start \in 0 .. samples - window
        /\ result.added = [u \in Apps |-> IF u = target THEN 0 ELSE Added(u)]
        /\ result.windows = [u \in Apps |-> WindowsFromMask(forecast[u])]
        /\ result.confidence = Confidence(pick.peak) /\ result.named = Named
        /\ pick.peak = Max({Score(i) : i \in W})
    BY <1>1, <2>1 DEF Staged, Inv
  <2>3. IsFiniteSet(W) /\ W # {} /\ W \subseteq Horizon /\ IsFiniteSet(Apps)
    <3>1. pick.start \in Int /\ pick.start + window - 1 \in Int
      BY <2>2
    <3>2. IsFiniteSet(W)
      BY <2>1, <3>1, FS_Interval
    <3>3. pick.start \in W
      BY <2>1, <2>2
    <3>4. W \subseteq Horizon
      BY <2>1, <2>2 DEF Horizon
    <3>5. QED BY <3>2, <3>3, <3>4, WindowAssumption
  <2>4. ASSUME NEW u \in Apps, NEW i \in W PROVE Covers(u, i * step) <=> forecast[u][i]
    <3>1. i \in Horizon
      BY <2>3
    <3>2. (\E w \in WindowsFromMask(forecast[u]) : w.start <= i * step /\ i * step <= w.end) <=> forecast[u][i]
      BY <2>2, <3>1, Covered
    <3>3. result.windows[u] = WindowsFromMask(forecast[u])
      BY <2>2
    <3>4. QED BY <3>2, <3>3
  <2>5. ASSUME NEW u \in Apps PROVE Added(u) > 0 <=> \E i \in W : forecast[u][i]
    <3>1. Added(u) = Cardinality({i \in W : forecast[u][i]})
      BY <2>1 DEF Added
    <3>2. PICK A : A = {i \in W : forecast[u][i]}
      OBVIOUS
    <3>3. IsFiniteSet(A)
      BY <2>3, <3>2, FS_Subset
    <3>4. Cardinality(A) \in Nat /\ (Cardinality(A) = 0 <=> A = {})
      BY <3>3, FS_CardinalityType, FS_EmptySet
    <3>5. QED BY <3>1, <3>2, <3>4
  <2>6. ASSUME NEW i \in W
        PROVE  /\ Score(i) \in 0 .. Cardinality(Apps)
               /\ Score(i) > 0 <=> \E u \in Apps : forecast[u][i]
               /\ Score(i) <= 1 <=> \A u, v \in Apps : forecast[u][i] /\ forecast[v][i] => u = v
    <3>1. PICK A : A = {u \in Apps : forecast[u][i]}
      OBVIOUS
    <3>2. Score(i) = Cardinality(A)
      BY <3>1 DEF Score
    <3>3. IsFiniteSet(A) /\ Cardinality(A) <= Cardinality(Apps)
      BY <2>3, <3>1, FS_Subset
    <3>4. /\ Cardinality(A) \in Nat /\ Cardinality(Apps) \in Nat
          /\ (Cardinality(A) = 0 <=> A = {}) /\ (Cardinality(A) = 1 <=> \E x : A = {x})
      BY <2>3, <3>3, FS_CardinalityType, FS_EmptySet, FS_Singleton
    <3>5. (A = {} \/ \E x : A = {x}) <=> \A u, v \in A : u = v
      OBVIOUS
    <3>6. Score(i) \in 0 .. Cardinality(Apps) /\ (Score(i) > 0 <=> A # {})
      BY <3>2, <3>3, <3>4
    <3>7. Score(i) <= 1 <=> \A u, v \in A : u = v
      <4>1. Score(i) <= 1 <=> Cardinality(A) = 0 \/ Cardinality(A) = 1
        BY <3>2, <3>4
      <4>2. QED BY <3>4, <3>5, <4>1, Zenon
    <3>8. QED BY <3>1, <3>6, <3>7
  <2>7. /\ pick.peak \in Nat
        /\ pick.peak <= 1 <=> \A i \in W : Score(i) <= 1
        /\ pick.peak = 0 => \A i \in W : ~(Score(i) > 0)
    <3>1. PICK B, S : B = Cardinality(Apps) /\ S = {Score(i) : i \in W}
      OBVIOUS
    <3>2. B \in Nat
      BY <2>3, <3>1, FS_CardinalityType
    <3>3. S \in SUBSET (0 .. B) /\ S # {} /\ \A i \in W : Score(i) \in S
      BY <2>3, <2>6, <3>1
    <3>4. Max(S) \in S /\ \A y \in S : Max(S) >= y
      BY <3>2, <3>3, MaxIs
    <3>5. pick.peak \in S /\ (\A y \in S : pick.peak >= y) /\ S \subseteq 0 .. B
      BY <2>2, <3>1, <3>3, <3>4
    <3>6. PICK j \in W : pick.peak = Score(j)
      BY <3>1, <3>5
    <3>7. ASSUME NEW i \in W PROVE Score(i) \in Nat /\ pick.peak >= Score(i)
      <4>1. Score(i) \in S
        BY <3>3
      <4>2. PICK y : y = Score(i)
        OBVIOUS
      <4>3. y \in S /\ y \in 0 .. B
        BY <3>5, <4>1, <4>2
      <4>4. QED BY <3>2, <3>5, <4>2, <4>3
    <3>8. pick.peak \in Nat
      <4>1. pick.peak = Score(j) /\ Score(j) \in Nat
        BY <3>6, <3>7
      <4>2. QED BY <4>1
    <3>9. QED BY <3>6, <3>7, <3>8
  <2>8. Named = {u \in Apps : \E i \in W : forecast[u][i]}
    <3>1. CASE pick.peak = 0
      <4>1. {u \in Apps : \E i \in W : forecast[u][i]} = {}
        BY <2>6, <2>7, <3>1
      <4>2. QED BY <3>1, <4>1 DEF Named
    <3>2. CASE pick.peak # 0
      <4>1. Named = {u \in Apps : Added(u) > 0}
        BY <3>2 DEF Named
      <4>2. QED BY <2>5, <4>1
    <3>3. QED BY <3>1, <3>2
  <2>9. \A u \in Apps : (\E t \in Scored : Covers(u, t)) <=> \E i \in W : forecast[u][i]
    <3> HIDE DEF Covers
    <3>1. QED BY <2>4
  <2>10. result.named = {u \in Apps : \E t \in Scored : Covers(u, t)}
    <3> HIDE DEF Covers, Scored
    <3>1. QED BY <2>2, <2>8, <2>9
  <2>11. result.named \ {target} = {u \in Apps : result.added[u] > 0}
    <3>1. ASSUME NEW u \in Apps PROVE result.added[u] > 0 <=> u # target /\ \E i \in W : forecast[u][i]
      <4>1. result.added[u] = IF u = target THEN 0 ELSE Added(u)
        BY <2>2
      <4>2. QED BY <2>5, <4>1
    <3>2. QED BY <2>2, <2>8, <3>1
  <2>12. result.confidence = "high" <=>
           \A t \in Scored : \A u, v \in Apps : Covers(u, t) /\ Covers(v, t) => u = v
    <3>1. result.confidence = "high" <=> pick.peak <= 1
      BY <2>2, <2>7 DEF Confidence
    <3>2. (\A t \in Scored : \A u, v \in Apps : Covers(u, t) /\ Covers(v, t) => u = v) <=>
            \A i \in W : \A u, v \in Apps : forecast[u][i] /\ forecast[v][i] => u = v
      <4> HIDE DEF Covers
      <4>1. QED BY <2>4
    <3>3. QED BY <2>6, <2>7, <3>1, <3>2
  <2>13. QED BY <2>1, <2>10, <2>11, <2>12
<1>2. Staged => SummaryMatchesEvidence
  BY <1>1 DEF SummaryMatchesEvidence
<1>3. QED BY <1>2, StagedKept, PTL
=============================================================================
