------------------------------ MODULE Signals ------------------------------
(***************************************************************************)
(* The analysis core and the job head on one workload: from the aligned    *)
(* series of its resources to the signal (analyze_signal) or the timeline  *)
(* (detect_timeline), and from a signal to a card.                         *)
(*                                                                         *)
(* A series has whole numbers of some unit at the instants 1 .. n.  What   *)
(* detect_period and STL find in it is an input: a whole period of at most *)
(* half the series, or 0 for None, and a strength in half points of the    *)
(* confidence (0: below 0.30, 2: from 0.60 on).  Thresholds are percents;  *)
(* quotients are compared by cross-multiplication.                         *)
(***************************************************************************)
EXTENDS Integers, Sequences, FiniteSets

CONSTANTS
  Resources,  \* cfg.resources
  cpu,        \* the one that is preferred on a card
  Inputs,     \* what may be stored of a workload, and found in it
  Configs,    \* thresholds that settings or a request may give
  Others,     \* signals of other workloads: callers and callees
  None        \* Python's None

\* What detect_period may find in n samples: nothing, or a period of at most half of them.
Findable(n) == IF n < 4 THEN {0} ELSE 0 .. n \div 2

\* What confidence and the seasonality gate tell apart of a seasonal strength.
Strengths == 0 .. 2

\* The thresholds that settings and requests may change.
Thresholds == [min_period : Nat, strength : Strengths, band : Nat, jump_min : Nat, ratio_max : Nat]

ASSUME SignalAssumption ==
  /\ IsFiniteSet(Resources) /\ cpu \in Resources
  /\ \A x \in Inputs :
       LET n == Len(x.values[cpu])
       IN  /\ n \in Nat \ {0} /\ x.values \in [Resources -> [1 .. n -> Nat]]
           /\ x.found \in [Resources -> Findable(n)]
           /\ x.strength \in [Resources -> Strengths]
  /\ Configs \subseteq Thresholds
  /\ None \notin [period : Nat, kept : SUBSET Resources, active : Seq(BOOLEAN)]

\* The thresholds that nothing changes, as percents.
period_tolerance == 25
union_max == 50
overlap_min == 5
peer_overlap_min == 50
adhoc_min == 50
residual_baseline_max == 25

VARIABLES
  pc,        \* "analyze", "detect", "build", "done" or "raised"
  input, cfg,
  signal,    \* what analyze_signal returns
  timeline,  \* what detect_timeline returns
  card       \* what build_recommendation returns, for a neighbour that calls and is called

vars == <<pc, input, cfg, signal, timeline, card>>

Length == Len(input.values[cpu])
Instants == 1 .. Length

-----------------------------------------------------------------------------
(* Statistics.                                                             *)

\* The sum of a series over some instants.
SumOver(f, S) ==
  LET total[i \in 0 .. Len(f)] ==
        IF i = 0 THEN 0 ELSE IF i \in S THEN total[i - 1] + f[i] ELSE total[i - 1]
  IN  total[Len(f)]

\* The k-th smallest of the values that f has on S.
Ranked(f, S, k) ==
  CHOOSE v \in {f[j] : j \in S} :
    /\ Cardinality({j \in S : f[j] < v}) < k
    /\ k <= Cardinality({j \in S : f[j] <= v})

\* Twice the median: the median of an even number of values is the mean of two.
TwiceMedian(f, S) ==
  LET k == Cardinality(S)
  IN  Ranked(f, S, (k + 1) \div 2) + Ranked(f, S, k \div 2 + 1)

-----------------------------------------------------------------------------
(* Stages 1 and 2: the period, counted in half samples since it is a       *)
(* median, and the resources that have it.                                 *)

Periodic(x, c) == {r \in Resources : x.found[r] > 0 /\ x.found[r] >= c.min_period}

Agrees(p, consensus) ==
  100 * (IF 2 * p > consensus THEN 2 * p - consensus ELSE consensus - 2 * p)
    <= period_tolerance * consensus

\* consolidate_period; 0 for None.
Consensus(x, c) ==
  LET S == Periodic(x, c)
      median == TwiceMedian(x.found, S)
  IN  IF S # {} /\ \A r \in S : Agrees(x.found[r], median) THEN median ELSE 0

\* resources_within_tolerance, then the seasonality gate.
Seasonal(x, c) ==
  {r \in Periodic(x, c) : Agrees(x.found[r], Consensus(x, c)) /\ x.strength[r] >= c.strength}

-----------------------------------------------------------------------------
(* Stage 3: active and idle.                                               *)

\* Mutant: the window trails the instant.
AroundTrailing(i, n, width) == {j \in 1 .. n : j <= i /\ j > i - width}

\* The instants of the centered rolling window around i.
Around(i, n, width) ==
  LET ahead == (width - 1) \div 2
  IN  {j \in 1 .. n : j <= i + ahead /\ j > i + ahead - width}

\* classify: active where the value exceeds the band around the median of two periods.
Classify(values, period, band) ==
  LET width == IF period > 3 THEN period ELSE 3
  IN  [i \in DOMAIN values |->
         200 * values[i] > (100 + band) * TwiceMedian(values, Around(i, Len(values), width))]

\* The runs of TRUE that have ended, as <<first, last>>, and where the open one began.
NextRuns(s, mask, i) ==
  IF mask[i] /\ s.start = 0 THEN [s EXCEPT !.start = i]
  ELSE IF ~mask[i] /\ s.start # 0
  THEN [ended |-> Append(s.ended, <<s.start, i - 1>>), start |-> 0] ELSE s

Runs(mask) ==
  LET after[i \in 0 .. Len(mask)] ==
        IF i = 0 THEN [ended |-> <<>>, start |-> 0] ELSE NextRuns(after[i - 1], mask, i)
  IN  after[Len(mask)]

ContiguousTrue(mask) ==
  LET runs == Runs(mask)
  IN  IF runs.start = 0 THEN runs.ended ELSE Append(runs.ended, <<runs.start, Len(mask)>>)

ActiveSet(mask) == {i \in DOMAIN mask : mask[i]}

-----------------------------------------------------------------------------
(* Stage 4 and 5: filters and aggregation.                                 *)

\* peak_load_jump_pct as a fraction of which the denominator may be 0, for infinity.
Jump(values, mask) ==
  LET A == ActiveSet(mask)
      I == (DOMAIN mask) \ A
      a == SumOver(values, A) * Cardinality(I)
      b == SumOver(values, I) * Cardinality(A)
  IN  IF A = {} \/ I = {} THEN [num |-> 0, den |-> 1]
      ELSE IF b = 0 THEN IF a > 0 THEN [num |-> 1, den |-> 0] ELSE [num |-> 0, den |-> 1]
      ELSE [num |-> 100 * (a - b), den |-> b]

AtLeast(jump, pct) == jump.num >= pct * jump.den

\* Mutant: the mean of all samples is the baseline.
BaselineOfAll(values, mask) ==
  LET A == ActiveSet(mask)
      I == DOMAIN mask
  IN  100 * SumOver(values, I) * Cardinality(A) >
        residual_baseline_max * SumOver(values, A) * Cardinality(I)

\* baseline_ratio > residual_baseline_max.
Baseline(values, mask) ==
  LET A == ActiveSet(mask)
      I == (DOMAIN mask) \ A
  IN  /\ A # {} /\ I # {} /\ SumOver(values, A) > 0
      /\ 100 * SumOver(values, I) * Cardinality(A) >
           residual_baseline_max * SumOver(values, A) * Cardinality(I)

Union(masks) == [i \in Instants |-> \E r \in DOMAIN masks : masks[r][i]]
Common(masks) == {i \in Instants : \A r \in DOMAIN masks : masks[r][i]}

\* overlap_frac >= pct; 0 if nothing is active.
Overlaps(masks, pct) ==
  LET U == ActiveSet(Union(masks))
  IN  IF U = {} THEN 0 >= pct ELSE 100 * Cardinality(Common(masks)) >= pct * Cardinality(U)

\* Mutant: the filter passes masks that have nothing in common to measure.
QualifiesEmpty(masks, c) ==
  LET U == ActiveSet(Union(masks))
      idle == Length - Cardinality(U)
  IN  /\ idle > 0 /\ 100 * Cardinality(U) < c.ratio_max * idle
      /\ 100 * Cardinality(U) < union_max * Length
      /\ U # {} => Overlaps(masks, overlap_min)

\* The three filters on the workload: usage_ratio, union_frac and overlap_frac.
Qualifies(masks, c) ==
  LET U == ActiveSet(Union(masks))
      idle == Length - Cardinality(U)
  IN  /\ idle > 0 /\ 100 * Cardinality(U) < c.ratio_max * idle
      /\ 100 * Cardinality(U) < union_max * Length
      /\ Overlaps(masks, overlap_min)

Masks(x, c, kept) ==
  [r \in kept |-> Classify(x.values[r], Consensus(x, c), c.band)]

\* analyze_signal, from the aligned series on.
Signal(x, c) ==
  LET seasonal == Seasonal(x, c)
      kept == {r \in seasonal : AtLeast(Jump(x.values[r], Masks(x, c, seasonal)[r]), c.jump_min)}
      masks == Masks(x, c, kept)
  IN  IF Consensus(x, c) # 0 /\ kept # {} /\ Qualifies(masks, c)
      THEN [period |-> Consensus(x, c), kept |-> kept, masks |-> masks, active |-> Union(masks)]
      ELSE None

\* Mutant: the timeline is what all resources have in common.
TimelineCommon(x, c) ==
  LET kept == Seasonal(x, c)
      common == Common(Masks(x, c, kept))
  IN  IF Consensus(x, c) # 0 /\ kept # {}
      THEN [period |-> Consensus(x, c), kept |-> kept, active |-> [i \in Instants |-> i \in common]]
      ELSE None

\* detect_timeline.
Timeline(x, c) ==
  LET kept == Seasonal(x, c)
  IN  IF Consensus(x, c) # 0 /\ kept # {}
      THEN [period |-> Consensus(x, c), kept |-> kept, active |-> Union(Masks(x, c, kept))]
      ELSE None

-----------------------------------------------------------------------------
(* Neighbours: another signal is seen on the instants both have.           *)

SharesPeriod(a, b) ==
  100 * (IF a > b THEN a - b ELSE b - a) <= period_tolerance * a

Both(mask, other) == DOMAIN mask \cap DOMAIN other

\* Mutant: containment in the smaller mask counts as alignment.
WindowsAlignLoose(mask, other) ==
  LET T == ActiveSet(mask) \cap Both(mask, other)
      S == ActiveSet(other) \cap Both(mask, other)
  IN  T \cap S # {} /\ (T \subseteq S \/ S \subseteq T)

\* windows_align: the Jaccard overlap.
WindowsAlign(mask, other) ==
  LET T == ActiveSet(mask) \cap Both(mask, other)
      S == ActiveSet(other) \cap Both(mask, other)
  IN  T \cup S # {} /\ 100 * Cardinality(T \cap S) >= peer_overlap_min * Cardinality(T \cup S)

\* adhoc_overlap >= min_frac: the caller is active mostly while the workload is idle.
Adhoc(mask, other) ==
  LET T == ActiveSet(mask)
      S == ActiveSet(other) \cap Both(mask, other)
  IN  S # {} /\ 100 * Cardinality(S \ T) >= adhoc_min * Cardinality(S)

-----------------------------------------------------------------------------
(* Stage 6: the card.                                                      *)

\* cpu if it was kept, or a resource of the largest jump.
Primary(s, jumps) ==
  IF cpu \in s.kept THEN cpu
  ELSE CHOOSE r \in s.kept : \A q \in s.kept :
         jumps[q].num * jumps[r].den <= jumps[r].num * jumps[q].den

choose_target(adhoc, baseline, windows) ==
  IF adhoc THEN "Knative" ELSE IF baseline THEN "KEDA"
  ELSE IF Len(windows) <= 1 THEN "Job" ELSE "CronJob"

\* In half points.
Points(full, half) == IF full THEN 2 ELSE IF half THEN 1 ELSE 0

confidence(strength, s, jump, jump_min) ==
  LET score == strength + (IF Cardinality(s.kept) > 1 THEN 2 ELSE 0)
               + Points(Overlaps(s.masks, 50), Overlaps(s.masks, 5))
               + Points(AtLeast(jump, 3 * jump_min), AtLeast(jump, jump_min))
  IN  IF score >= 6 THEN "high" ELSE IF score >= 3 THEN "medium" ELSE "low"

\* The card for a neighbour o with edges in both directions, or without any.
Card(s, o) ==
  LET jumps == [r \in s.kept |-> Jump(input.values[r], s.masks[r])]
      p == Primary(s, jumps)
      windows == ContiguousTrue(s.active)
      adhoc == o # None /\ Adhoc(s.active, o.active)
  IN  [target |-> choose_target(adhoc, Baseline(input.values[p], s.masks[p]), windows),
       confidence |-> confidence(input.strength[p], s, jumps[p], cfg.jump_min),
       jump |-> jumps[p],
       idle |-> Length - Cardinality(ActiveSet(s.active)),
       windows |-> windows,
       other |-> o,
       peer |-> o # None /\ SharesPeriod(s.period, o.period) /\ WindowsAlign(s.active, o.active)]

-----------------------------------------------------------------------------
Init ==
  /\ pc = "analyze"
  /\ input \in Inputs /\ cfg \in Configs
  /\ signal = None /\ timeline = None /\ card = None

\* signal_for.
AnalyzeSignal ==
  /\ pc = "analyze"
  /\ signal' = Signal(input, cfg)
  /\ pc' = "detect"
  /\ UNCHANGED <<input, cfg, timeline, card>>

\* build_forecasts, in a maintenance run on the same data.
DetectTimeline ==
  /\ pc = "detect"
  /\ timeline' = Timeline(input, cfg)
  /\ pc' = IF signal = None THEN "done" ELSE "build"
  /\ UNCHANGED <<input, cfg, signal, card>>

\* build_recommendation: max() of no windows raises.
BuildCard ==
  /\ pc = "build"
  /\ IF ActiveSet(signal.active) = {}
     THEN pc' = "raised" /\ UNCHANGED card
     ELSE /\ pc' = "done"
          /\ \E o \in Others \cup {None} : card' = Card(signal, o)
  /\ UNCHANGED <<input, cfg, signal, timeline>>

Next == AnalyzeSignal \/ DetectTimeline \/ BuildCard

Spec == Init /\ [][Next]_vars

-----------------------------------------------------------------------------
Mask == [Instants -> BOOLEAN]

TypeOK ==
  /\ pc \in {"analyze", "detect", "build", "done", "raised"}
  /\ input.found \in [Resources -> Findable(Length)] /\ cfg \in Thresholds
  /\ signal = None \/ /\ signal.period \in 1 .. Length /\ signal.kept \in (SUBSET Resources) \ {{}}
                      /\ signal.masks \in [signal.kept -> Mask] /\ signal.active \in Mask
  /\ timeline = None \/ /\ timeline.period \in 1 .. Length /\ timeline.active \in Mask
                        /\ timeline.kept \in (SUBSET Resources) \ {{}}
  /\ card = None \/ /\ card.target \in {"Knative", "KEDA", "Job", "CronJob"}
                    /\ card.confidence \in {"high", "medium", "low"}
                    /\ card.idle \in Nat /\ card.windows \in Seq(Instants \X Instants)

\* A workload with a card also has a timeline in a maintenance run on the same data, of
\* the same period and active whenever the card says so: detect_timeline only leaves the
\* job head's filters out.
SignalHasTimeline ==
  pc \in {"build", "done"} /\ signal # None =>
    /\ timeline # None /\ timeline.period = signal.period
    /\ signal.kept \subseteq timeline.kept
    /\ ActiveSet(signal.active) \subseteq ActiveSet(timeline.active)

\* Whatever thresholds a request gives, what passes the filters has an active window to
\* put on the card and some idle time to save: build_recommendation never raises.
CardHasWindow ==
  /\ pc # "raised"
  /\ card # None => card.windows # <<>> /\ card.idle > 0

\* Two stages judge the same peak, from the jump and from the baseline: a card that shows
\* a jump of 300 percent never calls for KEDA because of a residual baseline.
TierFitsJump ==
  card # None /\ card.target = "KEDA" => ~AtLeast(card.jump, 300)

\* A card does not say of one neighbour that it peaks at the same time and that it calls
\* in idle time, but for the tie: half of its activity is the whole of the workload's.
PeerOrAdhoc ==
  card # None /\ card.peer /\ card.target = "Knative" =>
    LET T == ActiveSet(signal.active) \cap Both(signal.active, card.other.active)
        S == ActiveSet(card.other.active) \cap Both(signal.active, card.other.active)
    IN  T \subseteq S /\ Cardinality(S) = 2 * Cardinality(T)

\* However short the series, and in its first and last period too: where a workload
\* repeats itself and a sample is above the band around more than two thirds of its
\* period, the timeline marks it active.  A workload that is up for longer fills the
\* windows that the ends of the series cut short, and sets the trend by itself.
BusyIsMarked ==
  timeline # None =>
    \A r \in timeline.kept :
      LET v == input.values[r]  p == input.found[r]
      IN  timeline.period = 2 * p /\ (\A i \in 1 .. Length - p : v[i] = v[i + p]) =>
            \A i \in Instants :
              3 * Cardinality({j \in 1 .. p : 100 * v[i] <= (100 + cfg.band) * v[j]}) < p
                => timeline.active[i]
=============================================================================
