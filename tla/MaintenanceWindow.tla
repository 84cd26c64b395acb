------------------------- MODULE MaintenanceWindow -------------------------
(***************************************************************************)
(* The maintenance recommender from the request to the recommended window: *)
(* the headroom check, the grid of future instants, SeasonalNaive's        *)
(* projection of each workload's active mask, the score of each instant,   *)
(* the choice of the window, and what the result says of it.               *)
(*                                                                         *)
(* Time is counted in ticks from the moment of the request (now = 0); a    *)
(* sample of the observed masks spans `step` ticks (resample_freq), and    *)
(* the last of them begins `offset` ticks before now.  How long a sample   *)
(* is, the runner and detect_timeline each read off resample_freq by       *)
(* themselves (`width`, `hps`), and take an hour where they cannot.        *)
(***************************************************************************)
EXTENDS Integers, Sequences, FiniteSets, FiniteSetsExt, Functions

CONSTANTS
  Apps,          \* the workloads of the run: the target and its dependents
  target,
  Steps,         \* resample_freq, in ticks
  Fallback,      \* 60 minutes: what a resample_freq that is not understood is taken for
  MaxDuration,   \* bound: ticks of the requested duration
  MaxDeadline,   \* bound: ticks from now to the deadline
  MaxOffset,     \* bound: ticks from the last observed sample to now
  Observed       \* what detect_timeline may return

\* detect_timeline: an active mask and its period in half samples, as the median of two
\* may be; period 0 stands for None, no timeline.  Detection looks for periods of at
\* most half the mask.
Timeline == [mask : Seq(BOOLEAN), period : Nat]

ASSUME WindowAssumption ==
  /\ IsFiniteSet(Apps) /\ target \in Apps
  /\ Steps \subseteq Nat \ {0} /\ Fallback \in Nat \ {0}
  /\ MaxDuration \in Nat /\ MaxDeadline \in Nat /\ MaxOffset \in Nat
  /\ Observed \subseteq Timeline
  /\ \A o \in Observed : o.period <= Len(o.mask)

VARIABLES
  pc,         \* "request", "index", "forecast", "score", "done", "rejected" or "failed"
  step, width, hps, duration, deadline, offset,
  observed,   \* the timeline of each workload
  samples,    \* length of the future index: the instants 0, step, 2 * step, ...
  window,     \* window_samples
  forecast,   \* active_forecast of each workload, by instant
  pick,       \* WindowPick
  result      \* the result row, with its impacted apps and evidence

request == <<step, width, hps, duration, deadline, offset, observed>>
vars == <<pc, request, samples, window, forecast, pick, result>>

Horizon == 0 .. samples - 1

-----------------------------------------------------------------------------
(* The pure stages.                                                        *)

\* round(a / b) of Python and numpy: ties go to the even neighbour.
RoundDiv(a, b) ==
  LET q == a \div b  rest == 2 * (a % b)
  IN  IF rest < b \/ (rest = b /\ q % 2 = 0) THEN q ELSE q + 1

\* Mutant: the part of a sample is dropped.
WindowSamplesDown(d, s) == IF d \div s > 1 THEN d \div s ELSE 1

\* window_samples: at least one.
WindowSamples(d, s) == IF RoundDiv(d, s) > 1 THEN RoundDiv(d, s) ELSE 1

HasTemplate(o) == o.period > 0 /\ Len(o.mask) > 1

\* n_per_period: the period in hours, as detect_timeline reads the width of a sample, in
\* samples of the mask's own width.
TemplateLength(o) ==
  LET n == RoundDiv(o.period * hps, 2 * step)
  IN  IF n > 1 THEN n ELSE 1

\* The mask does not reach back to the anchor of the template.
TooShort(o) == HasTemplate(o) /\ TemplateLength(o) > Len(o.mask)

\* Mutant: the first period of the mask.
FitFirst(o) == IF HasTemplate(o) THEN SubSeq(o.mask, 1, TemplateLength(o)) ELSE <<>>

\* SeasonalNaive.fit: the last period of the mask; <<>> for no template.
Fit(o) ==
  IF HasTemplate(o) THEN SubSeq(o.mask, Len(o.mask) - TemplateLength(o) + 1, Len(o.mask)) ELSE <<>>

\* SeasonalNaive.project: the i-th instant is (length - 1 + i) * step + offset ticks
\* after the start of the template; no template means always active.
Project(o, i) ==
  LET template == Fit(o)
      n == Len(template)
  IN  template = <<>> \/ template[(RoundDiv((n - 1 + i) * step + offset, step) % n) + 1]

\* score_instants: how many workloads are projected active.
Score(i) == Cardinality({u \in Apps : forecast[u][i]})

\* min_window: differences of the cumulative sums, the first of the smallest.
CumulativeSum ==
  LET csum[i \in 0 .. samples] == IF i = 0 THEN 0 ELSE csum[i - 1] + Score(i - 1)
  IN  csum

\* Mutant: the last of the smallest.
MinWindowLast(sums, s) ==
  \A i \in DOMAIN sums : sums[s] <= sums[i] /\ (i > s => sums[s] < sums[i])

MinWindow(sums, s) ==
  \A i \in DOMAIN sums : sums[s] <= sums[i] /\ (i < s => sums[s] < sums[i])

-----------------------------------------------------------------------------
Init ==
  /\ pc = "request"
  /\ step \in Steps /\ width \in {step, Fallback} /\ hps \in {step, width}
  /\ duration \in 0 .. MaxDuration
  /\ deadline \in 0 .. MaxDeadline
  /\ offset \in 0 .. MaxOffset
  /\ observed \in [Apps -> Observed]
  /\ samples = 0 /\ window = 0
  /\ forecast = [u \in Apps |-> <<>>]
  /\ pick = [start |-> 0, sum |-> 0, peak |-> 0]
  /\ result = [start |-> 0, end |-> 0, score |-> 0, added |-> [u \in Apps |-> 0],
               windows |-> [u \in Apps |-> {}], confidence |-> "low", named |-> {}]

\* A duration or a deadline that cannot be parsed: ValueError, answered with 400.
RejectUnreadable ==
  /\ pc = "request"
  /\ pc' = "rejected"
  /\ UNCHANGED <<request, samples, window, forecast, pick, result>>

\* deadline <= now + duration: ValueError, answered with 400, before there is a row.
Reject ==
  /\ pc = "request" /\ deadline <= duration
  /\ pc' = "rejected"
  /\ UNCHANGED <<request, samples, window, forecast, pick, result>>

\* Mutant: the index stops before the deadline.
BuildIndexExclusive ==
  /\ pc = "request" /\ deadline > duration
  /\ samples' = deadline \div step
  /\ window' = WindowSamples(duration, width)
  /\ pc' = "index"
  /\ UNCHANGED <<request, forecast, pick, result>>

\* _future_index (both ends included) and window_samples.
BuildIndex ==
  /\ pc = "request" /\ deadline > duration
  /\ samples' = deadline \div step + 1
  /\ window' = WindowSamples(duration, width)
  /\ pc' = "index"
  /\ UNCHANGED <<request, forecast, pick, result>>

\* len(future_index) < window_samples raises, and so does an anchor before the mask;
\* else every workload is projected.
BuildForecasts ==
  /\ pc = "index"
  /\ IF samples < window \/ \E u \in Apps : TooShort(observed[u])
     THEN pc' = "failed" /\ UNCHANGED forecast
     ELSE /\ pc' = "forecast"
          /\ forecast' = [u \in Apps |-> [i \in Horizon |-> Project(observed[u], i)]]
  /\ UNCHANGED <<request, samples, window, pick, result>>

PickWindow ==
  /\ pc = "forecast"
  /\ LET csum == CumulativeSum
         sums == [s \in 0 .. samples - window |-> csum[s + window] - csum[s]]
     IN  \E best \in 0 .. samples - window :
           /\ MinWindow(sums, best)
           /\ pick' = [start |-> best, sum |-> sums[best],
                       peak |-> Max({Score(i) : i \in best .. best + window - 1})]
  /\ pc' = "score"
  /\ UNCHANGED <<request, samples, window, forecast, result>>

\* Mutant: one sample short, as with an exclusive end index.
AddedShort(u) ==
  Cardinality({i \in pick.start .. pick.start + window - 2 : forecast[u][i]})

\* impact_score of an impacted app: its active samples in the window.
Added(u) == Cardinality({i \in pick.start .. pick.start + window - 1 : forecast[u][i]})

\* Mutant: a run that lasts to the end of the series is dropped.
WindowsFromMaskClosed(f) ==
  {[start |-> p[1] * step, end |-> p[2] * step] : p \in
     {q \in Horizon \X Horizon :
        /\ q[1] <= q[2] /\ \A k \in q[1] .. q[2] : f[k]
        /\ q[1] > 0 => ~f[q[1] - 1]
        /\ q[2] < samples - 1 /\ ~f[q[2] + 1]}}

\* _windows_from_mask: the first and the last instant of each run of active ones.
WindowsFromMask(f) ==
  {[start |-> p[1] * step, end |-> p[2] * step] : p \in
     {q \in Horizon \X Horizon :
        /\ q[1] <= q[2] /\ \A k \in q[1] .. q[2] : f[k]
        /\ q[1] > 0 => ~f[q[1] - 1]
        /\ q[2] < samples - 1 => ~f[q[2] + 1]}}

Confidence(peak) == CASE peak <= 1 -> "high" [] peak = 2 -> "medium" [] peak > 2 -> "low"

\* _summary_text: all are idle, or the target and the number of callers are named.
Named == IF pick.peak = 0 THEN {} ELSE {u \in Apps : Added(u) > 0}

\* _assemble_result: the window is [start, start + duration].
Assemble ==
  /\ pc = "score"
  /\ result' = [start |-> pick.start * step, end |-> pick.start * step + duration,
                score |-> pick.sum, added |-> [u \in Apps |-> IF u = target THEN 0 ELSE Added(u)],
                windows |-> [u \in Apps |-> WindowsFromMask(forecast[u])],
                confidence |-> Confidence(pick.peak), named |-> Named]
  /\ pc' = "done"
  /\ UNCHANGED <<request, samples, window, forecast, pick>>

Next == RejectUnreadable \/ Reject \/ BuildIndex \/ BuildForecasts \/ PickWindow \/ Assemble

Spec == Init /\ [][Next]_vars

-----------------------------------------------------------------------------
TypeOK ==
  /\ pc \in {"request", "index", "forecast", "score", "done", "rejected", "failed"}
  /\ step \in Steps /\ width \in {step, Fallback} /\ hps \in {step, width}
  /\ duration \in Nat /\ deadline \in Nat /\ offset \in Nat
  /\ observed \in [Apps -> Observed]
  /\ samples \in Nat /\ window \in Nat

\* A request that passes the headroom check never fails for a short horizon, unless its
\* resample_freq is wider than the hour the runner takes it for, nor for a mask shorter
\* than its template, unless it is narrower than the hour detect_timeline takes it for.
HeadroomIsEnough == width >= step /\ hps <= step => pc # "failed"

\* The sum of the active workloads over the window that starts at s, by counting.
DirectSum(s) == Cardinality({a \in Apps \X (s .. s + window - 1) : forecast[a[1]][a[2]]})

\* The window has the smallest sum of all that fit into the horizon, and is the
\* first of those (min_window computes it from cumulative sums).
EarliestBest ==
  pc = "done" => \A s \in 0 .. samples - window :
    /\ DirectSum(pick.start) <= DirectSum(s)
    /\ s < pick.start => DirectSum(pick.start) < DirectSum(s)

\* The impact_score of a result is what its impacted apps and the target add up to.
ScoreAccounted ==
  pc = "done" =>
    result.score = SumFunction(result.added) +
                   Cardinality({i \in Horizon : forecast[target][i] /\
                                  i * step >= result.start /\ i < pick.start + window})

\* The window ends at most one and a half samples after the deadline, if the width of
\* a sample was read right.
OverrunBounded == pc = "done" /\ width = step => 2 * (result.end - deadline) <= 3 * step

\* What a result says of its window in four places is one and the same: the workloads
\* that the summary names are those with an evidence window that meets the scored
\* instants, the impacted apps among them are those with an impact, and "high"
\* confidence means that no two evidence windows cover one scored instant.
SummaryMatchesEvidence ==
  pc = "done" =>
    LET Scored == {i * step : i \in pick.start .. pick.start + window - 1}
        Covers(u, t) == \E w \in result.windows[u] : w.start <= t /\ t <= w.end
    IN  /\ result.named = {u \in Apps : \E t \in Scored : Covers(u, t)}
        /\ result.named \ {target} = {u \in Apps : result.added[u] > 0}
        /\ result.confidence = "high" <=>
             \A t \in Scored : \A u, v \in Apps : Covers(u, t) /\ Covers(v, t) => u = v

\* The observed sample, one or more periods of p samples back, that the instant i repeats.
SampleBefore(o, p, i) ==
  LET ahead == (offset + i * step) \div step
      back == (p - 1 + ahead) % p
  IN  o.mask[Len(o.mask) - p + 1 + back]

\* An instant is projected active iff the sample that contains it was, whole periods ago,
\* if the period is of whole samples.
Repeats(u, i) ==
  LET o == observed[u]
  IN  HasTemplate(o) /\ o.period % 2 = 0 => forecast[u][i] = SampleBefore(o, o.period \div 2, i)

\* So it is for every instant if the request comes in the first half of a sample and
\* detect_timeline reads the width of a sample right; else the length of the template,
\* which goes from samples to hours and back, is not the period that was found.
RepeatsFromFirstHalf ==
  pc = "done" /\ hps = step /\ 2 * (offset % step) < step =>
    \A u \in Apps, i \in Horizon : Repeats(u, i)

\* Said of the search for the window (docs, step 9): it slides from now to D - L, so
\* that the window ends by the deadline.
DeadlineKept == pc = "done" /\ width = step => result.end <= deadline
=============================================================================
