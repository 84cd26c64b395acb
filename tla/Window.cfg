SPECIFICATION Spec
CONSTANTS
  t = t
  d = d
  Apps = {t, d}
  target = t
  Steps = {1, 2, 4, 7}
  Fallback = 3
  MaxDuration = 7
  MaxDeadline = 8
  MaxOffset = 5
  Observed <- Masks
INVARIANTS HeadroomIsEnough EarliestBest ScoreAccounted OverrunBounded RepeatsFromFirstHalf SummaryMatchesEvidence
\* A run ends with its result.
CHECK_DEADLOCK FALSE
