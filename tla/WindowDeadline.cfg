SPECIFICATION Spec
CONSTANTS
  t = t
  d = d
  Apps = {t, d}
  target = t
  Steps = {2, 3}
  Fallback = 3
  MaxDuration = 5
  MaxDeadline = 8
  MaxOffset = 4
  Observed <- Masks
INVARIANTS DeadlineKept
\* A run ends with its result.
CHECK_DEADLOCK FALSE
