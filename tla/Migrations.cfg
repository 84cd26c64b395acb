SPECIFICATION Spec
CONSTANTS
  Commands = {c1, c2}
  Scripts = {s1, s2}
  Versions = 2
  Ends <- TwoFiles
  Probe = 2
  Dialects = {"sqlite", "postgres"}
  MaxFaults = 2
INVARIANTS LedgerTellsSchema ReadyIsMigrated
PROPERTY Converges
\* Every process may be ready.
CHECK_DEADLOCK FALSE
