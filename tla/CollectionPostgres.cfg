SPECIFICATION Spec
CONSTANTS
  None = None
  ServiceColl = {s1}
  CronColl = {k1}
  Workloads = {w1, w2}
  Times = {t1}
  MaxRows = 2
  Dialect = "postgres"
  Crashes = TRUE
  Failures = TRUE
  EngineWrites = FALSE
INVARIANTS BatchesWhole SamplesIdentified
PROPERTIES LedgerSpec EveryCollectionEnds
\* Every collection may have ended.
CHECK_DEADLOCK FALSE
