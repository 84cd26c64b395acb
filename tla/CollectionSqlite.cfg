SPECIFICATION Spec
CONSTANTS
  None = None
  ServiceColl = {s1}
  CronColl = {k1, k2}
  Workloads = {w1}
  Times = {t1}
  MaxRows = 1
  Dialect = "sqlite"
  Crashes = FALSE
  Failures = TRUE
  EngineWrites = TRUE
PROPERTIES FreshnessKept EveryCollectionEnds
\* Every collection may have ended.
CHECK_DEADLOCK FALSE
