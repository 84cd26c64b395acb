SPECIFICATION Spec
CONSTANTS
  None = None
  ServiceColl = {s1, s2}
  CronColl = {}
  Workloads = {w1}
  Times = {t1}
  MaxRows = 1
  Dialect = "postgres"
  Crashes = TRUE
  Failures = TRUE
  EngineWrites = FALSE
PROPERTY PollersServed
\* Every collection may have ended.
CHECK_DEADLOCK FALSE
