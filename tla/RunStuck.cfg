SPECIFICATION Spec
CONSTANTS
  w1 = w1
  w2 = w2
  Runs = {r1}
  MaintRuns = {}
  Workloads = {w1, w2}
  Target = w1
  Upstream = {}
  Related <- OnePeer
  Sporadic <- OneSporadic
  MaxCollections = 1
  MaxClusters = 1
  Dialects = {"postgres"}
  Failures = TRUE
  Crashes = FALSE
INVARIANT EndedIsRecorded
\* Every run may have ended.
CHECK_DEADLOCK FALSE
