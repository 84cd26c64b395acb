SPECIFICATION Spec
CONSTANTS
  w1 = w1
  w2 = w2
  Runs = {r1, m1}
  MaintRuns = {m1}
  Workloads = {w1, w2}
  Target = w1
  Upstream = {}
  Related <- OnePeer
  Sporadic <- OneSporadic
  MaxCollections = 2
  MaxClusters = 2
  Dialects = {"sqlite", "postgres"}
  Failures = TRUE
  Crashes = TRUE
INVARIANTS CompletedIsComplete PartialCardsFailed CardsAgree AnsweredRunExists
PROPERTY RunEnds
\* Every run may have ended.
CHECK_DEADLOCK FALSE
