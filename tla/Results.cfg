SPECIFICATION Spec
CONSTANTS
  Runs = {j1, j2, m1}
  MaintRuns = {m1}
  Tab = {j1, m1}
  MaxCards = 2
  Dialects = {"sqlite", "postgres"}
  MaxDeletes = 1
  MaxDialogs = 2
INVARIANTS AnswerIsWhole EvidenceIsOfCard LastRunIsShown
\* The flows and the dialogs end.
CHECK_DEADLOCK FALSE
