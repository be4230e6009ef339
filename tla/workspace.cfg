SPECIFICATION FairSpec
CONSTANTS
  g1 = g1
  r1 = r1
  other = other
  None = None
  Procs = {p1, p2}
  Goals <- OneGoal
  Runs <- TwoRuns
  RunOf <- ItsRun
  MaxQueued = 1
  MaxHistory = 3
INVARIANTS
  AnswersAreTrue
PROPERTIES
  HistoryOnlyGrows
  GovernanceKeepsItsSource
  RequestsEnd
