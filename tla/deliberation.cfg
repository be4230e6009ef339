SPECIFICATION Spec
CONSTANTS
  None = None
  q1 = q1
  q2 = q2
  rev = rev
  Questions <- TwoQuestions
  QuestionInputs <- Inputs
  Reviewers <- OneReviewer
  Decisions = {1, 2}
  Latencies = {1, 2}
  Limits = {0, 2}
  Ceilings <- Budgets
SYMMETRY QuestionSymmetry
CHECK_DEADLOCK FALSE
INVARIANTS
  TypeOK
  OneActiveCycle
  LineageSound
  ReviewersCountedOnce
  LatencyCovered
  ClaimsStayRecordable
  OutcomeIsTheFact
