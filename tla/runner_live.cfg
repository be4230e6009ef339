SPECIFICATION Spec
CONSTANTS
  A = A
  B = B
  ArchitectA = ArchitectA
  ArchitectB = ArchitectB
  Runners = {A, B}
  Architects = {ArchitectA, ArchitectB}
  principal <- OwnPrincipals
  Modes = {TRUE, FALSE}
  Occurrences <- Trail5
  Packets = {1, 2}
  Outcomes = {"done", "accept", "reject_and_correct", "stop"}
  MaxCalls = 1
  MaxFaults = 1
  None = None
SYMMETRY Symmetry
INVARIANTS
  TypeOK
  OneCallPerOccurrence
  AppliedOnlyIfApplied
  DurableBeforeApplied
  AuthorityPrecedesReview
  ReviewKeepsItsPrincipal
  CorrectionAnswersOwnReview
PROPERTIES
  JournalSpec
CHECK_DEADLOCK FALSE
