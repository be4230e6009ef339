SPECIFICATION FairSpec
CONSTANTS
  A = A
  B = B
  ArchitectA = ArchitectA
  ArchitectB = ArchitectB
  Runners = {A, B}
  Architects = {ArchitectA, ArchitectB}
  principal <- OnePrincipal
  Modes = {TRUE}
  Occurrences <- Trail3
  Packets = {1}
  Outcomes = {"done", "reject", "unusable"}
  MaxCalls = 2
  MaxFaults = 1
  None = None
PROPERTIES
  OccurrenceEventuallyLeft
  LeftRecordsSettled
CHECK_DEADLOCK FALSE
