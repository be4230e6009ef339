SPECIFICATION BoundedSpec
CONSTANTS
  base = base
  a = a
  b = b
  None = None
  Packets <- TwoPackets
  Shas = {base, a, b}
  GrantIds = {g1, g2}
  Instants = {0, 1, 2}
  StopIds <- ToAuditBound
  MaxAudit = 18
  MaxStops = 2
SYMMETRY Symmetry
INVARIANTS
  OneVerdictPerIteration
  CorrectionAnswersLastRejection
  PromotionGrantFollowsAcceptance
  GrantsSpentOnce
PROPERTIES
  LifecycleSpec
  RecheckPrecedesEvidence
\* A closed or failed run stays where it is.
CHECK_DEADLOCK FALSE
