\* The instance of governed_run.
SPECIFICATION Spec
CONSTANTS
  p1 = p1
  p2 = p2
  a = a
  b = b
  packetA = packetA
  packetB = packetB
  grantI = grantI
  grantR = grantR
  fixA = fixA
  fixA2 = fixA2
  fixC = fixC
  None = None
  Procs <- TwoProcs
  Docs <- FewDocs
  KeyOf <- Keys_
  VersionOf <- Versions
  BodyOf <- Bodies_
  IssuerOf <- Issuers
  Supersedes <- Predecessors
  Architects <- TwoArchitects
  Others <- OneOther
  Packets <- TwoPackets
  Bundles <- OneBundle
  Corrections <- Fixes
  Answers <- AnswersFix
  Supplied <- SuppliedGrants
  MaxAudit = 9
  MaxStops = 1
CHECK_DEADLOCK FALSE
PROPERTY StepsFollowTheirGate
