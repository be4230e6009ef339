SPECIFICATION BoundedSpec
CONSTANTS
  Procs = {p1, p2}
  Changes = {c1, c2}
  Runs = {r1, r2}
  None = None
  MaxAudit = 2
SYMMETRY Symmetry
INVARIANTS
  OneRootPerChange
  NeverRefusesItself
  AcknowledgedSurvives
  LocksAccounted
PROPERTIES
  NoLostUpdate
  RegistrySpec
