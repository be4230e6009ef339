SPECIFICATION BoundedSpec
CONSTANTS
  base = base
  a = a
  b = b
  None = None
  Packets <- OnePacket
  Shas = {base, a, b}
  GrantIds = {g1, g2}
  Instants = {0}
  StopIds <- ToAuditBound
  MaxAudit = 18
  MaxStops = 1
\* A closed or failed run stays where it is.
CHECK_DEADLOCK FALSE
SYMMETRY Symmetry
INVARIANT ExhaustedFailuresNeedAHuman
