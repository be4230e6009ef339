SPECIFICATION FairSpec
CONSTANTS
  Clients = {c1, c2}
  MaxConnections = 1
  None = None
INVARIANTS
  EvidenceIsComplete
  NoTunnelOutlivesCall
PROPERTIES
  CallReturns
