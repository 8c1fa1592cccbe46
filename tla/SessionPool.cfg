CONSTANTS
  c1 = c1
  c2 = c2
  Clients <- TwoClients
  MaxSessions = 2
  MaxMessages = 2
  TTL = 0
  MaxOutages = 1
  Durable = TRUE
  MaxCreated = 3
  MaxPicks = 3
  MaxRotations = 1
SYMMETRY Symmetry
SPECIFICATION Spec
INVARIANTS
  OneActiveSession
  OvershootBound
  ActiveUnderLimit
  RowsMirrorPool
PROPERTIES
  RoundRobinFair
  LendsOnlyUsable
