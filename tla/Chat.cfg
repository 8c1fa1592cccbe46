CONSTANTS
  bridge = bridge
  deepinfra = deepinfra
  alibaba = alibaba
  w1 = w1
  w2 = w2
  r1 = r1
  r2 = r2
  r3 = r3
  None = None
  NoRule = NoRule
  Null = Null
  Unreadable = Unreadable
  Nobody = Nobody
  Workers <- TwoWorkers
  Requests <- ThreeRequests
  Providers <- AllProviders
  Unusable <- NoKey
  Rules <- SomeRules
  MaxEdits = 1
  PoolSize = 2
  MaxStalls = 1
  MaxRestarts = 1
SPECIFICATION Spec
INVARIANTS
  Accounted
  PoisonBounded
  RoutesKept
SYMMETRY Interchangeable
