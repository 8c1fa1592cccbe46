CONSTANTS
  k1 = k1
  k2 = k2
  w1 = w1
  w2 = w2
  Workers <- TwoWorkers
  Keys <- TwoKeys
  Deletable <- OneKey
  TTLs = {2, 3}
  DefaultTTL = 3
  RefreshWindow = 2
  CheckInterval = 1
  Deployments <- SomeDeployments
  MaxSaves = 2
SPECIFICATION FairSpec
INVARIANTS
  RowIsLatest
  KeptAlive
PROPERTIES
  ShippedSweepAtomic
  NoRowLingers
