CONSTANTS
  c1 = c1
  c2 = c2
  m = m
  a = a
  b = b
  Calls <- TwoCalls
  Managers <- Shared
  ManagerOf <- AllOnOne
  Providers <- AB
  Chains <- ABChains
  MaxRetries = 2
  RetryPause = 1
  BackoffBase = 1
  Cooldown = 3
  Durations = {0, 2}
SPECIFICATION FairSpec
INVARIANTS
  LateSendsBounded
  NoNeedlessFailure
PROPERTIES
  StartsOnlyOnRested
  Ends
