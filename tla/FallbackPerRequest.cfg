CONSTANTS
  c1 = c1
  c2 = c2
  m = m
  a = a
  b = b
  Calls <- TwoCalls
  Managers <- TwoCalls
  ManagerOf <- OneEach
  Providers <- AB
  Chains <- JustAB
  MaxRetries = 2
  RetryPause = 1
  BackoffBase = 1
  Cooldown = 3
  Durations = {}
SPECIFICATION Spec
PROPERTY StartsOnlyOnRested
