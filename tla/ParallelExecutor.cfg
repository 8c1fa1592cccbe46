CONSTANTS
  Inputs <- Lists
  MaxRetries = 2
  MaxConcurrency = 2
SPECIFICATION FairSpec
CHECK_DEADLOCK FALSE
INVARIANTS
  CycleExact
  SessionsReturned
  RetriesReported
PROPERTIES
  RunsDag
  Answers
