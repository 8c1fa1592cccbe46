CONSTANTS
  a = a
  b = b
  Outcomes <- AllOutcomes
  Buffer = 5
  Window = 4
  AdviceFloor = 3
  MinMessages = 20
  MaxMessages = 24
  MinSessions = 3
  MaxSessions = 4
  Starts <- AllStarts
  Controllers <- TwoControllers
  MaxLoops = 2
SPECIFICATION Spec
INVARIANTS
  AdviceMatches
  RunningIsAlive
PROPERTIES
  NoFlapping
  ReachesFloor
