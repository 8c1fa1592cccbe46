CONSTANTS
  w1 = w1
  w2 = w2
  Workers <- TwoWorkers
  Ids <- TwoIds
  Files <- ThreeFiles
  Cooldown = 2
  Interval = 2
  Deployments <- SomeDeployments
SPECIFICATION FairSpec
INVARIANTS
  LimitsRespected
  RecoveredInTime
  TableMirrorsMemory
  TurnsTaken
PROPERTY RecoversEventually
