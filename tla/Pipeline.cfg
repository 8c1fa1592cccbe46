CONSTANTS
  a = a
  b = b
  everyFile = everyFile
  delete = delete
  keep = keep
  StepMark = StepMark
  Plain = Plain
  Silent = Silent
  Malformed = Malformed
  Failure = Failure
  Files <- TwoFiles
  Patterns <- OnePattern
  Weight = 2500
  Around = 1
  Threshold = 4000
  Contents <- TwoAnswers
  Opposites <- OneContradiction
  Texts <- SomeTexts
  Answers <- SomePlans
SPECIFICATION Spec
INVARIANTS
  PlansRunnable
  PartsInOrder
  AllTold
  ConflictsTold
  ContextKept
