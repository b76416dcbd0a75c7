SPECIFICATION FairSpec
CONSTANTS
  Files = {f1, f2}
  Exact = {f1, f2}
  Models <- TwoModels
  MaxGenerations = 3
  MaxRemediations = 2
  RetryBudget = 2
  MaxCrashes = 1
INVARIANTS
  TypeOK
  ReviewedIsGoverned
  ModelsRotate
  ReviewedIsComplete
PROPERTY
  ActionDecided
