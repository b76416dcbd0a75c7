SPECIFICATION Spec
CONSTANTS
  N = 3
  Starts = {0, 1}
  Files = {f1, f2}
  RetryBudget = 2
  MaxCrashes = 2
  MaxTimeouts = 2
  MayFail = TRUE
SYMMETRY FileSymmetry
INVARIANTS
  TypeOK
  WorkerTurnOnce
  HandoffBacked
  PackageFollowsHandoff
  CommittedIsValidated
PROPERTY
  ImplementsLevelPlan
