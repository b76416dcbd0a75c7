SPECIFICATION FairSpec
CONSTANTS
  N = 3
  Starts = {0, 1}
  Files = {f1, f2}
  RetryBudget = 3
  MaxCrashes = 2
  MaxTimeouts = 0
  MayFail = FALSE
INVARIANT
  ChainFollowsLifecycle
PROPERTIES
  GateDecided
  ResumeIsDecidedByEvidence
