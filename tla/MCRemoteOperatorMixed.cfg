SPECIFICATION FairSpec
CONSTANTS
  NumMessages = 3
  Kind <- Mixed
  Sequence <- Rising
  Scope = {1}
  Modes = {"ACTIVE"}
  MaxVersion = 1
  AckLimit = 2
  PollLimit = 2
  MaxStops = 2
INVARIANTS ClosedIsAnswered AckedIsAnswered
PROPERTY RecoverySettles
