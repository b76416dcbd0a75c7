SPECIFICATION Spec
CONSTANTS
  NumMessages = 2
  Kind <- WithReadOnly
  Sequence <- Reused
  Scope = {1}
  Modes = {"OBSERVE_ONLY", "CONTROL_MUTATION_CANARY", "ACTIVE"}
  MaxVersion = 2
  AckLimit = 1
  PollLimit = 2
  MaxStops = 2
INVARIANTS TypeOK ExecutedOnce RecoveryIdentity SequenceSingleUse
