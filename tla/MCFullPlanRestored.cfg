SPECIFICATION Spec
CONSTANTS
    N = 1
    RetryBudget = 1
    Supervisors = {s1, s2}
    ExecutionOwner = "AUTO_RECONCILE"
    Migrations = {}
    NoMigration = NoMigration
    NoOne = NoOne
    Transaction = Transaction
    MaxOps = 0
    MaxCrashes = 1
    MaxCorruptions = 1
PROPERTY InterruptedChildIsResumed
CHECK_DEADLOCK FALSE
