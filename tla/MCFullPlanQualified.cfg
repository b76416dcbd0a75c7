SPECIFICATION Spec
CONSTANTS
    N = 1
    RetryBudget = 1
    Supervisors = {s1, s2}
    ExecutionOwner = "AUTO_RECONCILE"
    Migrations = {m1, m2}
    NoMigration = NoMigration
    NoOne = NoOne
    Transaction = Transaction
    MaxOps = 6
    MaxCrashes = 0
    MaxCorruptions = 0
SYMMETRY Symmetry
INVARIANT QualifiedBeforeClose
CHECK_DEADLOCK FALSE
