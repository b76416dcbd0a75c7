SPECIFICATION Spec
CONSTANTS
    N = 1
    RetryBudget = 0
    Supervisors = {s1, s2}
    ExecutionOwner = "AUTO_RECONCILE"
    Migrations = {m1, m2}
    NoMigration = NoMigration
    NoOne = NoOne
    Transaction = Transaction
    MaxOps = 4
    MaxCrashes = 1
    MaxCorruptions = 0
SYMMETRY Symmetry
INVARIANTS FencedTransaction MigratedNeverRuns
PROPERTY AutoResumeIsObserved
CHECK_DEADLOCK FALSE
