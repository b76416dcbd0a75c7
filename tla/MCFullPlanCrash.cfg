SPECIFICATION Spec
CONSTANTS
    N = 2
    RetryBudget = 1
    Supervisors = {s1, s2}
    ExecutionOwner = "AUTO_RECONCILE"
    Migrations = {}
    NoMigration = NoMigration
    NoOne = NoOne
    Transaction = Transaction
    MaxOps = 1
    MaxCrashes = 2
    MaxCorruptions = 0
SYMMETRY Symmetry
INVARIANTS TypeOK SingleWorker DispatchIntentDurable FirstExecutionOnce SuccessorDurable RetriesBounded
PROPERTY ImplementsGatePlan
CHECK_DEADLOCK FALSE
