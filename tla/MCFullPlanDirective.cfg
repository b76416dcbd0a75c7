SPECIFICATION Spec
CONSTANTS
    N = 2
    RetryBudget = 1
    Supervisors = {s1, s2}
    ExecutionOwner = "OCPV2"
    Migrations = {}
    NoMigration = NoMigration
    NoOne = NoOne
    Transaction = Transaction
    MaxOps = 3
    MaxCrashes = 2
    MaxCorruptions = 1
SYMMETRY Symmetry
INVARIANTS DirectiveClaimsOnce DamageKeepsGate
PROPERTY PreviousGoodRetained
CHECK_DEADLOCK FALSE
