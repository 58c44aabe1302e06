SPECIFICATION Spec
CONSTANTS
    Txn = {1, 2}
    Table = {a}
    Key = {k}
    RowMode = {"SHARED", "EXCLUSIVE"}
    MaxCalls = 3
    CycleDetection = TRUE
    RowUnlocking = TRUE
INVARIANTS OneRequestPerTxn EndedHoldsNothing
PROPERTY ImplementsLockRequests
CHECK_DEADLOCK FALSE
