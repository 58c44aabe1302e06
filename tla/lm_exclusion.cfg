SPECIFICATION Spec
CONSTANTS
    Txn = {1, 2}
    Table = {a}
    Key = {k}
    RowMode = {"EXCLUSIVE"}
    MaxCalls = 2
    CycleDetection = FALSE
    RowUnlocking = FALSE
INVARIANT TableExclusion
