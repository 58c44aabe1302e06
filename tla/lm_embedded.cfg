SPECIFICATION FairSpec
CONSTANTS
    Txn = {1, 2, 3}
    Table = {a}
    Key = {k}
    RowMode = {"EXCLUSIVE"}
    MaxCalls = 2
    CycleDetection = FALSE
    RowUnlocking = FALSE
INVARIANTS TableSleeperIsBlocked WaitedGrantIsClear NoLatchDeadlock
PROPERTY CallsReturn
