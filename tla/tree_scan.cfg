SPECIFICATION Spec
CONSTANTS
    TupleSize = 5
    EntrySize = 2
    MaximumUsed = 20
    Key <- OneGap
    MaxPage = 11
    Loads = {13}
    MaxPuts = 3
    MaxOps = 4
    Refill = TRUE
CHECK_DEADLOCK FALSE
INVARIANT ScanFindsKeys
