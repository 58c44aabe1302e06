SPECIFICATION Spec
CONSTANTS
    Loads = {2, 5, 8, 13, 19}
    MaxPuts = 2
    MaxOps = 3
    Refill = FALSE
    MaxPage = 14
    TupleSize = 5
    EntrySize = 2
    MaximumUsed = 20
    Key <- OneBetween
CHECK_DEADLOCK FALSE
INVARIANTS TypeOK SearchFindsKeys ParentsAgree PagesAccounted ScanFindsKeys
PROPERTY ImplementsKeySet
