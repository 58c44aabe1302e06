SPECIFICATION Spec
CONSTANTS
    Key = {k1, k2, k3}
    Value = {v1, v2}
    MaxSize = 2
    MaxPuts = 6
INVARIANTS LookupIsCurrent SizeBounded
PROPERTIES EvictionIsReturned ImplementsRecencyList
