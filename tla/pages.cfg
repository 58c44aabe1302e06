SPECIFICATION Spec
CONSTANTS
    Session = {s}
    MaxPage = 2
    Value = {v1, v2}
    FirstByte = {"leaf", "internal", "free", "other"}
    CacheSize = 3
    MaxHeld = 2
    MaxObjects = 3
    MaxPuts = 2
    Reopening = TRUE
    Kills = TRUE
CHECK_DEADLOCK FALSE
INVARIANTS TypeOK FileIsCurrent HandleIsCurrent FreeListIsSound
PROPERTIES ImplementsPageFile
