SPECIFICATION Spec
CONSTANTS
    Session = {s1, s2}
    Database = {d1, d2}
    Length = {1, 2}
    FileLimit = 2
    MaxEntries = 4
    Crashes = TRUE
    Shared = FALSE
SYMMETRY NameSymmetry
CHECK_DEADLOCK FALSE
INVARIANTS TypeOK UndoIsExact LogIsReadable
