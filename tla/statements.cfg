SPECIFICATION Spec
CONSTANTS
    parent = parent
    child = child
    Table = {parent, child}
    NoTable = NoTable
    Parent <- MCParent
    Key = {1, 2}
    Val = {a, b}
    NoVal = NoVal
    NoRow = NoRow
    NoImage = NoImage
    MaxLog = 2
    MaxRows = 2
CONSTRAINT SpoiledShort
VIEW SeenView
SYMMETRY ValSymmetry
INVARIANT KeysAgree
INVARIANT VisitsWhatItFound
INVARIANT UndoableAtAnyTime
INVARIANT ListedTablesExist
PROPERTY AbortRestores
