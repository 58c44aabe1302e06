SPECIFICATION Spec
CONSTANTS
    Client = {c1}
    Nobody = Nobody
    numOfThreads = 1
    Kind = {"use"}
    MaxTexts = 2
CHECK_DEADLOCK FALSE
PROPERTY UseSelects
