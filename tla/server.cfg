SPECIFICATION Spec
CONSTANTS
    Client = {c1, c2}
    Nobody = Nobody
    numOfThreads = 1
    Kind = {"use", "garbled", "fatal", "endless"}
    MaxTexts = 2
CHECK_DEADLOCK FALSE
INVARIANTS PlacesAreCounted CalmIsServed NothingIsExecuted
PROPERTIES WaitingIsServed TextsAreRead
