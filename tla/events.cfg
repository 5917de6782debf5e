SPECIFICATION TaskSpec
CONSTANTS
    c1 = c1
    c2 = c2
    c3 = c3
    c4 = c4
    i1 = i1
    i2 = i2
    Callers = {c1, c2, c3, c4}
    Plans <- Calls
    Ids = {i1, i2}
    IdOf <- Given
    Handlers = 2
    None = None
    FaultKinds = {"lost", "unacknowledged"}
    MaxFailures = 1
INVARIANTS
    CompletedOnce
    HandledIsStored
CHECK_DEADLOCK FALSE
