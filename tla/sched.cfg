SPECIFICATION FairSpec
CONSTANTS
    i1 = i1
    i2 = i2
    t1 = t1
    None = None
    Ids = {i1, i2}
    TaskOf <- OneTask
    Dispatchers = {d1, d2}
    Callers = {c1}
    MaxFailures = 1
    MaxCrashes = 1
INVARIANTS
    TypeOK
    DispatchedWasQueued
    QueuedOnce
PROPERTIES
    CancelHolds
    EventuallyDispatched
CHECK_DEADLOCK FALSE
