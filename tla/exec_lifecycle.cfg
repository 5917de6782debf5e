SPECIFICATION FairSpec
CONSTANTS
    r1 = r1
    r2 = r2
    r3 = r3
    k1 = k1
    k2 = k2
    w1 = w1
    w2 = w2
    Requests = {r1, r3}
    Keys = {k1, k2}
    KeyOf <- OwnKeys
    Workers = {w1, w2}
    NumSteps = 2
    Kind <- RecordFirst
    MaxAttempts = 2
    FaultKinds = {"lost"}
    MaxFaults = 1
    MaxCrashes = 0
PROPERTIES
    ImplementsLifecycle
    EventuallySettles
CHECK_DEADLOCK FALSE
