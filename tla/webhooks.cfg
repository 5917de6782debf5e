SPECIFICATION Spec
CONSTANTS
    r1 = r1
    r2 = r2
    r3 = r3
    r4 = r4
    k1 = k1
    k2 = k2
    f1 = f1
    f2 = f2
    f3 = f3
    Requests = {r1, r2, r3, r4}
    Plans <- Behaviours
    Keys = {k1, k2}
    Flows = {f1, f2, f3}
    Matching <- Fits
    StepsOf <- Steps
    None = None
    FaultKinds = {"lost", "unacknowledged"}
    MaxFaults = 1
INVARIANTS
    RecordedRan
    OnceUnlessBeside
PROPERTIES
    DeletedStays
CHECK_DEADLOCK FALSE
