SPECIFICATION Spec
CONSTANTS
    r1 = r1
    r2 = r2
    r3 = r3
    k1 = k1
    k2 = k2
    w1 = w1
    w2 = w2
    Requests = {r1, r2, r3}
    Keys = {k1, k2}
    KeyOf <- MixedKeys
    Workers = {w1, w2}
    NumSteps = 2
    Kind <- StopFirst
    MaxAttempts = 2
    FaultKinds = {"lost", "unacknowledged"}
    MaxFaults = 1
    MaxCrashes = 1
SYMMETRY Symmetry
INVARIANTS
    TypeOK
    NoSharedJob
    EffectsBounded
    CompletedRan
    OutcomesAgree
    AbandonedByFaults
PROPERTY QuietWhenSettled
CHECK_DEADLOCK FALSE
