SPECIFICATION Spec
CONSTANTS
    a = a
    b = b
    c = c
    k1 = k1
    k2 = k2
    Calls = {a, b, c}
    OpsOf <- ThirdAny
    KeyOf <- TwoKeys
    NoKey = NoKey
    NoCall = NoCall
    MaxFaults = 1
    MaxCrashes = 1
SYMMETRY Symmetry
INVARIANTS
    ResultsAreReal
    OnceWhenSequential
PROPERTY CompletedKeptWhenSequential
CHECK_DEADLOCK FALSE
