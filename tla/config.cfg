SPECIFICATION Spec
CONSTANTS
    r1 = r1
    r2 = r2
    r3 = r3
    r4 = r4
    Requests = {r1, r2, r3, r4}
    Plans <- Behaviours
    Good = {r1, r3}
    None = None
    FaultKinds = {"lost", "unacknowledged"}
    MaxFaults = 2
INVARIANTS
    VersionsInOrder
    ConnectedIsUsable
CHECK_DEADLOCK FALSE
