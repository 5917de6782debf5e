SPECIFICATION FairSpec
CONSTANTS
    a = a
    b = b
    f = f
    g = g
    x = x
    mine = mine
    yours = yours
    Deliveries = {a, b}
    Ids = {x}
    IdOf <- OneId
    Workspaces = {mine, yours}
    WorkspaceOf <- OneWorkspace
    Workflows = {f, g}
    HomeOf <- AllMine
    Workers = {k1, k2}
    MaxAttempts = 2
    FaultKinds = {"lost", "unacknowledged"}
    MaxFaults = 2
    MaxCrashes = 1
    MaxChanges = 2
INVARIANTS
    ServedWhenProcessed
    FanoutBounded
PROPERTY EventuallyProcessed
CHECK_DEADLOCK FALSE
