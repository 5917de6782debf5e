SPECIFICATION ControlsSpec
CONSTANTS
    a = a
    b = b
    c = c
    Runs = {a, b, c}
    Rules <- Policy
    MaxSteps = 2
    People = {p1, p2}
    Nobody = Nobody
    MaxCalls = 4
    MaxFailures = 2
INVARIANTS
    AuditTellsEffects
    DecidedByAnother
CHECK_DEADLOCK FALSE
