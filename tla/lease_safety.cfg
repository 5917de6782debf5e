SPECIFICATION Spec
CONSTANTS
    s1 = s1
    s2 = s2
    w1 = w1
    w2 = w2
    c1 = c1
    Tasks = {t1}
    Slots = {s1, s2}
    WorkerIds = {w1, w2}
    IdOf <- TwoRuntimes
    Callers = {c1}
    NoWorker = NoWorker
    LeaseMs = 1
    Heartbeats = TRUE
    CrashPoints <- AnyPoint
    MaxTime = 1
    MaxFailures = 1
    MaxCrashes = 1
    CrashTime = 1
    AttemptCap = 1
    FailPoints <- AnyPoint
SYMMETRY Symmetry
INVARIANTS
    TypeOK
    CompletionIsEarned
    LeaseExclusion
    TimersCleared
PROPERTY LiveLeaseKept
CHECK_DEADLOCK FALSE
