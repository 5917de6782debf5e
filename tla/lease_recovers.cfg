SPECIFICATION FairSpec
CONSTANTS
    s1 = s1
    s2 = s2
    w1 = w1
    w2 = w2
    c1 = c1
    Tasks = {t1}
    Slots = {s1, s2}
    WorkerIds = {w1, w2}
    IdOf <- TwoRuntimes
    Callers = {}
    NoWorker = NoWorker
    LeaseMs = 2
    Heartbeats = FALSE
    CrashPoints = {"handle"}
    MaxTime = 3
    MaxFailures = 1
    MaxCrashes = 1
    CrashTime = 1
    AttemptCap = 2
    FailPoints = {"handle"}
PROPERTY EventuallyCompleted
CHECK_DEADLOCK FALSE
