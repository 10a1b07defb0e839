SPECIFICATION Spec
CONSTANTS
    j1 = j1
    j2 = j2
    w1 = w1
    w2 = w2
    A = A
    B = B
    Jobs = {j1}
    Workers = {w1, w2}
    WorkerIds = {A, B}
    NoWorker = NoWorker
    NoJob = NoJob
    WorkerId <- OwnIds
    MaximumAttempts <- TwoAttempts
    Priority <- OnePriority
    Queue <- OneQueue
    Served <- ServeAll
    SkipLocked = TRUE
    Once = {}
    Lease = 1
    HeartbeatInterval = 1
    Heartbeats = TRUE
    Timely = FALSE
    StampPeriod = 3
    CutoffRounded = FALSE
    RetryDelay = 1
    AttemptBound = 4
    OverdueBound = 0
    DelayBound = 1
    AgeBound = 5
    DisturbanceBound = 2

PROPERTY LeaseHonoured
