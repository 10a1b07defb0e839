SPECIFICATION Spec
CONSTANTS
    j1 = j1
    j2 = j2
    w1 = w1
    w2 = w2
    A = A
    B = B
    Jobs = {j1, j2}
    Workers = {w1, w2}
    WorkerIds = {A, B}
    NoWorker = NoWorker
    NoJob = NoJob
    WorkerId <- OwnIds
    MaximumAttempts <- MixedAttempts
    Priority <- Ranked
    Queue <- OneQueue
    Served <- ServeAll
    SkipLocked = FALSE
    Once = {}
    Lease = 1
    HeartbeatInterval = 1
    Heartbeats = TRUE
    Timely = FALSE
    StampPeriod = 1
    CutoffRounded = FALSE
    RetryDelay = 1
    AttemptBound = 3
    OverdueBound = 0
    DelayBound = 1
    AgeBound = 3
    DisturbanceBound = 1
SYMMETRY Interchangeable
INVARIANTS TypeOK ClaimConsistent Fenced NoJobLost
PROPERTIES ClaimStands
