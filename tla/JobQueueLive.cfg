SPECIFICATION FairSpec
CONSTANTS
    j1 = j1
    j2 = j2
    w1 = w1
    w2 = w2
    A = A
    B = B
    Jobs = {j1}
    Workers = {w1, w2}
    WorkerIds = {A, B}
    NoWorker = NoWorker
    NoJob = NoJob
    WorkerId <- OwnIds
    MaximumAttempts <- TwoAttempts
    Priority <- OnePriority
    Queue <- OneQueue
    Served <- ServeAll
    SkipLocked = TRUE
    Once = {w1}
    Lease = 3
    HeartbeatInterval = 1
    Heartbeats = TRUE
    Timely = TRUE
    StampPeriod = 3
    CutoffRounded = TRUE
    RetryDelay = 1
    AttemptBound = 4
    OverdueBound = 0
    DelayBound = 1
    AgeBound = 7
    DisturbanceBound = 2

PROPERTIES RowsAreRecords LeaseHonoured ActiveClaimKept EventuallyConcluded OrphanedClaimsRecovered
