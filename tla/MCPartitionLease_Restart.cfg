SPECIFICATION Spec
CONSTANTS
    p1 = p1
    p2 = p2
    q1 = q1
    q2 = q2
    h1 = h1
    h2 = h2
    NoOwner = NoOwner
    NoPartition = NoPartition
    Partitions = {p1}
    Routable = {p1}
    Procs = {q1, q2}
    ReplicaOf <- Restart
    Handlers = {h1, h2}
    ProcOf <- OneEach
    MaxRequeue = 1
    MaxReplay = 0
    MaxUnclaimed = 1
    MaxRetries = 1
    NoHeartbeat = FALSE
    SweeperFails = TRUE
    MaxConnLoss = 1
    MaxClaimLoss = 0
    MaxOutage = 0
CHECK_DEADLOCK FALSE
INVARIANTS EvidenceSurvives DeadLetterVerdict
PROPERTIES KeepsPromise
