SPECIFICATION FairSpec
CONSTANTS
    p1 = p1
    p2 = p2
    q1 = q1
    q2 = q2
    h1 = h1
    h2 = h2
    NoOwner = NoOwner
    NoPartition = NoPartition
    Partitions = {p1}
    Routable = {p1}
    Procs = {q1, q2}
    ReplicaOf <- Restart
    Handlers = {h1, h2}
    ProcOf <- OneEach
    MaxRequeue = 1
    MaxReplay = 1
    MaxUnclaimed = 0
    MaxRetries = 0
    NoHeartbeat = FALSE
    SweeperFails = FALSE
    MaxConnLoss = 0
    MaxClaimLoss = 0
    MaxOutage = 0
CHECK_DEADLOCK FALSE
PROPERTIES Settles
