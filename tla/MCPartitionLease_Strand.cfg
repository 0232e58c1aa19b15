SPECIFICATION FairSpec
CONSTANTS
    p1 = p1
    p2 = p2
    q1 = q1
    q2 = q2
    h1 = h1
    h2 = h2
    NoOwner = NoOwner
    NoPartition = NoPartition
    Partitions = {p1}
    Routable = {p1}
    Procs = {q1}
    ReplicaOf <- TwoPods
    Handlers = {h1}
    ProcOf <- Alone
    MaxRequeue = 1
    MaxReplay = 0
    MaxUnclaimed = 0
    MaxRetries = 1
    NoHeartbeat = TRUE
    SweeperFails = FALSE
    MaxConnLoss = 0
    MaxClaimLoss = 1
    MaxOutage = 2
CHECK_DEADLOCK FALSE
INVARIANTS RegistryTight
PROPERTIES Settles
