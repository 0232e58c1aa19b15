SPECIFICATION Spec
CONSTANTS
    p1 = p1
    p2 = p2
    q1 = q1
    q2 = q2
    h1 = h1
    h2 = h2
    NoOwner = NoOwner
    NoPartition = NoPartition
    Partitions = {p1}
    Routable = {p1}
    Procs = {q1}
    ReplicaOf <- TwoPods
    Handlers = {h1, h2}
    ProcOf <- Siblings
    MaxRequeue = 2
    MaxReplay = 0
    MaxUnclaimed = 0
    MaxRetries = 0
    NoHeartbeat = FALSE
    SweeperFails = FALSE
    MaxConnLoss = 0
    MaxClaimLoss = 0
    MaxOutage = 2
CHECK_DEADLOCK FALSE
INVARIANTS TypeOK FenceExclusive
PROPERTIES StolenStaysStolen TerminalFinal LiveLeaseKept KeepsPromise
