SPECIFICATION Spec
CONSTANTS
    Task = {1,2,3}
    Wf = {"w1","w2"}
    WfOf <- PairWfOf
    Last = {2}
    Batches <- PairBatches
    Slot = {1,2}
    Proc = {1}
    ProcOf <- OneProc
    SnapOf <- PairSnap
    Queue = {11, 12, 13, 21, 22, 23}
    QueueOf <- PairQueue
    Up <- PairUp
    Quantum <- Unit
    LaneOf <- PairLane
    LaneCapacity <- Lanes
    TenantOf <- PairTenant
    TenantCapacity = 2
    TotalCapacity = 1
    WaitMax = 1
    Cancellable = {"j1"}
    Endable = {"j2"}
    MaxFault = 1
    MaxLapse = 1
    MaxLead = 1
INVARIANT TypeOK
INVARIANT ExecutorOwns
PROPERTY ClaimKept
PROPERTY KeepsPromise
CHECK_DEADLOCK FALSE
