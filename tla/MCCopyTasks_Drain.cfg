SPECIFICATION FairSpec
CONSTANTS
    Task = {1, 2}
    Wf = {"w1","w2"}
    WfOf <- TwinWfOf
    Last = {}
    Batches <- TwinBatches
    Slot = {1}
    Proc = {1}
    ProcOf <- SoloProc
    SnapOf <- PairSnap
    Queue = {11,12,13,14}
    QueueOf <- TwinQueue
    Up <- TwinUp
    Quantum <- Unit
    LaneOf <- TwinLane
    LaneCapacity <- Lanes
    TenantOf <- TwinTenant
    TenantCapacity = 2
    TotalCapacity = 1
    WaitMax = 0
    Cancellable = {}
    Endable = {"j1"}
    MaxFault = 3
    MaxLapse = 0
    MaxLead = 2
INVARIANT BudgetHolds
PROPERTY Drains
CHECK_DEADLOCK FALSE
