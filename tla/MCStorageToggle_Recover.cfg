SPECIFICATION FairSpec
CONSTANTS
    Event = {"e1", "e2"}
    Backend = {"azure", "onprem"}
    Job = {"j"}
    First = "azure"
    None = "none"
    MaxFault = 2
INVARIANT TypeOK
INVARIANT AbortWins
INVARIANT Fenced
PROPERTY CutoverFenced
PROPERTY Unblocks
CHECK_DEADLOCK FALSE
