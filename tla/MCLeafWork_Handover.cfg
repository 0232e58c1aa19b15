SPECIFICATION FairSpec
CONSTANTS
    Leaf = {"l1", "l2"}
    Slot = {"s1", "s2"}
    MaxFault = 3
    CanCancel = TRUE
    CanRequeue = TRUE
INVARIANT TypeOK
INVARIANT HandedOver
INVARIANT LeafCarried
 
PROPERTY LeafFinal
 
PROPERTY Settles
CHECK_DEADLOCK FALSE
