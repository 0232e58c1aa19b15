SPECIFICATION Spec
CONSTANTS
    Leaf = {"l1", "l2"}
    Slot = {"s1", "s2"}
    MaxFault = 0
    CanCancel = FALSE
    CanRequeue = FALSE
INVARIANT HonestVerdict
CHECK_DEADLOCK FALSE
