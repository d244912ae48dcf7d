CONSTANTS
    o1 = o1
    o2 = o2
    Order = {o1}
    Faults <- Timeouts
    TotalCents <- MCTotalCents
    InitialStock = 1
SPECIFICATION Spec
INVARIANT CancelledLeavesNothing
CHECK_DEADLOCK FALSE
