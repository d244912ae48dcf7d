CONSTANTS
    o1 = o1
    o2 = o2
    Order = {o1}
    Faults <- Declines
    TotalCents <- MCTotalCents
    InitialStock = 1
SPECIFICATION Spec
PROPERTY CompensationIsNoOp
CHECK_DEADLOCK FALSE
