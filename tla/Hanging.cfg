CONSTANTS
    o1 = o1
    o2 = o2
    Order = {o1}
    Faults <- Scans
    TotalCents <- MCTotalCents
    InitialStock = 1
SPECIFICATION FairSpec
PROPERTY EveryOrderCloses
CHECK_DEADLOCK FALSE
