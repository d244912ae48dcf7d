CONSTANTS
    o1 = o1
    o2 = o2
    Order = {o1, o2}
    Faults <- LostReplies
    TotalCents <- MCTotalCents
    InitialStock = 1
SPECIFICATION FairSpec
PROPERTIES EveryOrderCloses CancelledStockComesBack
CHECK_DEADLOCK FALSE
