CONSTANTS
    o1 = o1
    o2 = o2
    Order = {o1, o2}
    Faults <- EveryFault
    TotalCents <- MCTotalCents
    InitialStock = 1
SPECIFICATION Spec
INVARIANTS TypeOK OneVerdict StockConserved StepsInOrder NoStrandedStock
    CountdownExact CompletedIsKept CancelledIsUndone ConsistentAtRest LedgerBalances NoOrderForgotten
PROPERTIES TerminalIsFinal CompensationUndoes ImplementsLifecycle
CHECK_DEADLOCK FALSE
