CONSTANTS
    e1 = e1
    e2 = e2
    g = g
    r1 = r1
    r2 = r2
    w1 = w1
    w2 = w2
    EventId = {e1, e2}
    Garbled = {}
    Relay = {r1, r2}
    Worker = {w1, w2}
    MaxAttempts = 2
    Batch = 2
    MaxFailures = 2
SPECIFICATION Spec
INVARIANTS TypeOK NothingLost EffectOnce GivenUpAfterAllAttempts
PROPERTIES ImplementsEventBus
SYMMETRY LinkSymmetry
CHECK_DEADLOCK FALSE
