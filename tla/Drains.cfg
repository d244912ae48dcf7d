CONSTANTS
    e1 = e1
    e2 = e2
    g = g
    r1 = r1
    r2 = r2
    w1 = w1
    w2 = w2
    EventId = {e1}
    Garbled = {g}
    Relay = {r1}
    Worker = {w1, w2}
    MaxAttempts = 3
    Batch = 2
    MaxFailures = 2
SPECIFICATION FairSpec
PROPERTY EventuallyHandled
CHECK_DEADLOCK FALSE
