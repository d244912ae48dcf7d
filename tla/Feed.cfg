CONSTANTS
    c1 = c1
    c2 = c2
    c3 = c3
    Client = {c1, c2}
    Slow = {c1}
    Recent = 1
    MaxMessages = 2
SPECIFICATION Spec
INVARIANTS TypeOK NoGap
PROPERTIES FanOutReaches
