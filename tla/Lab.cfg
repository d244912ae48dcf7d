CONSTANTS
    p1 = p1
    p2 = p2
    Replica = {p1, p2}
    ServiceOf <- MCServiceOf
    Command <- MCCommand
    MaxPosts = 2
    MaxDrops = 2
    MaxKills = 1
SPECIFICATION Spec
INVARIANTS TypeOK LastWordObeyed
PROPERTIES BacklogDrains
CHECK_DEADLOCK FALSE
