SPECIFICATION FairSpec
CONSTANTS
    Subscriber = {s1, s2}
    BatchSize = 2
    MaxChanges = 2
    MaxLog = 5
CHECK_DEADLOCK FALSE
INVARIANTS
    CaughtUp
PROPERTIES
    InOrder
    SubscribeReturns
