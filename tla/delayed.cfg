SPECIFICATION FairSpec
CONSTANTS
    Messages = {m1, m2, bad}
    Malformed = {bad}
    Workers = {w1, w2}
    Delays = {1, 2}
    MaxLag = 1
    TicksPerSecond = 2
    LockTtl = 2
    BatchSize = 2
    MaxTime = 7
    MaxFaults = 1
INVARIANTS
    DelayedInv
    NotPremature
    NotLost
    MovedOnce
PROPERTIES
    EventuallyMoved
CHECK_DEADLOCK FALSE
