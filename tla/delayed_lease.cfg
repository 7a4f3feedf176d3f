SPECIFICATION Spec
CONSTANTS
    Messages = {m1}
    Malformed = {}
    Workers = {w1, w2}
    Delays = {0}
    MaxLag = 0
    TicksPerSecond = 2
    LockTtl = 2
    BatchSize = 1
    MaxTime = 9
    MaxFaults = 0
INVARIANTS
    LeaseExclusion
CHECK_DEADLOCK FALSE
