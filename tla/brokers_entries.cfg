SPECIFICATION Spec
CONSTANTS
    Messages = {m1, m2, big}
    Unsendable = {big}
    Backends = {"sqs"}
    ChunkSize = 2
    MaxMessages = 2
    BackendMax = 1
    TicksPerSecond = 2
    LeaseTicks = 2
    Delays = {1, 3}
    Deadlines = {1, 3}
    MaxLeases = 2
    MaxFaults = 2
INVARIANTS
    OkMeansSent
CHECK_DEADLOCK FALSE
