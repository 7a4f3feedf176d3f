SPECIFICATION Spec
CONSTANTS
    Messages = {m1, big}
    Unsendable = {big}
    Backends = {"in_memory", "rabbitmq", "sqs", "gcp_pubsub", "azure"}
    ChunkSize = 1
    MaxMessages = 2
    BackendMax = 1
    TicksPerSecond = 2
    LeaseTicks = 2
    Delays = {1, 3}
    Deadlines = {1, 3}
    MaxLeases = 3
    MaxFaults = 2
INVARIANTS
    BrokersInv
    NoLoss
    Retryable
    RefusedWhole
    NotPremature
    DeadlineKept
PROPERTIES
    Implements
CHECK_DEADLOCK FALSE
