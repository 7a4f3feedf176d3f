SPECIFICATION FairSpec
CONSTANTS
    Payloads = {a, x}
    Undecodable = {x}
    Workers = {w1}
    UseDlq = FALSE
    MaxReceives = 2
    PendingBatchSize = 2
    MaxMessages = 1
    MaxEntries = 3
    MaxDeadLetters = 3
    MaxFaults = 0
PROPERTIES
    TimedOutRequeued
CHECK_DEADLOCK FALSE
