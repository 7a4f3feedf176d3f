SPECIFICATION FairSpec
CONSTANTS
    Payloads = {a}
    Undecodable = {}
    Workers = {w1}
    UseDlq = TRUE
    MaxReceives = 2
    PendingBatchSize = 2
    MaxMessages = 1
    MaxEntries = 4
    MaxDeadLetters = 6
    MaxFaults = 1
PROPERTIES
    EventuallySettled
    TimedOutRequeued
CHECK_DEADLOCK FALSE
