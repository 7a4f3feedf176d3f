SPECIFICATION FairSpec
CONSTANTS
    Payloads = {a}
    Malformed = {}
    Workers = {w1}
    UseDlq = TRUE
    MaxReceives = 2
    BatchSize = 2
    MaxKeys = 4
    MaxFaults = 1
PROPERTIES
    EventuallySettled
CHECK_DEADLOCK FALSE
