SPECIFICATION Spec
CONSTANTS
    Payloads = {a, b}
    Malformed = {}
    Workers = {w1}
    UseDlq = FALSE
    MaxReceives = 2
    BatchSize = 2
    MaxKeys = 3
    MaxFaults = 0
INVARIANTS
    RequeuedOnlyWhenLate
CHECK_DEADLOCK FALSE
