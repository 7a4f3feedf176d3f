SPECIFICATION FairSpec
CONSTANTS
    Payloads = {a, b}
    Callers = {c1, c2}
    BatchSize = 2
    MaxDeadLetters = 3
    MaxFaults = 1
INVARIANTS
    RedriveInv
    RedriveLosesNothing
    RedrivenOnce
PROPERTIES
    RedriveEnds
CHECK_DEADLOCK FALSE
