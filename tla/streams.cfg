SPECIFICATION Spec
CONSTANTS
    Payloads = {a, x}
    Undecodable = {x}
    Workers = {w1, w2}
    UseDlq = TRUE
    MaxReceives = 2
    PendingBatchSize = 2
    MaxMessages = 2
    MaxEntries = 3
    MaxDeadLetters = 2
    MaxFaults = 1
SYMMETRY Symmetry
INVARIANTS
    StreamsInv
    NoLoss
    ReceivesBounded
    DeadLetterNotEarly
    OnceWhenTimely
PROPERTIES
    Implements
CHECK_DEADLOCK FALSE
