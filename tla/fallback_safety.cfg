SPECIFICATION Spec
CONSTANTS
    Payloads = {a, b, x}
    Malformed = {x}
    Workers = {w1, w2}
    UseDlq = TRUE
    MaxReceives = 2
    BatchSize = 2
    MaxKeys = 3
    MaxFaults = 1
SYMMETRY Symmetry
INVARIANTS
    FallbackInv
    NoLoss
    ReceivesBounded
    DeadLetterNotEarly
    FreshInOrder
PROPERTIES
    Implements
CHECK_DEADLOCK FALSE
