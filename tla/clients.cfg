SPECIFICATION Spec
CONSTANTS
    Base = 2
    Processes = {p1, p2}
    Bytes <- MCBytes
    Payloads <- MCPayloads
    OldPayloads <- MCOldPayloads
    Ids = {1, 2}
    MaxMessages = 1
    MaxReceives = 2
    MaxFaults = 1
SYMMETRY ProcessSymmetry
INVARIANTS
    ClientsInv
    PayloadIntact
    CountsTrue
    TypesAgree
    TasksLive
    InReach
CHECK_DEADLOCK FALSE
