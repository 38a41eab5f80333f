SPECIFICATION Spec
CONSTANTS
    c1 = c1
    c2 = c2
    c3 = c3
    Clients <- TwoClients
    MAX_CONNECTION = 2
    SessionIds <- OneId
    RequestIds <- OneId
    Transports <- OnlyUnicast
    MaxSetups = 1
    MaxAccepts = 2
    MaxRtp = 2
INVARIANTS
    RemovalKeepsServing
CHECK_DEADLOCK FALSE
