SPECIFICATION Spec
CONSTANTS
    c1 = c1
    c2 = c2
    c3 = c3
    Clients <- ThreeClients
    MAX_CONNECTION = 2
    SessionIds <- OneId
    RequestIds <- AnyHeader
    Transports <- AnyTransport
    MaxSetups = 2
    MaxAccepts = 3
    MaxRtp = 4
SYMMETRY ThreeSymmetry
INVARIANTS
    TypeOK
    ConnCount
    HandlesOwnedOnce
    SlotHasOwner
    StreamsFollowPlay
    DoPlayNeverOvercounts
PROPERTIES
    PoliteUsesTable
CHECK_DEADLOCK FALSE
