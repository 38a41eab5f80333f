SPECIFICATION Spec
CONSTANTS
    RTSP_BUFFERSIZE <- MCBufferSize
    OUT_BUFFERSIZE <- MCOutSize
    Kinds <- KnownKinds
    MaxRequests <- MCRequests
INVARIANTS
    TypeOK
    HandledInOrder
    OwnHeaders
    RepliesInOrder
    WildOnlyOnCut
PROPERTIES
    EveryRequestHandled
CHECK_DEADLOCK FALSE
