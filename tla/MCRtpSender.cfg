SPECIFICATION Spec
CONSTANTS
    MAX_RTP_PKT_LENGTH <- MCLength
    SeqMod <- MCSeqMod
    FrameSizes <- MCSizes
    MaxFrames <- MCFrames
INVARIANTS
    TypeOK
    JoinedIsFrame
    MarkerEndsFrame
CHECK_DEADLOCK FALSE
