SPECIFICATION FifoSpec
CONSTANTS
    f1 = f1
    f2 = f2
    Frames <- MCFrames
    NoFrame = NoFrame
    NMAX <- MCNMAX
INVARIANTS
    CountersAgree
PROPERTIES
    ImplementsQueue
