SPECIFICATION Spec
CONSTANTS
    NMAX <- MCNMAX
    MaxFrames <- MCMaxFrames
INVARIANTS
    TypeOK
    CountInRange
    SendsOnlyFilledSlots
PROPERTIES
    RingDrains
