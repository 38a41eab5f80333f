SPECIFICATION Spec
CONSTANTS
    Mp4Enable = TRUE
    NightModeEnable = TRUE
    BITS = 2
    Table <- MCTable
    e <- MCe
    Numbers <- MCNumbers
    Wirings <- MCWirings
    MaxMappings = 21
INVARIANTS
    TypeOK
    GreyUnlessRefused
    NightShowsTheByte
    ChangesCostMappings
    CaptureCleansUp
PROPERTIES
    ChangeCompletes
CHECK_DEADLOCK FALSE
