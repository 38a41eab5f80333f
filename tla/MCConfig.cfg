SPECIFICATION Spec
CONSTANTS
    Tables <- MCTables
    Before <- MCBefore
    Files <- MCFiles
    MAX_SECTIONS = 16
    Numeral <- MCNumeral
INVARIANTS
    OwnKeyWins
    StrayOnlyFromSecondHalf
    OkMeansComplete
    NamesMeanSdkValues
CHECK_DEADLOCK FALSE
