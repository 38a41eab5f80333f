SPECIFICATION Spec
CONSTANTS
    SPS_LEN = 3
    PPS_LEN = 2
    PROFILE_LEN = 3
    ProfileWidths <- MCWidths
    MaxKeyFrames = 4
INVARIANTS
    CopyEndsInArray
    WholeTextsOncePublished
    OneFrameBehind
