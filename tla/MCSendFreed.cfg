SPECIFICATION Spec
CONSTANTS
    MAX_CONNECTION <- MCSlots
    MaxSessions <- MCSessions
INVARIANTS
    SendsOnlyOpenHandles
CHECK_DEADLOCK FALSE
