SPECIFICATION Spec
CONSTANTS
    MAX_CONNECTION <- MCSlots
    MaxSessions <- MCSessions
INVARIANTS
    CallsSetAction
    NullOnlyWhileLinking
    PassServesEachOnce
PROPERTIES
    ImplementsTable
    StartedIsServed
CHECK_DEADLOCK FALSE
