SPECIFICATION FairSpec
CONSTANTS
    Statements = 4
    PipeCapacity = 2
INVARIANTS
    ReturnsRestoreOutcome
PROPERTIES
    EndsOnSignal
CHECK_DEADLOCK FALSE
