SPECIFICATION Spec
CONSTANTS
    Statements = 4
    PipeCapacity = 2
INVARIANTS
    NeverPartlyRestored
CHECK_DEADLOCK FALSE
