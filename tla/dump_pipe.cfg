SPECIFICATION FairSpec
CONSTANTS
    Blocks = 4
    PipeCapacity = 2
INVARIANTS
    ReturnsDumpOutcome
    NoProcessLeft
PROPERTIES
    EndsDespiteHang
CHECK_DEADLOCK FALSE
