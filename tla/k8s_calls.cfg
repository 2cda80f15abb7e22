SPECIFICATION FairSpec
CONSTANTS
    MaxCalls = 2
    MaxForeign = 5
INVARIANTS
    ScaleSticks
PROPERTIES
    ActsOnTarget
    CallsEnd
    GivesUpOnlyUnderContention
    ForeignWritesKept
CHECK_DEADLOCK FALSE
