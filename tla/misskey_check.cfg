SPECIFICATION FairSpec
CONSTANTS
    RequestTimeout = 3
    RetryInterval = 2
    Timeout = 11
INVARIANTS
    VerdictTruthful
    RequestsPaced
PROPERTIES
    NeverLate
    Ends
CHECK_DEADLOCK FALSE
