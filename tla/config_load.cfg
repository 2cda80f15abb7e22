CONSTANTS
    NsPerMs = 2
    MsPerSecond = 2
    MaxInt64 = 31
    MaxInt32 = 12
    LockLimit = 8
    MaxEdits = 2
    Default <- MCDefault
    Numbers <- MCNumbers
SPECIFICATION Spec
INVARIANTS
    TimeoutsAsGiven
PROPERTIES
    MessageLeadsOn
