SPECIFICATION Spec
CONSTANTS
    Disturbances <- Everything
    MaxRuns = 2
INVARIANTS
    LeftoversHaveALine
    LinesAgree
    TypeOK
    VerifiedData
    WebDownOrReported
    ReportTruthful
    RecoveryStatusHonest
PROPERTIES
    NoDestroyWithoutDump
    KeepsContract
CHECK_DEADLOCK FALSE
