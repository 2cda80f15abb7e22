SPECIFICATION DeliverySpec
CONSTANTS
    Disturbances <- Everything
    MaxRuns = 3
    Chunks = 2
INVARIANTS
    DeliveryTypeOK
    VerifiedIsStored
    SuccessMeansStored
    ReportTruthful
    ColorHonest
    EmbedSuffices
    DeliveredIsWhole
    ReportMatchesFile
PROPERTIES
    ReplacedOnlyByValidDump
CHECK_DEADLOCK FALSE
