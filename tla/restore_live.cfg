SPECIFICATION FairSpec
CONSTANTS
    Disturbances <- FaultsAndCancel
    MaxRuns = 1
PROPERTIES
    HangsOnlyAtUnbounded
    SignalIsHeard
CHECK_DEADLOCK FALSE
