SPECIFICATION AnsweredSpec
CONSTANTS
    Disturbances <- Nothing
    MaxRuns = 2
PROPERTIES
    CleanRunSucceeds
CHECK_DEADLOCK FALSE
