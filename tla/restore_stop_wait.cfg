SPECIFICATION Spec
CONSTANTS
    Disturbances <- Nothing
    MaxRuns = 1
PROPERTIES
    WebStoppedBeforeReset
CHECK_DEADLOCK FALSE
