CONSTANTS
    Limit = 9
    MaxRunes = 5
SPECIFICATION Spec
INVARIANTS
    ShowsTheMost
CHECK_DEADLOCK FALSE
