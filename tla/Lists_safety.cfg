SPECIFICATION Spec
CONSTANTS
    Rows <- MCRows
    Limit = 1
    Milli = 2
    LastTick = 4
    MaxEntered = 2
INVARIANTS TypeOK ListedOnce NothingMissed
CHECK_DEADLOCK FALSE
