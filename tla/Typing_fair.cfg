SPECIFICATION FairSpec
CONSTANTS
    Debounce = 4
    AutoStop = 6
    MaxLookups = 3
INVARIANTS TypingTypeOK AutoStopNotLate IndicatorCovered
PROPERTIES IndicatorGoesOff
CHECK_DEADLOCK FALSE
