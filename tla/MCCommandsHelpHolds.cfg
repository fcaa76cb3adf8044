CONSTANTS
    Starts <- MCStarts
    MaxSeconds = 2
    MaxAnswers = 2
    BYTES = 16
    UINTS = 256
    QWORDS = 65536
    TIMER_FREQ = 10
    MILLIS = 100
    MAX_COLUMNS = 24
    MAX_LINES = 2
    Typed <- MCTyped
    Addresses <- MCAddresses
    OldTexts <- MCClear
SPECIFICATION Spec
INVARIANT HelpHolds
CHECK_DEADLOCK FALSE
