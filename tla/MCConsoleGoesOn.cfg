CONSTANTS
    MaxCommands = 2
    MaxArgs = 2
    MaxWord = 2
    TIMER_FREQ = 1
    MILLIS = 2
    Needed = 0
    Chars = {"g", " "}
    MaxLine = 3
    MaxNumber = 1
    MaxEntered = 3
    Blank = " "
    Option <- OneLetter
    Usage <- NoLetter
    Kinds <- AllKinds
SPECIFICATION Spec
INVARIANTS
    GoesOnOnlyIfAsked
CHECK_DEADLOCK FALSE
