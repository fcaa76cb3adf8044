CONSTANTS
    MaxCommands = 2
    MaxArgs = 9
    MaxWord = 1
    TIMER_FREQ = 1
    MILLIS = 1
    Needed = 0
    Chars = {" "}
    MaxLine = 3
    MaxNumber = 0
    MaxEntered = 3
    Blank = " "
    Option <- Unused
    Usage <- NoLetter
    Kinds <- NoKinds
    MAX_COLUMNS = 3
    MAX_LINES = 3
    prompt <- MCPrompt
    boot <- MCBoot
    Outputs <- MCOutputs
    FreeCells = 48
SPECIFICATION LineSpec
INVARIANT LineIsShown
PROPERTY KernelOutlivesTheLine
CHECK_DEADLOCK FALSE
