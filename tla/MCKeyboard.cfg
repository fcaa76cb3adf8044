CONSTANTS
    Keys <- MCKeys
    MaxHeld = 2
    Buffer = 3
SPECIFICATION KeyboardSpec
INVARIANT ModifiersFollowKeys
INVARIANT KeyIsReported
