CONSTANTS
    Bytes = 3
    BITS_8 = 2
    MaxRequest = 4
SPECIFICATION Spec
INVARIANTS
    NothingSkipped
    MappedIffTaken
PROPERTIES
    RequestReturns
    ImplementsPageFrames
CHECK_DEADLOCK FALSE
