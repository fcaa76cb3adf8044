SPECIFICATION Spec
CONSTANTS
    TickModulus = 4
    MaxSleep = 2
    MaxLag = 1
INVARIANTS
    HandlersAreReady
    ReadsSelectedRegister
    SleepsLongEnough
    NothingLeftInService
PROPERTIES
    SleepComesBack
