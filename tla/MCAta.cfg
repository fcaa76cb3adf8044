CONSTANTS
    NChannels = 1
    Values = {a, b}
    NoValue = NoValue
    Capacity = 5
    ByteValues = 4
    HeadValues = 2
    SectorsPerTrack = 2
    Heads = 2
    Lbas <- SomeLbas
    MaxSectors = 2
SPECIFICATION Spec
INVARIANTS
    NoTransferWhileBusy
    ReadDelivers
    WriteStores
PROPERTIES
    OnlyAskedIsWritten
    CallsComeBack
