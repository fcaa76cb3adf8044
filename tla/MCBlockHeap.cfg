CONSTANTS
    Pages = 3
    MaxRequest = 2
    MAX_BLOCKS = 3
    PAGE_SIZE = 3
    MEMORY_MAP_ADDRESS = 6
    MaxSize = 8
SPECIFICATION HeapSpec
INVARIANTS
    ListsMatchFlags
    ListsOrdered
    BlocksDisjoint
    BlocksOnHeapPages
    NoByteLost
    NoIdlePage
PROPERTIES
    FreeReturns
    ImplementsAbstractHeap
CHECK_DEADLOCK FALSE
