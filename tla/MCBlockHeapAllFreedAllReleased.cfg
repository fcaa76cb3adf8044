CONSTANTS
    Pages = 3
    MaxRequest = 0
    MAX_BLOCKS = 4
    PAGE_SIZE = 3
    MEMORY_MAP_ADDRESS = 6
    MaxSize = 4
SPECIFICATION HeapSpec
INVARIANTS
    AllFreedAllReleased
CHECK_DEADLOCK FALSE
