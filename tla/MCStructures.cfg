SPECIFICATION Spec
CONSTANTS
    w1 = w1
    w2 = w2
    w3 = w3
    k1 = k1
    k2 = k2
    NULL = NULL
    Idle = Idle
    IdleTask = IdleTask
    Threads <- ThreeThreads
    Tasks <- TwoTasks
    PMM_PAGE_SIZE = 8
    PMM_MAX_ORDER = 3
    PageStruct = 3
    Memmaps <- SmallMemmaps
    Width = 4
    PmmSizes <- SmallBlocks
    MaxRefs = 2
    NodeSize = 3
    PAGING_PAGE_SIZE = 16
    KHEAP_BLOCK_SIZE = 2
    KHEAP_MIN_SPLITTING_SIZE = 2
    StartingPages = 1
    ExtendingPages = 2
    Frames = 3
    HeapSizes <- SmallRegions
    SizeWrap = 64
    NONE = none
INVARIANTS
    ListsIntact
    EachPageOnce MergesAreListed FailsOnlyWhenFull CountsAreRight
    NodesTileHeap RegionsKept
PROPERTIES
    SearchIsRoundRobin SearchEnds ScanReapsFirst
    HeapCallsReturn
CHECK_DEADLOCK FALSE
