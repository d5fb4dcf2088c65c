SPECIFICATION PmmSpec
CONSTANTS
    PMM_PAGE_SIZE = 8
    PMM_MAX_ORDER = 3
    PageStruct = 3
    Memmaps <- OneEntry
    Width = 4
    PmmSizes <- PageSizes
    MaxRefs = 2
INVARIANT StatisticsRight
