SPECIFICATION KernelSpec
CONSTANTS
    w1 = w1
    w2 = w2
    Threads <- TwoThreads
    Idle = Idle
    PageWords = 30
    StackPages = 2
    HandlerWords = 4
    Depths <- FewDepths
    PitWrap = 16
    PitPerMs = 6
    LapicWrap = 1024
    ticks_to_wait = 5
    LapicRate = 13
    TscRate = 20
    ReadDelays <- Soon
    PollDelays <- Late
    IntBits = 5
    LongBits = 7
    u1 = u1
    Levels = 3
    Fanout = 8
    AddressWrap = 1024
    Ram = 16
    HHDM = 768
    Kernel_Start = 1016
    Kernel_Phys = 1
    Spaces <- OneSpace
    Kernel = kernel_vas
    Pool <- SomeFrames
    Device = 20
    VMM_USER_START = 7
    VMM_USER_END = 8
    VMM_KERNEL_START = 838
    VMM_KERNEL_END = 840
    VmmSizes <- SmallAreas
    Flags <- SomeFlags
SYMMETRY Symmetry
INVARIANTS
    ContextIntact StackSafe
    ClockIsRight
    InterruptsFindKernel
    StringsRight PrintsRight LineFits
    AreasSorted MappedOnlyInAreas KernelAlwaysMapped FramesNotShared TlbIsCurrent
PROPERTY LostOnlyAsTables
CHECK_DEADLOCK FALSE
