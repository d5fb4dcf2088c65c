SPECIFICATION VmmSpec
CONSTANTS
    u1 = u1
    Levels = 3
    Fanout = 8
    AddressWrap = 1024
    Ram = 16
    HHDM = 768
    Kernel_Start = 1016
    Kernel_Phys = 1
    Spaces <- OneSpace
    Kernel = kernel_vas
    Pool <- SomeFrames
    Device = 20
    VMM_USER_START = 7
    VMM_USER_END = 8
    VMM_KERNEL_START = 838
    VMM_KERNEL_END = 840
    VmmSizes <- SmallSizes
    Flags <- SomeFlags
INVARIANT NothingLost
