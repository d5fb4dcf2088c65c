SPECIFICATION FairSpec
CONSTANTS
    t1 = t1
    t2 = t2
    t3 = t3
    NULL = NULL
    Idle = Idle
    Wrap = 2
    VmmUsers <- OneThread
    Threads <- ThreeThreads
INVARIANTS NeverSpins InterruptsRestored
PROPERTIES ImplementsFifo WaiterEnters
