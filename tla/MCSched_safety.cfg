SPECIFICATION Spec
CONSTANTS
    w1 = w1
    w2 = w2
    w3 = w3
    k1 = k1
    k2 = k2
    NULL = NULL
    Idle = Idle
    IdleTask = IdleTask
    Threads <- ThreeThreads
    Tasks <- TwoTasks
    VmmUsers <- ThreeThreads
    Halters <- ThreeThreads
    Exiters <- ThreeThreads
    INITIAL_TICKS = 2
    MaxSleep = 1
    MaxElapsed = 1
INVARIANTS OnlyCurrentRuns WaitersQueued MutexExclusion ReaperSafe
PROPERTIES ZombieIsFinal HeapMutexIsFifo
SYMMETRY Symmetry
CHECK_DEADLOCK FALSE
