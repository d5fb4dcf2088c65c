SPECIFICATION StressSpec
CONSTANTS
    w1 = w1
    w2 = w2
    k1 = k1
    NULL = NULL
    Idle = Idle
    IdleTask = IdleTask
    Threads <- TwoWorkers
    Tasks <- OneTask
    VmmUsers <- TwoWorkers
    Halters <- NoThreads
    Exiters <- TwoWorkers
    INITIAL_TICKS = 1
    MaxSleep = 1
    MaxElapsed = 1
    Cycles = 1
PROPERTY StressTestCompletes
CHECK_DEADLOCK FALSE
