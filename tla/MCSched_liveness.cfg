SPECIFICATION FairSpec
CONSTANTS
    w1 = w1
    w2 = w2
    w3 = w3
    k1 = k1
    k2 = k2
    NULL = NULL
    Idle = Idle
    IdleTask = IdleTask
    Threads <- TwoThreads
    Tasks <- OneTask
    VmmUsers <- NoThreads
    Halters <- NoThreads
    Exiters <- TwoThreads
    INITIAL_TICKS = 2
    MaxSleep = 2
    MaxElapsed = 2
INVARIANT NoFreeze
PROPERTIES ReadyRuns WaiterGetsMutex SleeperResumes ExitedTaskReaped
