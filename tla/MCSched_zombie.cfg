SPECIFICATION FairSpec
CONSTANTS
    w1 = w1
    w2 = w2
    w3 = w3
    k1 = k1
    k2 = k2
    NULL = NULL
    Idle = Idle
    IdleTask = IdleTask
    Threads <- TwoThreads
    Tasks <- OneTask
    VmmUsers <- NoThreads
    Halters <- NoThreads
    Exiters <- OneThread
    INITIAL_TICKS = 1
    MaxSleep = 1
    MaxElapsed = 1
PROPERTY ZombieReaped
