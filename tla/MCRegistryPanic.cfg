SPECIFICATION FairSpec
CONSTANTS
    t1 = t1
    t2 = t2
    t3 = t3
    Threads <- MCTwoThreads
    MaxContexts = 1
    U64Max = 3
PROPERTIES JobsFinish
CHECK_DEADLOCK FALSE
