SPECIFICATION FairSpec
CONSTANTS
    t1 = t1
    t2 = t2
    t3 = t3
    Threads <- MCThreads
    MaxContexts = 1
    U64Max = 3
INVARIANTS WorkersAreCounted JobRunsAlone
PROPERTIES CallsReturn ServedJobsFinish
CHECK_DEADLOCK FALSE
