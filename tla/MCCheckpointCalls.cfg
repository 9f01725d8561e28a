SPECIFICATION CallSpec
CONSTANTS
    p1 = p1
    p2 = p2
    t1 = t1
    t2 = t2
    Processes = {p1, p2}
    Nobody = Nobody
    Inodes = {1, 2, 3}
    NoInode = 0
    Attempts = {t1, t2}
    NoAttempt = NoAttempt
    Unreadable = Unreadable
INVARIANTS ArmedSurvives ClearedStaysCleared
PROPERTY ImplementsMutex
