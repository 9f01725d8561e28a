SPECIFICATION Spec
CONSTANTS
    p1 = p1
    p2 = p2
    a1 = a1
    a2 = a2
    r1 = r1
    r2 = r2
    Processes <- MCProcesses
    Nobody = Nobody
    Actions <- MCActions
    Before <- MCBefore
    Order <- MCOrder
    Runs <- MCRuns
    Attempts <- MCAttempts
    NoAttempt = NoAttempt
    Unreadable = Unreadable
    NoRun = NoRun
    NoReview = NoReview
SYMMETRY MCSymmetry
INVARIANTS UnresolvedIsMarked NativeExclusion VerifiedHasEffect VerifiedRunIsClean
PROPERTIES InvokedAtMostOnce RemovalIsJustified ImplementsLedger
