SPECIFICATION ReplaySpec
CONSTANTS
    a1 = a1
    a2 = a2
    a3 = a3
    i1 = i1
    i2 = i2
    nil = nil
    none = none
    None = none
    NilInstance = nil
    MaxEpoch = 7
    MaxRunEvents = 2
    U64Max = 20
    Actions <- MCActions
    Before <- MCBefore
    Prerequisites <- MCPrerequisites
    Postconditions <- MCPostconditions
    GoalAspects <- MCGoalAspects
    Required <- MCRequired
    Observations <- MCObservations
    Checks <- MCChecks
    Held <- MCHeld
INVARIANTS EvidenceBacksState AdmissionSeesPredecessors EventLogContiguous CurrentViewIsExact SerialExecution
CHECK_DEADLOCK FALSE
