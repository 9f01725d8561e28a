CONSTANTS
    Documents <- MCDocuments
    Baselines <- MCBaselines
    Drafts <- MCDrafts
    Saved <- MCSaved
    MaxObjects = 2
    MaxRevision = 1
    Scopes <- MCScopes
SPECIFICATION Spec
INVARIANTS ConsentIsExact StartedIsKept
PROPERTY RebaseIsOwned
CHECK_DEADLOCK FALSE
