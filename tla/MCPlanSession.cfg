SPECIFICATION Spec
CONSTANTS
    s1 = s1
    s2 = s2
    Sessions = {s1, s2}
    Baselines <- MCBaselines
    Graph <- MCGraph
    Correlated <- MCCorrelated
    U64Max = 5
    MaxOperations = 2
    DefaultLimit = 2
    Scopes <- MCScopes
INVARIANTS HistoryIsTimeline IdentitiesAreStable
PROPERTIES RevisionNamesContent RemovalStrandsNothing RebaseTranslates
CHECK_DEADLOCK FALSE
