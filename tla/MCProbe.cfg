SPECIFICATION Spec
CHECK_DEADLOCK FALSE
CONSTANTS
    BytesMax = 8
    Moves <- MCMoves
    Services <- MCServices
    MaxEpoch = 2
    MaxChanges = 1
    MaxFailures = 1
INVARIANTS
    PassIsPublished
    SilenceIsComplete
    SameThing
