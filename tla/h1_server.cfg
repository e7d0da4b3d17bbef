CONSTANTS
    IsServer = TRUE
    Plans <- ServerPlans
    MaxSends = 0
    MaxRounds = 2
SPECIFICATION FairSpec
CHECK_DEADLOCK FALSE
INVARIANTS HalvesInStep CachedHeadersUsed
PROPERTIES NoMessageAfterClose Served Answered GracefulEnds
