CONSTANTS
    IsServer = TRUE
    Plans <- EarlyPlans
    MaxSends = 0
    MaxRounds = 2
SPECIFICATION Spec
CHECK_DEADLOCK FALSE
INVARIANT QueueEmptyForHeaders
