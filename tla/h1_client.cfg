CONSTANTS
    IsServer = FALSE
    Plans <- ClientPlans
    MaxSends = 2
    MaxRounds = 2
SPECIFICATION FairSpec
CHECK_DEADLOCK FALSE
PROPERTIES NoStaleResponse AnsweredAfterEof
