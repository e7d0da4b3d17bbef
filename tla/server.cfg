CONSTANTS
    c1 = c1
    c2 = c2
    Conns = {c1, c2}
    Plans <- MCPlans
    MaxErrors = 1
SPECIFICATION FairSpec
CHECK_DEADLOCK FALSE
INVARIANTS KeepsRequests Rewound
PROPERTIES ShutdownEnds OrphansEnd
