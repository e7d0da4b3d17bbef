CONSTANTS
    r1 = r1
    r2 = r2
    r3 = r3
    r4 = r4
    Requests = {r1, r2, r3, r4}
    ReadyFirst = FALSE
    MayDropConn = FALSE
    None = None
SPECIFICATION FairSpec
CHECK_DEADLOCK FALSE
INVARIANTS NeverUnanswered ReturnedUnstarted QueueBounded
PROPERTY ResolvedUnlessStuck
