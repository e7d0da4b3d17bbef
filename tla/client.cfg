\* Two requests of one host, up to two connection attempts at a time, two
\* connections the host may open: pool, connector and retries together.
CONSTANTS
    k1 = k1  a = a  b = b  d = d  r1 = r1  r2 = r2
    Keys = {k1}
    Conns = {a, b, d}
    SharedConns = {d}
    HostOf <- OneHost
    Checkouts = {r1, r2}
    Connects = {t1, t2}
    Ver = "Auto"
    MaxIdle = 2
    IdleTimeout = {}
    MaxTime = 0
    NoConn = NoConn
    NoAttemptId = NoAttemptId
    Plans <- MCPlans
SPECIFICATION CFairSpec
CHECK_DEADLOCK FALSE
INVARIANTS StartedOnce FormFits CheckoutLossHarmless
PROPERTIES NoFalseConnectError RequestEnds
