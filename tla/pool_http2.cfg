\* Two hosts, HTTP/2 only: the connecting mark, waiters of an attempt, expiry.
CONSTANTS
    k1 = k1  k2 = k2  a = a  b = b  d = d
    x1 = x1  x2 = x2  x3 = x3  t1 = t1  t2 = t2
    Keys = {k1, k2}
    Conns = {a, d}
    SharedConns = {a, d}
    HostOf <- TwoHosts
    Checkouts = {x1, x2}
    Connects = {t1, t2}
    Ver = "Http2"
    MaxIdle = 1
    IdleTimeout = {0}
    MaxTime = 1
    NoConn = NoConn
SPECIFICATION FairSpec
CHECK_DEADLOCK FALSE
PROPERTIES Http2WaiterResolved
