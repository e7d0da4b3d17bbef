\* One host, HTTP/1 and HTTP/2 chosen by ALPN, two competing checkouts.
CONSTANTS
    k1 = k1  k2 = k2  a = a  b = b  d = d
    x1 = x1  x2 = x2  x3 = x3  t1 = t1  t2 = t2
    Keys = {k1}
    Conns = {a, b, d}
    SharedConns = {d}
    HostOf <- OneHost
    Checkouts = {x1, x2}
    Connects = {t1, t2}
    Ver = "Auto"
    MaxIdle = 2
    IdleTimeout = {1}
    MaxTime = 2
    NoConn = NoConn
SPECIFICATION Spec
SYMMETRY Symmetry
CHECK_DEADLOCK FALSE
INVARIANTS IdleExcludesWaiters WaitersReachable UniqueCustody
PROPERTIES NoConnLost
