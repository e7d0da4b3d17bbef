------------------------------ MODULE MCClient ------------------------------
(* Constants for checking Client.                                          *)
EXTENDS Client, TLC

CONSTANTS k1, a, b, d, r1, r2

OneHost == [c \in Conns |-> k1]

Get     == [method |-> "GET", version |-> "1.1", uri |-> "absolute"]
Get2    == [Get EXCEPT !.version = "2"]
Tunnel  == [method |-> "CONNECT", version |-> "1.1", uri |-> "authority"]

Plain   == [eyeballs |-> FALSE, timeout |-> FALSE, local4 |-> FALSE,
            local6 |-> FALSE, enforce |-> FALSE]
Happy   == [Plain EXCEPT !.eyeballs = TRUE]

V4(does) == [v6 |-> FALSE, does |-> does]
V6(does) == [v6 |-> TRUE, does |-> does]

Basic   == [reqs |-> (r1 :> Get @@ r2 :> Get), scheme |-> "http", kinds |-> {a, b},
            proxied |-> {}, addrs |-> <<V4("ok")>>, lookup |-> "literal",
            cfg |-> Plain, retry |-> TRUE, droppable |-> {}]

MCPlans == {
    \* The preferred family hangs; only the fallback connects.
    [Basic EXCEPT !.addrs = <<V6("hang"), V4("ok")>>, !.cfg = Happy],
    \* The host speaks HTTP/1 on one connection and HTTP/2 on the other.
    [Basic EXCEPT !.scheme = "https", !.kinds = {a, d}],
    \* One connection is proxied; the second request may be dropped.
    [Basic EXCEPT !.proxied = {b}, !.droppable = {r2}],
    \* HTTP/2 by ALPN, with a dropped request and an HTTP/2-only request.
    [Basic EXCEPT !.reqs = (r1 :> Get2 @@ r2 :> Get), !.scheme = "https",
                  !.kinds = {a, d}, !.droppable = {r1}, !.retry = FALSE],
    \* A tunnel, and addresses that are slow, refuse or cannot be bound.
    [Basic EXCEPT !.reqs = (r1 :> Tunnel @@ r2 :> [Get EXCEPT !.uri = "origin"]),
                  !.lookup = "ok", !.cfg = [Happy EXCEPT !.timeout = TRUE],
                  !.addrs = <<V6("slow"), V4("refuse"), V6("bind"), V4("hang"), V4("ok")>>],
    [Basic EXCEPT !.reqs = (r1 :> Get @@ r2 :> [Tunnel EXCEPT !.version = "1.0"]),
                  !.cfg = [Happy EXCEPT !.local6 = TRUE],
                  !.addrs = <<V4("ok"), V6("refuse"), V6("bind")>>],
    \* A local address of the one family, a host that has only the other.
    [Basic EXCEPT !.lookup = "ok", !.addrs = <<V6("ok")>>,
                  !.cfg = [Happy EXCEPT !.local4 = TRUE, !.timeout = TRUE]],
    [Basic EXCEPT !.addrs = <<V6("ok")>>, !.cfg = [Happy EXCEPT !.local4 = TRUE]],
    [Basic EXCEPT !.lookup = "fails"],
    [Basic EXCEPT !.lookup = "unready"],
    [Basic EXCEPT !.scheme = "https", !.cfg = [Plain EXCEPT !.enforce = TRUE]] }

=============================================================================
