------------------------------ MODULE Connector ------------------------------
(***************************************************************************)
(* HttpConnector (src/client/connect/http.rs, dns.rs): one connection      *)
(* attempt, from the URI to a connected socket.                            *)
(*                                                                         *)
(* An attempt is a record, and each operator below is one step of the task *)
(* that polls it.  The addresses a name resolves to come with what the     *)
(* network does when one is tried:                                         *)
(*   "ok"      connects                                                    *)
(*   "refuse"  fails                                                       *)
(*   "slow"    connects, perhaps after this address's share of the timeout *)
(*   "hang"    never answers                                               *)
(*   "bind"    cannot be tried: opening or binding the socket fails        *)
(*                                                                         *)
(* A definition whose name starts with Mut is a faulty variant of the one  *)
(* after it: a property is only worth its run if such a fault breaks it.   *)
(***************************************************************************)
EXTENDS Naturals, Sequences

Doings    == {"ok", "refuse", "slow", "hang", "bind"}
Addresses == [v6 : BOOLEAN, does : Doings]

\* Config: happy_eyeballs_timeout and connect_timeout set or not, the local
\* addresses given, enforce_http.
Configs == [eyeballs : BOOLEAN, timeout : BOOLEAN, local4 : BOOLEAN,
            local6 : BOOLEAN, enforce : BOOLEAN]

\* ConnectingTcpRemote: the addresses left, the first one being tried.
Remotes == [left : Seq(Addresses), st : {"off", "delayed", "running", "failed"}]

Off       == [left |-> <<>>, st |-> "off"]
NoAttempt == [phase |-> "none", pref |-> Off, fall |-> Off]

\* Oneshot: the connector is polled for readiness before it is called.
NewAttempt == [NoAttempt EXCEPT !.phase = "ready"]
Failed     == [NoAttempt EXCEPT !.phase = "failed"]
Connected  == [NoAttempt EXCEPT !.phase = "connected"]
Panicked   == [NoAttempt EXCEPT !.phase = "panicked"]

-----------------------------------------------------------------------------
\* get_host_port: which schemes the connector takes.  The URI comes from
\* domain_as_uri and so has a scheme and a host.
AcceptsScheme(cfg, scheme) == cfg.enforce => scheme = "http"

IsV4(a) == ~a.v6
IsV6(a) == a.v6

\* SocketAddrs::split_by_preference: a single local address rules the other
\* family out, otherwise the family of the first address is preferred.
SplitByPreference(cfg, addrs) ==
    IF cfg.local4 /\ ~cfg.local6
    THEN [pref |-> SelectSeq(addrs, IsV4), fall |-> <<>>]
    ELSE IF cfg.local6 /\ ~cfg.local4
    THEN [pref |-> SelectSeq(addrs, IsV6), fall |-> <<>>]
    ELSE IF addrs # <<>> /\ addrs[1].v6
    THEN [pref |-> SelectSeq(addrs, IsV6), fall |-> SelectSeq(addrs, IsV4)]
    ELSE [pref |-> SelectSeq(addrs, IsV4), fall |-> SelectSeq(addrs, IsV6)]

\* The two lists an attempt goes through.
Lists(cfg, addrs) == IF cfg.eyeballs THEN SplitByPreference(cfg, addrs)
                     ELSE [pref |-> addrs, fall |-> <<>>]

\* ConnectingTcpRemote::new divides connect_timeout by the number of addresses.
DividesByZero(cfg, addrs) == cfg.timeout /\ Lists(cfg, addrs).pref = <<>>

\* ConnectingTcp::new, which panics when there is no address to divide by.
ConnectingTcp(cfg, addrs) ==
    LET l == Lists(cfg, addrs) IN
    IF DividesByZero(cfg, addrs) THEN Panicked
    ELSE [phase |-> "tcp",
          pref  |-> [left |-> l.pref, st |-> "running"],
          fall  |-> IF l.fall = <<>> THEN Off
                    ELSE [left |-> l.fall, st |-> "delayed"]]

\* HttpConnector::poll_ready, then call_async up to the resolution of the name,
\* which is skipped for an IP address.  The resolver may fail to become ready.
CallAsync(cfg, scheme, literal, addrs, ready) ==
    IF ~ready \/ ~AcceptsScheme(cfg, scheme) THEN Failed
    ELSE IF literal THEN ConnectingTcp(cfg, addrs)
    ELSE [NoAttempt EXCEPT !.phase = "resolve"]

\* GaiFuture::poll: the lookup ends, or fails or was aborted.
Resolved(cfg, addrs, found) == IF found THEN ConnectingTcp(cfg, addrs) ELSE Failed

-----------------------------------------------------------------------------
\* connect and bind_local_address: how a try of address a may end.
Outcomes(cfg, a) ==
    CASE a.does = "ok"     -> {"ok"}
      [] a.does = "refuse" -> {"refuse"}
      [] a.does = "slow"   -> IF cfg.timeout THEN {"ok", "refuse"} ELSE {"ok"}
      [] a.does = "hang"   -> IF cfg.timeout THEN {"refuse"} ELSE {}
      [] a.does = "bind"   -> {"bind"}

\* ConnectingTcpRemote::connect, one turn of the loop: what the try of the
\* first address, or the end of the list, makes of the remote.  An error of
\* opening or binding the socket leaves the loop at once.
RemoteOutcomes(cfg, rem) ==
    IF rem.left = <<>> THEN {"failed"}
    ELSE {CASE o = "ok" -> "connected"
            [] o = "bind" -> "failed"
            [] o = "refuse" -> IF Len(rem.left) = 1 THEN "failed" ELSE "next" :
          o \in Outcomes(cfg, rem.left[1])}

MutRemoteFailed(a, side, other) == Failed

\* ConnectingTcp::connect: one remote has failed.  The other one is polled from
\* now on, without waiting for the rest of the delay; when both have, so has
\* the attempt.
RemoteFailed(a, side, other) ==
    IF a[other].st \in {"off", "failed"} THEN Failed
    ELSE [a EXCEPT ![side] = [left |-> <<>>, st |-> "failed"], ![other].st = "running"]

\* One remote makes a turn with the given outcome.
TcpTurn(a, side, outcome) ==
    CASE outcome = "connected" -> Connected
      [] outcome = "next"      -> [a EXCEPT ![side].left = Tail(@)]
      [] OTHER                 ->
            RemoteFailed(a, side, IF side = "pref" THEN "fall" ELSE "pref")

MutDelayOver(a) == a

\* The happy-eyeballs delay is over: both remotes are polled.
DelayOver(a) == [a EXCEPT !.fall.st = "running"]

\* Every attempt that may follow a in one step of the connector.
TcpSteps(cfg, a) ==
    (UNION {{TcpTurn(a, side, o) : o \in RemoteOutcomes(cfg, a[side])} :
               side \in {s \in {"pref", "fall"} : a[s].st = "running"}})
    \cup (IF a.fall.st = "delayed" THEN {DelayOver(a)} ELSE {})

-----------------------------------------------------------------------------
\* Some address would have been reached by trying the lists in order: nothing
\* before it in its own list ends the loop or waits for ever.
Reachable(cfg, addrs) ==
    LET l == Lists(cfg, addrs) IN
    \E s \in {l.pref, l.fall} : \E i \in 1..Len(s) :
        /\ s[i].does = "ok"
        /\ \A j \in 1..(i - 1) : s[j].does # "bind"

\* Trying the addresses comes to an end: without a timeout, a list may only
\* hang when the other one has an address that connects.
Conclusive(cfg, addrs) ==
    LET l == Lists(cfg, addrs)
        Reaches(s) == \E i \in 1..Len(s) : /\ s[i].does \in {"ok", "slow"}
                                           /\ \A j \in 1..(i - 1) : s[j].does = "refuse"
        Ends(s)    == \A i \in 1..Len(s) : s[i].does # "hang"
    IN  \/ cfg.timeout
        \/ Ends(l.pref) /\ Ends(l.fall)
        \/ Reaches(l.pref) \/ Reaches(l.fall)

=============================================================================
