------------------------------- MODULE Server --------------------------------
(***************************************************************************)
(* The server above the protocols: the accept loop (server/tcp.rs,         *)
(* server/conn.rs: Serve, SpawnAll, NewSvcTask), graceful shutdown         *)
(* (server/shutdown.rs, common/drain.rs), and a connection's choice of     *)
(* protocol (server/conn.rs: Connection): the switch from HTTP/1 to HTTP/2 *)
(* when the HTTP/2 preface is read, and the hand-over of an upgraded       *)
(* connection (upgrade.rs), both replaying the bytes already read          *)
(* (common/io/rewind.rs).  What a request does inside a connection is the  *)
(* subject of H1Dispatcher and H2Conn.                                     *)
(***************************************************************************)
EXTENDS Integers, SequencesExt

CONSTANTS
    Conns,          \* the connections clients may open
    Plans,          \* for a connection: who may run it, and what its client may send
    MaxErrors       \* bound on the errors of the listener

\* A client sends heads of HTTP/1 requests ("R"), one that asks for an upgrade
\* ("U") and the bytes of the protocol it upgrades to ("x"), or the preface of
\* HTTP/2 and streams ("S"), one being a CONNECT that announces a body ("C").
\* The preface is cut where it matters: before its version can be read, before
\* its 24th byte, and after it.
Preface == <<"P1", "P2", "P3">>
Tokens == {"R", "U", "x", "S", "C"} \cup ToSet(Preface)

ASSUME ServerAssumption ==
    /\ MaxErrors \in Nat
    /\ Plans \in [Conns -> SUBSET [by : {"Server", "user"}, script : Seq(Tokens)]]

VARIABLES
    graceful,       \* the server runs with_graceful_shutdown
    mode,           \* ConnectionMode: "H1Only", "H2Only" or "Fallback"
    srv,            \* the server's future: "running", "draining", "done", "failed"
    timeout,        \* AddrIncoming::timeout is set
    errors,         \* errors of the listener so far
    conn            \* the connections

vars == <<graceful, mode, srv, timeout, errors, conn>>

Live == {"connecting", "H1", "Handshaking", "Serving"}
Serving == Live \ {"connecting"}
Tasks == Live \cup {"none", "queued", "closed", "upgraded"}

NewConn(by, script) ==
    [task |-> "none",       \* where the connection is
     by |-> by,             \* run by a Server, or by a user's own task
     script |-> script,     \* what its client sends if it stays
     wire |-> <<>>, buf |-> <<>>, seen |-> <<>>,   \* unread, buffered, used
     eof |-> FALSE,         \* the client has closed its side
     ver |-> 0,             \* the version of the drain signal last seen
     told |-> FALSE,        \* graceful_shutdown has been called
     ka |-> "Busy",         \* the keep-alive state of the HTTP/1 connection
     open |-> 0,            \* requests taken and not answered yet
     up |-> "none",         \* the OnUpgrade of a request
     goaway |-> FALSE,      \* HTTP/2 is shutting down
     closing |-> FALSE,     \* and takes no more streams: its service has failed
     late |-> FALSE,        \* switched to HTTP/2 after graceful_shutdown
     why |-> "none"]        \* why the connection ended

Init ==
    /\ graceful \in BOOLEAN /\ mode \in {"H1Only", "H2Only", "Fallback"}
    /\ srv = "running" /\ timeout = FALSE /\ errors = 0
    /\ \E plan \in [Conns -> UNION {Plans[c] : c \in Conns}] :
          /\ \A c \in Conns : plan[c] \in Plans[c]
          /\ conn = [c \in Conns |-> NewConn(plan[c].by, plan[c].script)]

Set(c, r) == conn' = [conn EXCEPT ![c] = r]

\* The connection and its buffers are dropped; so is an upgrade not yet settled.
Close(k, why) ==
    [NewConn(k.by, k.script) EXCEPT !.task = "closed", !.why = why, !.open = k.open,
        !.late = k.late, !.up = IF k.up = "pending" THEN "canceled" ELSE k.up]

World == UNCHANGED <<graceful, mode, srv, timeout, errors>>

------------------------------------------------------------------------------
(* Accepting connections.                                                    *)

\* A client connects: the connection waits in the listener's backlog.
Connect(c) ==
    /\ conn[c].task = "none" /\ conn[c].by = "Server" /\ srv = "running"
    /\ Set(c, [conn[c] EXCEPT !.task = "queued", !.wire = conn[c].script])
    /\ World

Listening == srv = "running" /\ ~timeout

\* AddrIncoming yields a connection, and SpawnAll a task for it that waits for
\* the service to be made and holds a clone of the watcher meanwhile.
Accept(c) ==
    /\ Listening /\ conn[c].task = "queued"
    /\ Set(c, [conn[c] EXCEPT !.task = "connecting"])
    /\ World

\* An error of the connection being accepted is skipped.
AcceptReset(c) ==
    /\ Listening /\ conn[c].task = "queued"
    /\ Set(c, Close(conn[c], "eof"))
    /\ World

\* Any other error is slept over, or ends the server: set_sleep_on_errors.
AcceptError ==
    /\ Listening /\ errors < MaxErrors
    /\ errors' = errors + 1
    /\ \/ timeout' = TRUE /\ UNCHANGED srv
       \/ srv' = "failed" /\ UNCHANGED timeout
    /\ UNCHANGED <<graceful, mode, conn>>

\* The second of sleep is over: poll_next_ forgets it and accepts again.
TimeoutOver ==
    /\ srv = "running" /\ timeout
    /\ timeout' = FALSE
    /\ UNCHANGED <<graceful, mode, srv, errors, conn>>

\* MakeService::poll_ready fails, and the server with it; or a user's Accept ends,
\* and the server's future is done, graceful or not, with connections being served.
StopServing ==
    /\ srv = "running"
    /\ srv' \in {"failed", "done"}
    /\ UNCHANGED <<graceful, mode, timeout, errors, conn>>

\* The protocol a new connection starts with.
FirstProto == IF mode = "H2Only" THEN "Handshaking" ELSE "H1"

MutVersion == IF srv = "draining" THEN 1 ELSE 0

\* The value of the drain channel: sent when the signal fires; a Signal that is
\* dropped with the server's future also ends the wait for a change.
Version == IF srv = "running" THEN 0 ELSE 1

\* Watch::watch: the receiver is a clone of the one the task was spawned with,
\* so it has seen the first version only.
Watch(k) == [k EXCEPT !.task = FirstProto, !.ver = 0]

\* The service is made: the connection is served and watched.
ServiceMade(c) ==
    /\ conn[c].task = "connecting"
    /\ Set(c, Watch(conn[c]))
    /\ World

\* Making the service fails: the task logs it and ends.
ServiceRefused(c) ==
    /\ conn[c].task = "connecting"
    /\ Set(c, Close(conn[c], "service"))
    /\ World

\* A user serves a connection of its own with Http::serve_connection.
ServeConnection(c) ==
    /\ conn[c].task = "none" /\ conn[c].by = "user"
    /\ Set(c, [conn[c] EXCEPT !.task = FirstProto, !.wire = conn[c].script])
    /\ World

------------------------------------------------------------------------------
(* Graceful shutdown.                                                        *)

\* The signal fires: Graceful drops the accept loop, with the connections that
\* were not accepted, and signals the drain.
SignalReady ==
    /\ graceful /\ srv = "running"
    /\ srv' = "draining"
    /\ conn' = [c \in Conns |->
          IF conn[c].task = "queued"
          THEN Close(conn[c], "refused") ELSE conn[c]]
    /\ UNCHANGED <<graceful, mode, timeout, errors>>

\* The connections with a GracefulWatcher: a plain Server has a NoopWatcher, and
\* a user's own connection none.
Watched(c) == graceful /\ conn[c].by = "Server"

\* Tasks that hold a receiver of the drain channel.
Watchers == {c \in Conns : Watched(c) /\ conn[c].task \in Live}

\* Draining is over when every receiver has been dropped.
Drained ==
    /\ srv = "draining"
    /\ Watchers = {}
    /\ srv' = "done"
    /\ UNCHANGED <<graceful, mode, timeout, errors, conn>>

\* The upgrade gets the connection, and in front of it what has been read.
Fulfill(k) == [k EXCEPT !.up = "fulfilled", !.task = "upgraded"]

\* The upgrade fails, for the user has polled the connection for its parts.
Manual(k) == [k EXCEPT !.up = "manual", !.task = "upgraded"]

\* An HTTP/1 connection is done: it settles an upgrade that was asked for, as
\* UpgradeableConnection or as Connection does, or it is shut down.
H1Done(k, why) ==
    CASE k.up = "pending" /\ k.by = "Server" -> Fulfill(k)
      [] k.up = "pending" /\ k.by = "user" -> Manual(k)
      [] OTHER -> Close(k, why)

MutDisableKeepAlive(k) == H1Done([k EXCEPT !.told = TRUE], "drained")

\* Dispatcher::disable_keep_alive: an idle HTTP/1 connection closes, and another
\* one after the request under way (one that has had no request yet is not idle).
DisableKeepAlive(k) ==
    LET last == [k EXCEPT !.told = TRUE, !.ka = "Disabled"]
    IN  IF k.ka = "Idle" THEN H1Done(last, "drained") ELSE last

\* h2::Server::graceful_shutdown: a connection whose handshake is not over is
\* closed, and one that serves streams refuses new ones.
H2GracefulShutdown(k) ==
    IF k.task = "Handshaking" THEN Close(k, "drained")
    ELSE [k EXCEPT !.told = TRUE, !.goaway = TRUE]

\* Connection::graceful_shutdown.
GracefulShutdown(k) == IF k.task = "H1" THEN DisableKeepAlive(k) ELSE H2GracefulShutdown(k)

\* Watching polls the drain first: when it is signalled on_drain runs, once.
OnDrain(c) ==
    /\ Watched(c) /\ conn[c].task \in Serving
    /\ ~conn[c].told /\ Version > conn[c].ver
    /\ Set(c, GracefulShutdown(conn[c]))
    /\ World

\* A user calls graceful_shutdown on a connection of its own.
UserShutdown(c) ==
    /\ conn[c].by = "user" /\ conn[c].task \in Serving
    /\ Set(c, GracefulShutdown(conn[c]))
    /\ World

------------------------------------------------------------------------------
(* HTTP/1, and the switch to HTTP/2.                                         *)

\* The client closes, having sent only a part of its script.
ClientClose(c) ==
    /\ conn[c].task \in Live \ {"connecting"} /\ ~conn[c].eof
    /\ \E n \in 0 .. Len(conn[c].wire) :
          Set(c, [conn[c] EXCEPT !.eof = TRUE, !.wire = SubSeq(conn[c].wire, 1, n)])
    /\ World

\* httparse needs more bytes to say what these are.
Partial(b) == b \in {<<>>, <<"P1">>}

\* has_h2_prefix: the buffer starts with the whole preface.
HasH2Prefix(b) == IsPrefix(Preface, b)

\* The connection reads what has arrived, between requests to complete a head
\* and during a request only to notice the end.
H1Read(c) ==
    LET k == conn[c] IN
    /\ k.task = "H1" /\ Partial(k.buf) /\ (k.open > 0 => k.buf = <<>>)
    /\ \E n \in 1 .. Len(k.wire) :
          Set(c, [k EXCEPT !.buf = k.buf \o SubSeq(k.wire, 1, n),
                           !.wire = SubSeq(k.wire, n + 1, Len(k.wire))])
    /\ World

\* The end of the connection, during a request or between two.
H1Eof(c) ==
    LET k == conn[c] IN
    /\ k.task = "H1" /\ Partial(k.buf) /\ k.wire = <<>> /\ k.eof
    /\ k.open > 0 => k.buf = <<>>
    /\ Set(c, IF k.open > 0 \/ k.buf # <<>>
              THEN Close(k, "eof")
              ELSE H1Done(k, "eof"))
    /\ World

\* A request head is parsed; one that asks for an upgrade has an OnUpgrade, and
\* one that asks for it, or the server's settings, disable keep-alive.
H1Request(c) ==
    LET k == conn[c] IN
    /\ k.task = "H1" /\ k.open = 0 /\ k.buf # <<>> /\ Head(k.buf) \in {"R", "U"}
    /\ \E last \in BOOLEAN :
          Set(c, [k EXCEPT !.open = 1, !.buf = Tail(k.buf), !.seen = Append(@, Head(k.buf)),
                           !.ka = IF @ = "Disabled" \/ last THEN "Disabled" ELSE "Busy",
                           !.up = IF Head(k.buf) = "U" THEN "pending" ELSE @])
    /\ World

\* What is not a request is refused with an error response, the preface of
\* HTTP/2 too when it cannot or may not be recognised.
H1Refuse(c) ==
    LET k == conn[c] IN
    /\ k.task = "H1" /\ k.open = 0 /\ ~Partial(k.buf) /\ Head(k.buf) \notin {"R", "U"}
    /\ HasH2Prefix(k.buf) => mode = "H1Only"
    /\ Set(c, Close(k, "refused"))
    /\ World

MutUpgradeH2(k) == [k EXCEPT !.task = "Handshaking", !.buf = <<>>, !.late = k.told]

\* upgrade_h2: the bytes read are put back in front of the connection, and the
\* service goes to a new HTTP/2 server.
UpgradeH2(k) ==
    [k EXCEPT !.task = "Handshaking", !.late = k.told,
              !.up = IF @ = "pending" THEN "canceled" ELSE @]

\* The parser fails on the preface, and Connection::poll goes on with HTTP/2.
H1Fallback(c) ==
    LET k == conn[c] IN
    /\ k.task = "H1" /\ k.open = 0 /\ HasH2Prefix(k.buf) /\ mode = "Fallback"
    /\ Set(c, UpgradeH2(k))
    /\ World

MutH1Respond(c) ==
    /\ conn[c].task = "H1" /\ conn[c].open = 1
    /\ Set(c, [conn[c] EXCEPT !.open = 0, !.ka = "Idle"])
    /\ World

\* The response is written: the connection closes or waits for the next request.
H1Respond(c) ==
    LET k == conn[c] IN
    /\ k.task = "H1" /\ k.open = 1
    /\ Set(c, IF k.ka = "Disabled" THEN H1Done([k EXCEPT !.open = 0], "last")
                                   ELSE [k EXCEPT !.open = 0, !.ka = "Idle"])
    /\ World

\* The response is 101 Switching Protocols, which ends HTTP/1.
H1Switch(c) ==
    LET k == conn[c] IN
    /\ k.task = "H1" /\ k.open = 1 /\ k.up = "pending" /\ Last(k.seen) = "U"
    /\ Set(c, H1Done([k EXCEPT !.open = 0, !.ka = "Disabled"], "last"))
    /\ World

\* The service fails: the connection ends with its error.
H1ServiceError(c) ==
    LET k == conn[c] IN
    /\ k.task = "H1" /\ k.open = 1
    /\ Set(c, Close(k, "service"))
    /\ World

\* The user of an upgraded connection reads it: first the bytes of the Rewind.  The
\* user that polled the connection for its parts has the transport itself.
UpgradedRead(c) ==
    LET k == conn[c] IN
    /\ k.task = "upgraded" /\ k.buf \o k.wire # <<>>
    /\ k.up = "manual" => k.buf = <<>>
    /\ Set(c, IF k.buf # <<>>
              THEN [k EXCEPT !.buf = Tail(@), !.seen = Append(@, Head(k.buf))]
              ELSE [k EXCEPT !.wire = Tail(@), !.seen = Append(@, Head(k.wire))])
    /\ World

\* The user gets the transport, and with it the bytes that were read and not used.
TakeReadBuf(c) ==
    /\ conn[c].buf # <<>>
    /\ Set(c, [conn[c] EXCEPT !.buf = <<>>, !.seen = @ \o conn[c].buf])
    /\ World

\* Upgraded::downcast, at any time while it is read.
Downcast(c) == conn[c].task = "upgraded" /\ conn[c].up = "fulfilled" /\ TakeReadBuf(c)

\* Connection::into_parts, after poll_without_shutdown.
IntoParts(c) == conn[c].task = "upgraded" /\ conn[c].up = "manual" /\ TakeReadBuf(c)

------------------------------------------------------------------------------
(* HTTP/2.                                                                   *)

\* Rewind::poll_read: what was put back, a part at a time, then the connection.
Rewind(k) ==
    IF k.buf # <<>>
    THEN [tok |-> Head(k.buf), k |-> [k EXCEPT !.buf = Tail(@), !.seen = Append(@, Head(k.buf))]]
    ELSE [tok |-> Head(k.wire), k |-> [k EXCEPT !.wire = Tail(@), !.seen = Append(@, Head(k.wire))]]

Unread(k) == k.buf \o k.wire # <<>>

\* The handshake reads the preface and fails on anything else.
H2Handshake(c) ==
    LET k == conn[c]
        r == Rewind(k) IN
    /\ k.task = "Handshaking" /\ Unread(k)
    /\ Set(c, CASE r.tok = Last(Preface) -> [r.k EXCEPT !.task = "Serving"]
                [] r.tok \in ToSet(Front(Preface)) -> r.k
                [] OTHER -> Close(r.k, "refused"))
    /\ World

\* poll_accept yields a stream, which gets a task; during a shutdown h2 refuses
\* the streams that come after the last one it promised to take.
H2Accept(c) ==
    LET k == conn[c]
        r == Rewind(k) IN
    /\ k.task = "Serving" /\ ~k.closing /\ Unread(k) /\ r.tok = "S"
    /\ \/ Set(c, [r.k EXCEPT !.open = @ + 1])
       \/ k.goaway /\ Set(c, r.k)
    /\ World

\* A CONNECT that announces a body is reset, and poll_server returns: with it
\* the whole connection ends.
H2RefuseConnect(c) ==
    LET k == conn[c]
        r == Rewind(k) IN
    /\ k.task = "Serving" /\ ~k.closing /\ Unread(k) /\ r.tok = "C"
    /\ Set(c, Close(r.k, "connect"))
    /\ World

\* A stream's task has sent its response.
H2Respond(c) ==
    /\ conn[c].task = "Serving" /\ conn[c].open > 0
    /\ Set(c, [conn[c] EXCEPT !.open = @ - 1])
    /\ World

\* poll_accept yields None: the shutdown is over, or the client has gone.
H2Closed(c) ==
    LET k == conn[c] IN
    /\ k.task = "Serving"
    /\ \/ k.goaway /\ k.open = 0 /\ Set(c, Close(k, "drained"))
       \/ k.eof /\ (k.closing \/ ~Unread(k)) /\ Set(c, Close(k, "eof"))
    /\ World

\* The client goes before the handshake is over.
H2HandshakeEof(c) ==
    /\ conn[c].task = "Handshaking" /\ conn[c].eof /\ ~Unread(conn[c])
    /\ Set(c, Close(conn[c], "eof"))
    /\ World

\* The service fails to be ready: with the reason NO_ERROR the connection is
\* shut down gracefully, with another one abruptly.
H2ServiceError(c) ==
    LET k == conn[c] IN
    /\ k.task = "Serving" /\ ~k.closing
    /\ \/ Set(c, [k EXCEPT !.goaway = TRUE, !.closing = TRUE])
       \/ Set(c, Close(k, "service"))
    /\ World

\* poll_ping: the client has not answered a keep-alive ping in time, and the
\* connection is shut down abruptly.
H2KeepAliveTimedOut(c) ==
    /\ conn[c].task = "Serving" /\ ~conn[c].closing
    /\ Set(c, Close(conn[c], "timeout"))
    /\ World

------------------------------------------------------------------------------

Accepting(c) == Accept(c) \/ AcceptReset(c) \/ ServiceMade(c) \/ ServiceRefused(c)

H1Step(c) ==
    \/ H1Read(c) \/ H1Eof(c) \/ H1Request(c) \/ H1Refuse(c) \/ H1Fallback(c)
    \/ H1Respond(c) \/ H1Switch(c) \/ H1ServiceError(c)

H2Step(c) ==
    \/ H2Handshake(c) \/ H2HandshakeEof(c) \/ H2Accept(c) \/ H2RefuseConnect(c)
    \/ H2Respond(c) \/ H2Closed(c)

Next ==
    \/ AcceptError \/ TimeoutOver \/ StopServing \/ SignalReady \/ Drained
    \/ \E c \in Conns :
          \/ Connect(c) \/ ServeConnection(c) \/ Accepting(c)
          \/ OnDrain(c) \/ UserShutdown(c) \/ ClientClose(c)
          \/ H1Step(c) \/ H2Step(c) \/ H2ServiceError(c) \/ H2KeepAliveTimedOut(c)
          \/ UpgradedRead(c) \/ Downcast(c) \/ IntoParts(c)

Spec == Init /\ [][Next]_vars

\* Tasks that can run do run, services answer, and clients send what they began.
FairSpec ==
    /\ Spec
    /\ WF_vars(TimeoutOver) /\ WF_vars(Drained)
    /\ \A c \in Conns :
          /\ WF_vars(Accepting(c)) /\ WF_vars(OnDrain(c))
          /\ WF_vars(H1Step(c)) /\ WF_vars(H2Step(c))

------------------------------------------------------------------------------
(* Properties.                                                               *)

\* HTTP/1 has one request under way at most and none while it is idle, and an
\* upgrade is pending only while the connection is HTTP/1.
TypeOK ==
    /\ srv \in {"running", "draining", "done", "failed"}
    /\ timeout \in BOOLEAN /\ errors \in 0 .. MaxErrors
    /\ \A c \in Conns :
          LET k == conn[c] IN
          /\ k.task \in Tasks /\ k.ka \in {"Busy", "Idle", "Disabled"}
          /\ k.open \in Nat /\ (k.task = "H1" => k.open \in {0, 1})
          /\ (k.task = "H1" /\ k.ka = "Idle" => k.open = 0)
          /\ k.up \in {"none", "pending", "fulfilled", "manual", "canceled"}
          /\ (k.up = "pending" => k.task = "H1")

\* A shutdown never costs a request: a connection that ends with a request not
\* answered was left by its client, which closed it or stopped answering pings, or
\* by its service, or got a CONNECT with a body.
KeepsRequests ==
    \A c \in Conns :
        conn[c].task \in {"closed", "upgraded"} /\ conn[c].open > 0 =>
            conn[c].why \in {"eof", "service", "connect", "timeout"}

\* No byte is lost, repeated or reordered when a connection changes hands: what
\* HTTP/1, HTTP/2 and the user of the upgraded connection have used, and what is
\* put back and unread, is always what the client sent.
Rewound ==
    \A c \in Conns :
        LET k == conn[c] IN
        k.task \notin {"none", "closed"} => IsPrefix(k.seen \o k.buf \o k.wire, k.script)

\* A graceful shutdown ends, when clients and services do their part.  It may
\* wait for a connection that was told to shut down while HTTP/1 and became
\* HTTP/2 afterwards: upgrade_h2 does not pass the shutdown on.
ShutdownEnds ==
    srv = "draining" ~> (srv = "done" \/ \E c \in Conns : conn[c].late)

\* The connections of a server with_graceful_shutdown do not outlive its future for long,
\* also when no signal ended it but an error or the end of the Accept: the Signal
\* is dropped with the future, and each Watching, also one made later, takes that
\* for the signal and has its connection shut down (Watch::watch ignores the
\* error of changed).  The exception is that of ShutdownEnds.
OrphansEnd ==
    srv # "running" ~> (Watchers = {} \/ \E c \in Conns : conn[c].late)
=============================================================================
