------------------------------- MODULE H2Conn --------------------------------
(***************************************************************************)
(* An HTTP/2 connection from a client to a server of this library: the     *)
(* client's dispatch and connection tasks (proto/h2/client.rs), the        *)
(* server's task of a stream (H2Stream in proto/h2/server.rs), and what    *)
(* both use for the bodies: the pipe into a stream and a stream that was   *)
(* upgraded by CONNECT (proto/h2/mod.rs), the Body out of one              *)
(* (body/body.rs) and the pings (H2Ping).  The h2 crate, with its frames   *)
(* and windows, is external.                                               *)
(***************************************************************************)
EXTENDS H2Ping, FiniteSets, Sequences

CONSTANTS
    Requests,       \* requests a user may send
    Window,         \* bytes of a stream that may be under way unread
    Size,           \* bytes of a chunk
    MaxChunks,      \* bound on the chunks of a body
    Plans           \* the configurations to start from

ASSUME ConnAssumption ==
    /\ IsFiniteSet(Requests) /\ MaxChunks \in Nat
    /\ Size \in Nat \ {0} /\ Window \in Nat \ {0}
    /\ Plans \subseteq [bdp : BOOLEAN, keepAlive : BOOLEAN, whileIdle : BOOLEAN,
                       connect : SUBSET Requests, up : 0 .. MaxChunks, down : 0 .. MaxChunks]

VARIABLES
    ping,           \* what the Recorders and the Ponger share
    pong,           \* the ping under way: "none", "flying", its pong "arrived", or "read"
    run,            \* the connection's task is scheduled to run
    conn,           \* the connection's task: "open", "closing" or "closed"
    dispatch,       \* the ClientTask: "running" or "done"
    sender,         \* the user still has a SendRequest
    queue,          \* requests sent to the ClientTask
    net,            \* "up", or "silent" when nothing arrives any more
    st              \* the streams

vars == <<ping, pong, run, conn, dispatch, sender, queue, net, st>>
tasks == <<conn, dispatch, sender, queue>>
pings == <<ping, pong, run>>

\* One direction of a stream.
Direction(chunks) ==
    [pipe |-> "none",       \* the sending end: "none", "data", "trailers", "raw", "done"
     left |-> chunks,       \* chunks its source may still yield
     win |-> Window,        \* bytes it may send now
     wire |-> <<>>,         \* frames under way
     sent |-> 0,            \* bytes handed to h2
     fate |-> "open",       \* the source: "open", "end", "error" or "gone"
     rd |-> "none",         \* the receiving end: "none", "open", "end", "error", "gone"
     buf |-> 0,             \* bytes of a frame an upgraded stream has still to hand out
     got |-> 0]             \* bytes handed to the reader

Init ==
    /\ pong = "none" /\ run = TRUE
    /\ conn = "open" /\ dispatch = "running" /\ sender = TRUE
    /\ queue = <<>> /\ net = "up"
    /\ \E plan \in Plans :
          /\ ping = Channel(plan.bdp, plan.keepAlive, plan.whileIdle)
          /\ st = [r \in Requests |->
                  [kind |-> IF r \in plan.connect THEN "CONNECT" ELSE "plain",
                   req |-> "new",           \* the request, as its user sees it
                   canceled |-> FALSE,      \* the user has dropped the response future
                   spawned |-> FALSE,       \* the pipe of the request is a task of its own
                   raw |-> FALSE,           \* the client has an H2Upgraded
                   srv |-> "none",          \* the server's H2Stream
                   cRst |-> FALSE, sRst |-> FALSE,  \* the end knows of a reset
                   shut |-> FALSE,          \* an H2Upgraded of the server failed with NO_ERROR
                   up |-> Direction(plan.up), down |-> Direction(plan.down)]]

Ends == {"up", "down"}
Set(r, s) == st' = [st EXCEPT ![r] = s]
Alive == conn # "closed"
Moving == Alive /\ net = "up"

------------------------------------------------------------------------------
(* One direction of a stream.                                                *)

Put(d, frame) == [d EXCEPT !.wire = Append(@, frame)]

Ended(d, fate) == [d EXCEPT !.pipe = "done", !.fate = IF @ = "end" THEN @ ELSE fate]

MutOnUserErr(d) == Ended(Put(d, <<"eos">>), "error")

\* SendStreamExt::on_user_err resets the stream.
OnUserErr(d) == Ended(Put(d, <<"reset", "error">>), "error")

\* SendStreamExt::send_eos_frame.
SendEosFrame(d) == Ended(Put(d, <<"eos">>), "end")

SendData(d, n) ==
    [Put(d, <<"data", n>>) EXCEPT !.left = @ - 1, !.win = @ - n, !.sent = @ + n]

\* PipeToSendStream::poll, while the stream is not reset: given capacity, a chunk
\* is sent, the last one with the end of the stream, or the source has no more;
\* then trailers are sent, or the end alone.  Either way the source may fail.
PipePoll(d) ==
    CASE d.pipe = "data" /\ d.win > 0 ->
            (IF d.left > 0 THEN {SendData(d, Size), SendEosFrame(SendData(d, Size))} ELSE {})
            \cup {SendEosFrame(d), [d EXCEPT !.pipe = "trailers"], OnUserErr(d)}
      [] d.pipe = "trailers" ->
            {Ended(Put(d, <<"trailers">>), "end"), SendEosFrame(d), OnUserErr(d)}
      [] OTHER -> {}

MutReadData(d) ==
    [d EXCEPT !.wire = Tail(@), !.got = @ + Head(d.wire)[2]]

\* Body::poll_inner: a chunk is handed out and its capacity released.
ReadData(d) ==
    [d EXCEPT !.wire = Tail(@), !.got = @ + Head(d.wire)[2], !.win = @ + Head(d.wire)[2]]

\* Body::poll_inner and poll_trailers reach the end, or the error of a reset.
ReadEnd(d) ==
    [d EXCEPT !.wire = Tail(@), !.rd = IF Head(d.wire)[1] = "reset" THEN "error" ELSE "end"]

IsData(frame) == frame[1] = "data"
Readable(d) == d.rd = "open" /\ d.wire # <<>>

AtHead(d) == d.wire # <<>> /\ Head(d.wire)[1] = "head"
HasReset(d) == d.wire # <<>> /\ d.wire[Len(d.wire)][1] = "reset"

\* A Body: what the next poll makes of the direction.
BodyRead(d) == IF IsData(Head(d.wire)) THEN ReadData(d) ELSE ReadEnd(d)

\* H2Upgraded::poll_read hands out n bytes of the frame it holds, or of the next,
\* and releases them.
UpgradedRead(d, n) ==
    IF d.buf > 0
    THEN [d EXCEPT !.buf = @ - n, !.got = @ + n, !.win = @ + n]
    ELSE [d EXCEPT !.wire = Tail(@), !.buf = Head(d.wire)[2] - n, !.got = @ + n, !.win = @ + n]

\* It takes the resets of a peer that has dropped its end for the end.
UpgradedEnd(d) ==
    [d EXCEPT !.wire = Tail(@),
              !.rd = IF Head(d.wire) = <<"reset", "error">> THEN "error" ELSE "end"]

\* A receiving end that has gone lets h2 drop what arrives and take it as read.
Discard(d) ==
    [d EXCEPT !.wire = Tail(@),
              !.win = IF IsData(Head(d.wire)) THEN @ + Head(d.wire)[2] ELSE @]

------------------------------------------------------------------------------
(* The client: sending requests.                                             *)

\* Http2SendRequest::send_request_retryable: a request that finds the channel
\* closed is given back with an error.
Submit(r) ==
    /\ sender /\ st[r].req = "new"
    /\ Set(r, [st[r] EXCEPT !.req = IF dispatch = "running" THEN "sending" ELSE "error"])
    /\ UNCHANGED <<pings, tasks, net>>

\* UnboundedSender::try_send: tokio's send, which has found the channel open,
\* pushes the request.  When the ClientTask has dropped its receiver in between,
\* the request is stuck in a channel that nobody reads.
TrySend(r) ==
    /\ st[r].req = "sending"
    /\ \/ /\ dispatch = "running"
          /\ queue' = Append(queue, r)
          /\ Set(r, [st[r] EXCEPT !.req = "queued"])
          /\ run' = TRUE
       \/ /\ dispatch = "done"
          /\ Set(r, [st[r] EXCEPT !.req = "stuck"])
          /\ UNCHANGED <<queue, run>>
    /\ UNCHANGED <<ping, pong, conn, dispatch, sender, net>>

\* The user drops the future of the response.
Cancel(r) ==
    /\ st[r].req \in {"queued", "waiting", "stuck"} /\ ~st[r].canceled
    /\ Set(r, [st[r] EXCEPT !.canceled = TRUE])
    /\ UNCHANGED <<pings, tasks, net>>

\* The user drops the last SendRequest; a channel without a receiver goes with it,
\* and what is stuck in it.
DropSender ==
    /\ sender /\ sender' = FALSE
    /\ \A r \in Requests : st[r].req # "sending"
    /\ st' = [r \in Requests |->
                IF st[r].req = "stuck" THEN [st[r] EXCEPT !.req = "error"] ELSE st[r]]
    /\ UNCHANGED <<pings, conn, dispatch, queue, net>>

\* ClientTask::poll takes a request: a canceled one is dropped, a CONNECT with a
\* body refused, and h2 opens a stream for another one, or fails to.  A body is
\* piped at once or, when it is not ready, by a task of its own that keeps the
\* connection.
DispatchRecv ==
    /\ dispatch = "running" /\ Alive /\ queue # <<>>
    /\ queue' = Tail(queue)
    /\ LET r == Head(queue)
           s == st[r]
           open == [s EXCEPT !.req = "waiting", !.up = Put(@, <<"head">>)]
       IN \/ s.canceled /\ Set(r, [s EXCEPT !.req = "dropped"])
          \/ ~s.canceled /\ Set(r, [s EXCEPT !.req = "error"])
          \/ ~s.canceled /\ s.kind = "plain"
                /\ \/ Set(r, [open EXCEPT !.up = SendEosFrame(@)])
                   \/ Set(r, [open EXCEPT !.up.pipe = "data", !.spawned = TRUE])
          \/ ~s.canceled /\ s.kind = "CONNECT" /\ Set(r, open)
    /\ run' = TRUE
    /\ UNCHANGED <<ping, pong, conn, dispatch, sender, net>>

MutCancelQueued == st

\* What dropping the ClientTask makes of the requests in its queue.
CancelQueued ==
    [r \in Requests |-> IF st[r].req = "queued" THEN [st[r] EXCEPT !.req = "error"] ELSE st[r]]

\* The ClientTask ends: the connection is closed (poll_ready), there are no more
\* senders, or the connection's task has begun to close (conn_eof).
DispatchEnd ==
    /\ dispatch = "running"
    /\ \/ ~Alive
       \/ queue = <<>> /\ ~sender
       \/ queue = <<>> /\ conn # "open"
    /\ dispatch' = "done" /\ queue' = <<>> /\ st' = CancelQueued
    /\ run' = TRUE
    /\ UNCHANGED <<ping, pong, conn, sender, net>>

\* The pipe of a request's body.
ClientPipe(r) ==
    /\ Alive /\ ~st[r].cRst
    /\ \E d \in PipePoll(st[r].up) :
          Set(r, [st[r] EXCEPT !.up = d, !.spawned = (d.pipe # "done"),
                               !.cRst = (d.fate = "error")])
    /\ run' = TRUE
    /\ UNCHANGED <<ping, pong, tasks, net>>

\* It finds that the stream was reset, or that the connection is gone.
ClientPipeReset(r) ==
    /\ st[r].spawned /\ (st[r].cRst \/ ~Alive)
    /\ Set(r, [st[r] EXCEPT !.up = Ended(@, "error"), !.spawned = FALSE])
    /\ UNCHANGED <<pings, tasks, net>>

------------------------------------------------------------------------------
(* The client: responses.                                                    *)

\* The task of the response (Callback::send_when) gets the head of the response
\* and records it; CONNECT is upgraded by the status 200.  A response its user no
\* longer waits for is dropped, and with it the Body; one that is not upgraded and
\* has no body leaves nothing to hold (for_stream).
Respond(r) ==
    LET s == st[r]
        upgraded == ~s.canceled /\ Head(s.down.wire) = <<"head", "upgrade">>
        empty == Head(s.down.wire) # <<"head", "upgrade">> /\ Tail(s.down.wire) = <<<<"eos">>>>
    IN
    /\ Moving /\ s.req = "waiting" /\ AtHead(s.down)
    /\ ping' = RecordNonData(ping)
    /\ Set(r, [s EXCEPT !.req = IF s.canceled THEN "dropped" ELSE "answered",
                        !.down.wire = IF empty THEN <<>> ELSE Tail(@),
                        !.down.rd = IF s.canceled \/ empty THEN "gone" ELSE "open",
                        !.raw = upgraded,
                        !.up.pipe = IF upgraded THEN "raw" ELSE @])
    /\ run' = TRUE
    /\ UNCHANGED <<pong, tasks, net>>

\* The server resets the stream.
ClientReset(r) ==
    /\ Moving /\ ~st[r].cRst /\ HasReset(st[r].down)
    /\ Set(r, [st[r] EXCEPT !.cRst = TRUE])
    /\ run' = TRUE
    /\ UNCHANGED <<ping, pong, tasks, net>>

\* The task of the response gets an error.
ResponseError(r) ==
    /\ st[r].req = "waiting" /\ ((st[r].cRst /\ ~AtHead(st[r].down)) \/ ~Alive)
    /\ Set(r, [st[r] EXCEPT !.req = IF st[r].canceled THEN "dropped" ELSE "error"])
    /\ UNCHANGED <<pings, tasks, net>>

\* send_when finds its callback canceled and drops the future of the response.
SendWhenCanceled(r) ==
    /\ st[r].req = "waiting" /\ st[r].canceled
    /\ Set(r, [st[r] EXCEPT !.req = "dropped", !.down.rd = "gone",
                            !.down.wire = IF AtHead(st[r].down) THEN Tail(@) ELSE @])
    /\ run' = TRUE
    /\ UNCHANGED <<ping, pong, tasks, net>>

\* The user polls the body of the response.
ClientRead(r) ==
    LET d == st[r].down IN
    /\ Moving /\ Readable(d) /\ ~st[r].raw
    /\ Set(r, [st[r] EXCEPT !.down = BodyRead(d)])
    /\ ping' = IF IsData(Head(d.wire)) THEN RecordData(ping, Head(d.wire)[2])
                                       ELSE RecordNonData(ping)
    /\ pong' = IF ~ping.sent /\ ping'.sent THEN "flying" ELSE pong
    /\ run' = TRUE
    /\ UNCHANGED <<tasks, net>>

\* Nothing more can come of a response: its reader gets an error.
ClientReadError(r) ==
    /\ st[r].down.rd = "open" /\ ((st[r].cRst /\ st[r].down.wire = <<>>) \/ ~Alive)
    /\ Set(r, [st[r] EXCEPT !.down.rd = "error"])
    /\ UNCHANGED <<pings, tasks, net>>

\* The user drops the body, or the upgraded stream.
DropBody(r) ==
    /\ st[r].req = "answered" /\ st[r].down.rd \in {"open", "end", "error"}
    /\ Set(r, [st[r] EXCEPT !.down.rd = "gone", !.down.buf = 0])
    /\ run' = TRUE
    /\ UNCHANGED <<ping, pong, tasks, net>>

------------------------------------------------------------------------------
(* The server's task of a stream.                                            *)

\* poll_accept yields the request; the service is called.
ServerAccept(r) ==
    /\ Moving /\ st[r].srv = "none" /\ st[r].up.wire # <<>>
    /\ Set(r, [st[r] EXCEPT !.srv = "Service", !.up.wire = Tail(@), !.up.rd = "open"])
    /\ UNCHANGED <<pings, tasks, net>>

\* H2Stream::poll2: the service has answered.  A CONNECT it accepts is upgraded,
\* with 200 or with another status of success, which the client does not take for
\* an upgrade; otherwise the response is sent, and its body, if any, piped.
ServerReply(r) ==
    LET s == st[r]
        reply == Put(s.down, <<"head", "plain">>)
    IN
    /\ s.srv = "Service" /\ ~s.sRst
    /\ \/ Set(r, [s EXCEPT !.srv = "done", !.down = SendEosFrame(reply)])
       \/ Set(r, [s EXCEPT !.srv = "Body", !.down = [reply EXCEPT !.pipe = "data"]])
       \/ s.kind = "CONNECT"
             /\ \E head \in {<<"head", "upgrade">>, <<"head", "plain">>} :
                   Set(r, [s EXCEPT !.srv = "upgraded",
                                    !.down = [Put(@, head) EXCEPT !.pipe = "raw"]])
    /\ UNCHANGED <<pings, tasks, net>>

\* The service fails, or accepts CONNECT with a body: the stream is reset.
ServerFail(r) ==
    /\ st[r].srv = "Service" /\ ~st[r].sRst
    /\ Set(r, [st[r] EXCEPT !.srv = "done", !.down = OnUserErr(@), !.sRst = TRUE])
    /\ UNCHANGED <<pings, tasks, net>>

ServerPipe(r) ==
    /\ ~st[r].sRst
    /\ \E d \in PipePoll(st[r].down) :
          Set(r, [st[r] EXCEPT !.down = d, !.srv = IF d.pipe = "done" THEN "done" ELSE @,
                               !.sRst = (d.fate = "error")])
    /\ UNCHANGED <<pings, tasks, net>>

\* The client's reset arrives, or the connection ends: a service under way is
\* dropped (poll_reset), and so is a pipe.
ServerReset(r) ==
    LET s == st[r] IN
    /\ s.srv # "none" /\ ~s.sRst /\ (~Alive \/ (net = "up" /\ HasReset(s.up)))
    /\ Set(r, [s EXCEPT !.sRst = TRUE, !.srv = IF @ = "upgraded" THEN @ ELSE "done",
                        !.down = IF s.raw \/ @.pipe = "done" THEN @ ELSE Ended(@, "error")])
    /\ UNCHANGED <<pings, tasks, net>>

\* The service reads the body of the request, or drops it.
ServerRead(r) ==
    LET d == st[r].up IN
    /\ Moving /\ Readable(d) /\ st[r].srv # "upgraded"
    /\ Set(r, [st[r] EXCEPT !.up = BodyRead(d)])
    /\ UNCHANGED <<pings, tasks, net>>

\* Nothing more can come of a request: its reader gets an error.  H2Upgraded takes
\* the reason of an abrupt shutdown, NO_ERROR or CANCEL, for the end.
ServerReadError(r) ==
    LET s == st[r] IN
    /\ s.up.rd = "open"
    /\ s.shut \/ (net = "up" /\ ((s.sRst /\ s.up.wire = <<>>) \/ ~Alive))
    /\ Set(r, [s EXCEPT !.up.rd = IF s.shut THEN "end" ELSE "error"])
    /\ UNCHANGED <<pings, tasks, net>>

ServerDropBody(r) ==
    /\ net = "up" /\ st[r].up.rd \in {"open", "end", "error"}
    /\ Set(r, [st[r] EXCEPT !.up.rd = "gone", !.up.buf = 0,
                            !.srv = IF @ = "upgraded" THEN "done" ELSE @])
    /\ UNCHANGED <<pings, tasks, net>>

------------------------------------------------------------------------------
(* What h2 does with a stream nobody holds.                                  *)

Over(a, b) == a.fate = "end" /\ b.fate = "end" /\ b.wire = <<>>

\* It resets one that is not over.
ImplicitReset(r) ==
    LET s == st[r] IN
    /\ Alive
    /\ \/ /\ ~s.cRst /\ ~s.spawned /\ s.down.rd = "gone" /\ ~Over(s.up, s.down)
          /\ Set(r, [s EXCEPT !.cRst = TRUE,
                              !.up = Ended(Put(@, <<"reset", "CANCEL">>), "gone")])
       \/ /\ ~s.sRst /\ s.srv = "done" /\ s.up.rd = "gone" /\ ~Over(s.down, s.up)
          /\ Set(r, [s EXCEPT !.sRst = TRUE,
                              !.down = Ended(Put(@, <<"reset", "CANCEL">>), "gone")])
    /\ run' = TRUE
    /\ UNCHANGED <<ping, pong, tasks, net>>

\* It drops what arrives for an end that has gone, and takes it as read.
Discarded(r) ==
    /\ Moving
    /\ \E e \in Ends :
          LET d == st[r][e] IN
          /\ d.rd \in {"gone", "end", "error"} /\ d.wire # <<>>
          /\ Head(d.wire)[1] = "reset" => (IF e = "up" THEN st[r].sRst ELSE st[r].cRst)
          /\ Set(r, [st[r] EXCEPT ![e] = Discard(d)])
    /\ run' = TRUE
    /\ UNCHANGED <<ping, pong, tasks, net>>

------------------------------------------------------------------------------
(* An upgraded stream, as either end uses it.                                *)

Writes(r, e) == st[r][e].pipe = "raw" /\ Alive
                /\ IF e = "up" THEN ~st[r].cRst /\ st[r].down.rd # "gone"
                               ELSE ~st[r].sRst /\ ~st[r].shut /\ st[r].up.rd # "gone"

\* H2Upgraded::poll_write sends as much as there is capacity for.
RawWrite(r, e) ==
    /\ Writes(r, e) /\ st[r][e].left > 0 /\ st[r][e].win > 0
    /\ LET n == IF st[r][e].win < Size THEN st[r][e].win ELSE Size
       IN Set(r, [st[r] EXCEPT ![e] = SendData(@, n)])
    /\ run' = TRUE
    /\ UNCHANGED <<ping, pong, tasks, net>>

\* H2Upgraded::poll_shutdown.
RawShutdown(r, e) ==
    /\ Writes(r, e)
    /\ Set(r, [st[r] EXCEPT ![e] = SendEosFrame(@)])
    /\ run' = TRUE
    /\ UNCHANGED <<ping, pong, tasks, net>>

\* H2Upgraded::poll_read; the client's end records the data of a new frame.
RawRead(r, e) ==
    LET d == st[r][e]
        frame == IF d.buf > 0 THEN <<"data", d.buf>> ELSE Head(d.wire)
    IN
    /\ (IF e = "up" THEN st[r].srv = "upgraded" ELSE st[r].raw) /\ d.rd = "open" /\ Moving
    /\ d.buf > 0 \/ d.wire # <<>>
    /\ \/ IsData(frame) /\ \E n \in 1 .. frame[2] : Set(r, [st[r] EXCEPT ![e] = UpgradedRead(d, n)])
       \/ ~IsData(frame) /\ Set(r, [st[r] EXCEPT ![e] = UpgradedEnd(d)])
    /\ ping' = IF e = "down" /\ d.buf = 0 /\ IsData(frame) THEN RecordData(ping, frame[2]) ELSE ping
    /\ pong' = IF ~ping.sent /\ ping'.sent THEN "flying" ELSE pong
    /\ run' = TRUE
    /\ UNCHANGED <<tasks, net>>

------------------------------------------------------------------------------
(* The connection's task and its pings.                                      *)

\* A Recorder is held by the task of a response and then by what it made of it,
\* and by a pipe that is a task of its own.
HoldsResponse(r) ==
    \/ st[r].req = "waiting"
    \/ st[r].req = "answered" /\ st[r].down.rd # "gone"

Pipes == {r \in Requests : st[r].spawned}

MutIsIdle == 1 + (IF dispatch = "running" THEN 1 ELSE 0) + Cardinality(Pipes)
               + Cardinality({r \in Requests : HoldsResponse(r)}) <= 3

\* Ponger::is_idle counts the holders of the shared state: the Ponger, the
\* ClientTask, and those.
IsIdle == 1 + (IF dispatch = "running" THEN 1 ELSE 0) + Cardinality(Pipes)
            + Cardinality({r \in Requests : HoldsResponse(r)}) <= 2

\* The connection is gone, and what was under way with it; the server may have
\* shut down streams of its own.
Close(shut) ==
    /\ conn' = "closed" /\ pong' = "none" /\ run' = FALSE /\ net' = "up"
    /\ st' = [r \in Requests |-> [st[r] EXCEPT !.up.wire = <<>>, !.down.wire = <<>>,
                                              !.cRst = FALSE, !.sRst = FALSE, !.shut = @ \/ r \in shut]]

\* The connection's task runs: the Ponger is polled, and a timeout ends it; then
\* the connection is, which reads a pong that has arrived and wakes the Ponger.
ConnPoll ==
    /\ Alive /\ run
    /\ \E faster \in BOOLEAN : \E p \in {PongerPoll(ping, IsIdle, pong = "read", faster)} :
          \/ /\ p.timedOut
             /\ ping' = [ping EXCEPT !.state = "none", !.timedOut = TRUE, !.sent = FALSE]
             /\ Close({})
          \/ /\ ~p.timedOut
             /\ ping' = p
             /\ pong' = CASE ping.sent /\ ~p.sent -> "none"
                          [] ~ping.sent /\ p.sent -> "flying"
                          [] OTHER -> IF pong = "arrived" THEN "read" ELSE pong
             /\ run' = (WakesItself(ping, IsIdle) \/ pong = "arrived")
             /\ UNCHANGED <<conn, net, st>>
    /\ UNCHANGED <<dispatch, sender, queue>>

\* The timer elapses, and wakes the task that waits for it.
TimerElapses ==
    /\ Alive /\ ping.state \in {"Scheduled", "PingSent"} /\ ping.timer = "set"
    /\ ping' = [ping EXCEPT !.timer = "elapsed", !.armed = FALSE]
    /\ run' = (run \/ ping.armed)
    /\ UNCHANGED <<pong, tasks, net, st>>

\* The time of the next BDP ping comes.
BdpDue ==
    /\ ping.next = "later"
    /\ ping' = [ping EXCEPT !.next = "due"]
    /\ UNCHANGED <<pong, run, tasks, net, st>>

\* The pong reaches the socket.
PongArrives ==
    /\ Moving /\ pong = "flying"
    /\ pong' = "arrived" /\ run' = TRUE
    /\ UNCHANGED <<ping, tasks, net, st>>

\* The network fails without telling anyone.  It is of interest when there is a
\* keep-alive to notice it; the server, which the client no longer sees, is left
\* as it is.
GoSilent ==
    /\ Alive /\ net = "up" /\ ping.state # "none"
    /\ net' = "silent"
    /\ UNCHANGED <<pings, tasks, st>>

MutConnDropRefs == IF dispatch = "running" THEN 1 ELSE 0

\* Holders of conn_drop_ref.
ConnDropRefs ==
    (IF dispatch = "running" THEN 1 ELSE 0) + Cardinality(Pipes)

\* conn_task: every hold on the connection has been dropped; it begins to close.
ConnDropRx ==
    /\ conn = "open" /\ ConnDropRefs = 0
    /\ conn' = "closing"
    /\ UNCHANGED <<pings, dispatch, sender, queue, net, st>>

\* The streams h2 has still to see through.
OpenStream(r) ==
    \/ st[r].req = "waiting"
    \/ st[r].req = "answered" /\ st[r].down.rd = "open"
    \/ st[r].spawned

\* h2 has nothing left to do, or the connection fails.
ConnDone ==
    /\ conn = "closing" /\ \A r \in Requests : ~OpenStream(r)
    /\ Close({})
    /\ ping' = [Channel(FALSE, FALSE, FALSE) EXCEPT !.bdp = ping.bdp]
    /\ UNCHANGED <<dispatch, sender, queue>>

ConnLost ==
    /\ Alive
    /\ Close({})
    /\ ping' = [Channel(FALSE, FALSE, FALSE) EXCEPT !.bdp = ping.bdp]
    /\ UNCHANGED <<dispatch, sender, queue>>

\* The streams whose reader at the server asks for the reason of an error.
ServerUpgraded == {r \in Requests : st[r].srv = "upgraded"}

\* Serving::poll_ping finds that the client has not answered the server's own
\* keep-alive ping in time and shuts the connection down abruptly with NO_ERROR, as
\* poll_server does with a reason of the service's, CANCEL say.  The streams of the
\* server fail with that reason; the client sees the connection end, unless the
\* network is silent.
ServerTimesOut ==
    /\ Alive
    /\ \/ /\ net = "up" /\ Close(ServerUpgraded)
          /\ ping' = [Channel(FALSE, FALSE, FALSE) EXCEPT !.bdp = ping.bdp]
       \/ /\ net = "silent"
          /\ st' = [r \in Requests |-> [st[r] EXCEPT !.shut = @ \/ r \in ServerUpgraded]]
          /\ UNCHANGED <<pings, conn, net>>
    /\ UNCHANGED <<dispatch, sender, queue>>

------------------------------------------------------------------------------

ClientStep(r) ==
    \/ ClientPipe(r) \/ ClientPipeReset(r) \/ Respond(r) \/ ClientReset(r)
    \/ ResponseError(r) \/ SendWhenCanceled(r) \/ ClientRead(r) \/ ClientReadError(r)

ServerStep(r) ==
    \/ ServerReadError(r)
    \/ net = "up" /\ (\/ ServerAccept(r) \/ ServerReply(r) \/ ServerFail(r) \/ ServerPipe(r)
                      \/ ServerReset(r) \/ ServerRead(r))

RawStep(r) == \E e \in Ends : RawWrite(r, e) \/ RawShutdown(r, e) \/ RawRead(r, e)

UserStep(r) == Submit(r) \/ TrySend(r) \/ Cancel(r) \/ DropBody(r) \/ ServerDropBody(r)

Next ==
    \/ DropSender \/ DispatchRecv \/ DispatchEnd
    \/ \E r \in Requests :
          UserStep(r) \/ ClientStep(r) \/ ServerStep(r) \/ RawStep(r)
          \/ ImplicitReset(r) \/ Discarded(r)
    \/ ConnPoll \/ TimerElapses \/ BdpDue \/ PongArrives \/ GoSilent
    \/ ConnDropRx \/ ConnDone \/ ConnLost \/ ServerTimesOut

Spec == Init /\ [][Next]_vars

\* Tasks that are scheduled run, time passes, and a network that is up delivers.
FairSpec ==
    /\ Spec
    /\ WF_vars(DispatchRecv \/ DispatchEnd)
    /\ WF_vars(ConnPoll) /\ WF_vars(TimerElapses) /\ WF_vars(PongArrives)
    /\ WF_vars(ConnDropRx) /\ WF_vars(ConnDone)
    /\ \A r \in Requests :
          WF_vars(TrySend(r)) /\ WF_vars(ClientStep(r)) /\ WF_vars(ServerStep(r))
          /\ WF_vars(ImplicitReset(r)) /\ WF_vars(Discarded(r))

------------------------------------------------------------------------------
(* Properties.                                                               *)

Settled == {"new", "answered", "error", "dropped"}

\* A ping is under way exactly while Shared::ping_sent_at is set, and the estimate
\* and the sample it is made from are within BDP_LIMIT.
TypeOK ==
    /\ ping.state \in {"none", "Init", "Scheduled", "PingSent"}
    /\ ping.bytes \in 0 .. BdpLimit /\ ping.bdp \in 2 .. BdpLimit
    /\ pong # "none" <=> ping.sent
    /\ queue \in Seq(Requests)
    /\ \A r \in Requests :
          /\ st[r].req \in Settled \cup {"sending", "queued", "waiting", "stuck"}
          /\ st[r].srv \in {"none", "Service", "Body", "upgraded", "done"}
          /\ \A e \in Ends : st[r][e].pipe \in {"none", "data", "trailers", "raw", "done"}

\* A body or an upgraded stream is only ever seen to end when its sender ended
\* it, and then all of it has been read: a source that fails, a canceled request
\* and a lost connection are not taken for the end.  The exceptions are H2Upgraded's:
\* to an upgraded stream the peer's dropping it is an end too, and so is, at the
\* server's end, an abrupt shutdown by the server itself.
EndIsWhole ==
    \A r \in Requests : \A e \in Ends :
        st[r][e].rd = "end" =>
            \/ st[r][e].fate = "end" /\ st[r][e].got = st[r][e].sent
            \/ st[r][e].fate = "gone" /\ st[r].kind = "CONNECT"
            \/ e = "up" /\ st[r].shut

\* The connection does not begin to close while a request is being sent, even
\* after the user has dropped every handle.
BodiesKeepConn ==
    conn = "closing" => \A r \in Requests : ~st[r].spawned

\* The window grows or stays, and never beyond the limit.
WindowGrows == [][ping'.bdp >= ping.bdp /\ ping'.bdp <= BdpLimit]_vars

\* A connection that is gone leaves no request waiting but one that was being
\* pushed into the channel while the ClientTask dropped its receiver: that one is
\* stuck for as long as the user keeps a SendRequest.
ConnLossSettles ==
    \A r \in Requests :
        conn = "closed" ~> (st[r].req \in Settled \/ (st[r].req = "stuck" /\ sender))

\* A pong and the timeout for it can both be there when the task runs.  The timer
\* is then set anew but not polled, and its end wakes nobody: the keep-alive rests
\* until something else wakes the task.
Stalled == ping.state = "Scheduled" /\ ~ping.armed /\ ~run

\* With keep-alive a request is settled even when the network fails silently,
\* unless the keep-alive is Stalled, or the ClientTask is gone: with one stream
\* left, is_idle then counts two holders and takes the connection for idle.
KeepAliveSettles ==
    \A r \in Requests :
        (net = "silent" /\ st[r].req = "waiting") ~>
            (st[r].req \in Settled \/ dispatch = "done" \/ Stalled)

\* A pipe that has been given capacity back goes on: it is not left waiting for
\* a reader that reads.
PipesGoOn ==
    \A r \in Requests :
        st[r].up.pipe = "data" ~> (st[r].up.pipe = "done" \/ net = "silent")
=============================================================================
