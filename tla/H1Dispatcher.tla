---------------------------- MODULE H1Dispatcher ----------------------------
(***************************************************************************)
(* The task that runs an HTTP/1 connection: Dispatcher in                  *)
(* src/proto/h1/dispatch.rs over the connection of H1State, for a server   *)
(* (its service is called for each request) or a client (requests come     *)
(* from a channel, each response resolves a callback).                     *)
(*                                                                         *)
(* One poll of the task is poll_catch / poll_inner / poll_loop: t.pc says  *)
(* where it is, and every turn of the loops of poll_read and poll_write is *)
(* one step.  Whatever makes the task return Pending keeps its waker; the  *)
(* task is polled again only after one of these wakers was used.           *)
(*                                                                         *)
(* The peer may send or close whenever the next step of the task may read  *)
(* the socket.  The service, the callers and the two bodies act between    *)
(* polls: what they do during a poll is seen where the task asks them, so  *)
(* it is either there when it asks (they may be ready at once) or has the  *)
(* effect of happening after the poll.                                     *)
(***************************************************************************)
EXTENDS H1State, FiniteSets

CONSTANTS
    Plans,      \* what may happen around a connection, records of
                \*   heads     heads the peer may send, max of them
                \*   outgoing  messages the service answers with or the client sends
                \*   fill      what a chunk makes of the write buffer: "queued", "full"
                \*   faults    what else the peer may do: "part" of a head alone,
                \*             "bad" bytes, "eof", "reset"
                \*   blocks    how often the socket stops taking bytes
    MaxSends,   \* bound on the requests of a client
    MaxRounds   \* rounds of poll_loop before it yields (16 in the code)

ASSUME BoundsAssumption ==
    /\ \A plan \in Plans :
          plan.fill \subseteq {"queued", "full"} /\ plan.blocks \in Nat /\ plan.max \in Nat
    /\ MaxSends \in Nat
    /\ MaxRounds \in Nat \ {0}

VARIABLES
    c,      \* the connection, a record of H1State
    d,      \* Dispatcher: is_closing, body_tx, body_rx and, as inflight,
            \* Server.in_flight or Client.callback
    t,      \* the task: where its poll is, rounds of poll_loop, whether it is
            \* scheduled, who holds its waker, how it ended, and as mark what
            \* poll_write did in this round that properties name
    u,      \* the program around it; see UserInit
    p,      \* the peer: heads sent, what it is in the middle of, the plan
    taken   \* messages handed to the service, or requests begun

vars == <<c, d, t, u, p, taken>>

\* ready: the service's future is done (server), or what the channel holds
\* (client: "ready" a request, "canceled" one nobody waits for, "dropped" no
\* sender).  busy: the service takes no request yet.  canceled: nobody waits for the request in flight.  data: the
\* outgoing body has an item; chunks of it so far.  want: the reader of the
\* incoming body asks for data.  writable: the socket takes bytes.
UserInit ==
    [ready |-> "no", busy |-> FALSE, canceled |-> FALSE, data |-> FALSE, chunks |-> 0,
     want |-> "no", writable |-> TRUE, blocks |-> 0, sends |-> 0, graceful |-> FALSE]

Init ==
    /\ c = NewConn
    /\ d = [closing |-> FALSE, bodyTx |-> FALSE, bodyRx |-> FALSE, inflight |-> FALSE]
    /\ t = [pc |-> "parked", rounds |-> 0, woken |-> TRUE, wakers |-> {}, outcome |-> "none",
            mark |-> "none"]
    /\ u = UserInit
    /\ \E plan \in Plans : p = [heads |-> 0, mid |-> "none", plan |-> plan]
    /\ taken = 0

Goto(label) == [t EXCEPT !.pc = label]

\* Poll::Pending because of source s: go on, s keeps the waker.
Pending(label, s) == [t EXCEPT !.pc = label, !.wakers = @ \union {s}]

Done(how) == [t EXCEPT !.pc = "done", !.outcome = how]

\* Dispatcher::close.
Closing == [d EXCEPT !.closing = TRUE]

\* Dispatcher::poll_catch after an error: Client::recv_msg gives it to the
\* request in flight, or else to the one still in the channel; Server::recv_msg
\* returns it.
CatchD == IF IsServer THEN d ELSE [d EXCEPT !.inflight = FALSE]

CatchT ==
    Done(IF ~IsServer /\ (d.inflight \/ u.ready \in {"ready", "canceled"})
         THEN "shutdown" ELSE "error")

ShouldPoll == IF IsServer THEN d.inflight ELSE ~d.inflight

-----------------------------------------------------------------------------
(* The task.                                                               *)

PollStart ==
    /\ t.pc = "parked" /\ t.woken
    /\ t' = [t EXCEPT !.pc = "read", !.woken = FALSE, !.rounds = 0, !.mark = "none"]
    /\ UNCHANGED <<c, d, u, p, taken>>

\* Dispatcher::poll_read.  Each of the next actions is one turn of its loop.
Reading == t.pc = "read" /\ ~d.closing

ReadClosing ==
    /\ t.pc = "read" /\ d.closing
    /\ t' = Goto("write")
    /\ UNCHANGED <<c, d, u, p, taken>>

\* poll_read_head: nobody cares for a message any more (Client: the callback
\* was canceled; Server: the service is closed).
ReadHeadUnwanted ==
    /\ Reading /\ CanReadHead(c)
    /\ IF IsServer THEN ~d.inflight /\ ~u.busy ELSE u.canceled \/ ~d.inflight
    /\ c' = CloseBoth(c)
    /\ d' = Closing
    /\ UNCHANGED <<t, u, p, taken>>

\* Server::poll_ready: a response is due, or the service is not ready.
ReadHeadBusy ==
    /\ IsServer /\ Reading /\ CanReadHead(c)
    /\ d.inflight \/ u.busy
    /\ t' = IF d.inflight THEN Goto("write") ELSE Pending("write", "ready")
    /\ UNCHANGED <<c, d, u, p, taken>>

ReadHeadWanted ==
    IF IsServer THEN ~d.inflight /\ ~u.busy ELSE d.inflight /\ ~u.canceled

ReadingHead == Reading /\ CanReadHead(c) /\ ReadHeadWanted

ReadHeadParsed ==
    /\ ReadingHead /\ Parsed(c) = "head"
    /\ c' = ReadHead(c)
    /\ LET h == ParsedHead(c) IN
       /\ d' = [d EXCEPT !.bodyTx = @ \/ h.body # "none", !.inflight = IsServer]
       /\ \E busy \in {FALSE, IsServer}, now \in (IF IsServer THEN {"no", "ready"} ELSE {u.ready}),
             want \in (IF h.body = "none" THEN {u.want} ELSE IF h.expect THEN {"no", "yes"} ELSE {"yes"}) :
            u' = [u EXCEPT !.want = want, !.ready = now, !.busy = busy]
    /\ taken' = IF IsServer THEN taken + 1 ELSE taken
    /\ UNCHANGED <<t, p>>

\* Buffered::parse needs more bytes.
ReadHeadMore ==
    /\ ReadingHead /\ Parsed(c) = "partial" /\ IoResult(c) \in {"data", "pending"}
    /\ c' = IoRead(c)
    /\ t' = IF IoReady(c) THEN t ELSE IF IsServer THEN Goto("write") ELSE Pending("write", "callback")
    /\ UNCHANGED <<d, u, p, taken>>

\* Conn::on_read_head_error: end of an idle connection ...
HeadError ==
    /\ ReadingHead
    /\ \/ Parsed(c) = "bad"
       \/ Parsed(c) = "partial" /\ IoResult(c) \in {"eof", "error"}

MustError == Parsed(c) = "bad" \/ c.buf # <<>> \/ (~IsServer /\ ~IsIdle(c))

ReadHeadEof ==
    /\ HeadError /\ ~MustError
    /\ c' = CloseBoth(IoRead(c))
    /\ d' = Closing
    /\ UNCHANGED <<t, u, p, taken>>

\* ... or an error, which a server may answer itself.
ReadHeadFails ==
    /\ HeadError /\ MustError
    /\ LET r == CloseRead(IF Parsed(c) = "bad" THEN c ELSE IoRead(c)) IN
       IF CanRespondToError(c, Parsed(c) = "bad")
       THEN /\ c' = RespondToError(r)
            /\ t' = Goto("write")
            /\ UNCHANGED d
       ELSE IF IsServer
       THEN /\ c' = r
            /\ t' = CatchT
            /\ d' = CatchD
       ELSE /\ c' = CloseBoth(r)
            /\ d' = [CatchD EXCEPT !.closing = TRUE]
            /\ UNCHANGED t
    /\ UNCHANGED <<u, p, taken>>

BodySenderDropped ==
    /\ d' = [d EXCEPT !.bodyTx = FALSE]
    /\ u' = [u EXCEPT !.want = "no"]

ReadingBody == Reading /\ ~CanReadHead(c) /\ d.bodyTx

\* Sender::poll_ready of the body: the reader does not want data yet.
ReadBodyUnwanted ==
    /\ ReadingBody /\ CanReadBody(c) /\ u.want = "no"
    /\ t' = Pending("write", "want")
    /\ UNCHANGED <<c, d, u, p, taken>>

\* The reader is gone: Conn::poll_drain_or_close_read.
ReadBodyDrain ==
    /\ ReadingBody /\ CanReadBody(c) /\ u.want = "dropped"
    /\ LET r == ReadBody(Continue(c)) IN
       c' = IF r.reading \in {"Init", "KeepAlive"} THEN r ELSE CloseRead(r)
    /\ BodySenderDropped
    /\ UNCHANGED <<t, p, taken>>

\* Conn::poll_read_body; the sender of the body is kept after a chunk and
\* dropped at the end or after an error.
ReadBodyPolled ==
    /\ ReadingBody /\ CanReadBody(c) /\ u.want = "yes"
    /\ LET piece == Decoded(Continue(c)) IN
       /\ c' = ReadBody(Continue(c))
       /\ t' = IF piece = "pending" THEN Pending("write", "want") ELSE t
       /\ IF piece \in {"pending", "data", "last"}
          THEN /\ \E want \in (IF piece = "pending" THEN {"yes"} ELSE {"no", "yes"}) :
                    u' = [u EXCEPT !.want = want]
               /\ UNCHANGED d
          ELSE BodySenderDropped
    /\ UNCHANGED <<p, taken>>

\* No body is read any more: the sender is dropped.
ReadBodyDone ==
    /\ ReadingBody /\ ~CanReadBody(c)
    /\ BodySenderDropped
    /\ UNCHANGED <<c, t, p, taken>>

\* The reader goes away between poll_ready and try_send_data.
ReadBodyLost ==
    /\ ReadingBody /\ CanReadBody(c) /\ u.want = "yes"
    /\ Decoded(Continue(c)) \in {"data", "last"}
    /\ LET r == ReadBody(Continue(c)) IN
       c' = IF CanReadBody(r) THEN CloseRead(r) ELSE r
    /\ BodySenderDropped
    /\ UNCHANGED <<t, p, taken>>

\* Conn::poll_read_keep_alive: a busy connection watches for the end of the
\* stream (mid_message_detect_eof), an idle client requires that nothing
\* arrives (require_empty_read).
Watching == Reading /\ ~CanReadHead(c) /\ ~d.bodyTx

MutUnread == c.reading = "Closed" \/ c.buf # <<>>

Unread == c.reading = "Closed" \/ (IsMidMessage(c) /\ c.buf # <<>>)

WatchPending ==
    /\ Watching
    /\ \/ Unread /\ c' = c
       \/ /\ ~Unread /\ c.buf = <<>>
          /\ IoResult(c) \in {"pending", IF IsMidMessage(c) THEN "data" ELSE "pending",
                              IF ~IsMidMessage(c) /\ IsIdle(c) THEN "eof" ELSE "pending"}
          /\ c' = IF IoResult(c) = "eof" THEN CloseRead(IoRead(c)) ELSE IoRead(c)
    /\ t' = Goto("write")
    /\ UNCHANGED <<d, u, p, taken>>

WatchFails ==
    /\ Watching /\ ~Unread
    /\ \/ c.buf # <<>> /\ c' = c
       \/ c.buf = <<>> /\ IoResult(c) = "data" /\ ~IsMidMessage(c) /\ c' = IoRead(c)
       \/ c.buf = <<>> /\ IoResult(c) = "eof" /\ (IsMidMessage(c) \/ ~IsIdle(c)) /\ c' = CloseRead(IoRead(c))
       \/ c.buf = <<>> /\ IoResult(c) = "error" /\ c' = CloseBoth(IoRead(c))
    /\ t' = CatchT
    /\ d' = CatchD
    /\ UNCHANGED <<u, p, taken>>

\* Dispatcher::poll_write, one turn of its loop at a time.
Writing == t.pc = "write" /\ ~d.closing

WriteClosing ==
    /\ t.pc = "write" /\ d.closing
    /\ t' = Goto("flush")
    /\ UNCHANGED <<c, d, u, p, taken>>

PollingMsg == Writing /\ ~d.bodyRx /\ CanWriteHead(c) /\ ShouldPoll

\* poll_msg: the service is not done, or no request is queued.
MutMsgPending ==
    /\ PollingMsg /\ u.ready = "no"
    /\ t' = Goto("flush")
    /\ UNCHANGED <<c, d, u, p, taken>>

MsgPending ==
    /\ PollingMsg /\ u.ready = "no"
    /\ t' = Pending("flush", "msg")
    /\ UNCHANGED <<c, d, u, p, taken>>

\* A response or a request, and Conn::write_full_msg or write_head.
MsgReady ==
    /\ PollingMsg /\ u.ready = "ready"
    /\ \E m \in p.plan.outgoing :
        /\ c' = WriteHead(c, m)
        /\ d' = [d EXCEPT !.inflight = ~IsServer, !.bodyRx = m.shape \in {"stream", "unsent", "invalid"}]
        /\ t' = IF m.shape = "full" THEN Goto("flush") ELSE t
    /\ \E now \in BOOLEAN :
        u' = [u EXCEPT !.ready = "no", !.data = now /\ d'.bodyRx, !.chunks = 0, !.canceled = FALSE]
    /\ taken' = IF IsServer THEN taken ELSE taken + 1
    /\ UNCHANGED p

\* The service fails.
MsgFails ==
    /\ IsServer /\ PollingMsg /\ u.ready = "ready"
    /\ t' = CatchT
    /\ d' = CatchD
    /\ UNCHANGED <<c, u, p, taken>>

\* The request was canceled before it began, or no request can come.
MsgNone ==
    /\ PollingMsg /\ u.ready \in {"canceled", "dropped"}
    /\ c' = CloseBoth(c)
    /\ d' = Closing
    /\ t' = Goto("flush")
    /\ u' = [u EXCEPT !.ready = "dropped"]
    /\ UNCHANGED <<p, taken>>

\* Buffered::poll_flush: the socket takes everything, or fails, or takes no
\* bytes for a while.
FlushFails == c.out # "empty" /\ c.peer = "reset"

FlushReady == ~FlushFails /\ (c.out = "empty" \/ u.writable)

FlushPending(label) ==
    /\ c.out # "empty" /\ c.peer # "reset"
    /\ ~u.writable \/ u.blocks < p.plan.blocks
    /\ u' = [u EXCEPT !.writable = FALSE, !.blocks = IF u.writable THEN @ + 1 ELSE @]
    /\ t' = Pending(label, "write")

NextIsBody == Writing /\ ~PollingMsg

\* No room for a chunk: Dispatcher::poll_flush.
WriteFull ==
    /\ NextIsBody /\ ~CanBufferBody(c)
    /\ \/ FlushPending("flush") /\ UNCHANGED <<c, d>>
       \/ FlushFails /\ t' = CatchT /\ d' = CatchD /\ UNCHANGED <<c, u>>
       \/ /\ FlushReady
          /\ c' = Flushed(c)
          /\ t' = [t EXCEPT !.mark = IF ~IsIdle(c) /\ IsIdle(c') THEN "idled" ELSE @]
          /\ UNCHANGED <<d, u>>
    /\ UNCHANGED <<p, taken>>

\* No body: poll_write is done for now.  The service, or the channel, is not
\* polled if the body of an earlier message is still queued.
WriteIdle ==
    /\ NextIsBody /\ CanBufferBody(c) /\ ~d.bodyRx
    /\ t' = [Goto("flush") EXCEPT
               !.mark = IF ShouldPoll /\ c.writing = "Init" /\ c.out = "queued" THEN "skipped" ELSE @]
    /\ UNCHANGED <<c, d, u, p, taken>>

\* The rest of a body that is not to be sent is dropped.
WriteBodyDropped ==
    /\ NextIsBody /\ CanBufferBody(c) /\ d.bodyRx /\ ~CanWriteBody(c)
    /\ d' = [d EXCEPT !.bodyRx = FALSE]
    /\ UNCHANGED <<c, t, u, p, taken>>

WritingBody == NextIsBody /\ CanBufferBody(c) /\ d.bodyRx /\ CanWriteBody(c)

WriteBodyPending ==
    /\ WritingBody /\ ~u.data
    /\ t' = Pending("flush", "data")
    /\ UNCHANGED <<c, d, u, p, taken>>

\* A chunk, which may complete the announced length.
WriteBodyChunk ==
    /\ WritingBody /\ u.data /\ u.chunks = 0
    /\ \E complete \in {FALSE, c.kind = "length"}, o \in p.plan.fill :
        c' = WriteBody(c, complete, o)
    /\ \E now \in BOOLEAN : u' = [u EXCEPT !.data = now, !.chunks = 1]
    /\ UNCHANGED <<d, t, p, taken>>

\* The chunk that is known to be the last.
WriteBodyLast ==
    /\ WritingBody /\ u.data
    /\ \E short \in {FALSE, c.kind = "length"}, o \in p.plan.fill :
        c' = WriteBodyAndEnd(c, short, o)
    /\ d' = [d EXCEPT !.bodyRx = FALSE]
    /\ UNCHANGED <<t, u, p, taken>>

\* The end of the body, an error where bytes are missing.
WriteBodyEnd ==
    /\ WritingBody /\ u.data
    /\ c' = EndBody(c)
    /\ IF EndBodyFails(c)
       THEN t' = CatchT /\ d' = [CatchD EXCEPT !.bodyRx = FALSE]
       ELSE d' = [d EXCEPT !.bodyRx = FALSE] /\ UNCHANGED t
    /\ UNCHANGED <<u, p, taken>>

\* The body fails.
WriteBodyError ==
    /\ WritingBody /\ u.data
    /\ t' = CatchT
    /\ d' = [CatchD EXCEPT !.bodyRx = FALSE]
    /\ UNCHANGED <<c, u, p, taken>>

\* The end of a round of poll_loop: Dispatcher::poll_flush, then another round
\* if wants_read_again, but after MaxRounds the task yields.
AfterRound(r) ==
    /\ c' = [r EXCEPT !.notify = FALSE]
    /\ t' = CASE ~r.notify -> Goto("check")
              [] r.notify /\ t.rounds + 1 < MaxRounds -> [t EXCEPT !.pc = "read", !.rounds = @ + 1, !.mark = "none"]
              [] OTHER -> [t EXCEPT !.pc = "parked", !.woken = TRUE]

FlushDone ==
    /\ t.pc = "flush" /\ FlushReady
    /\ AfterRound(Flushed(c))
    /\ UNCHANGED <<d, u, p, taken>>

FlushBlocked ==
    /\ t.pc = "flush" /\ FlushPending("flushed")
    /\ UNCHANGED <<c, d, p, taken>>

FlushUnfinished ==
    /\ t.pc = "flushed"
    /\ AfterRound(c)
    /\ UNCHANGED <<d, u, p, taken>>

FlushError ==
    /\ t.pc = "flush" /\ FlushFails
    /\ t' = CatchT
    /\ d' = CatchD
    /\ UNCHANGED <<c, u, p, taken>>

\* Dispatcher::is_done.
IsDone ==
    \/ d.closing
    \/ /\ c.reading = "Closed"
       /\ ~IsServer \/ c.writing = "Closed" \/ (~ShouldPoll /\ ~d.bodyRx)

\* The end of poll_inner: an upgrade is handed over, otherwise the socket is
\* shut down; an error kept by the connection is reported.
CheckDone ==
    /\ t.pc = "check" /\ IsDone
    /\ IF c.error \/ (~c.upgrade /\ c.peer = "reset")
       THEN t' = CatchT /\ d' = CatchD
       ELSE t' = Done(IF c.upgrade THEN "upgrade" ELSE "shutdown") /\ UNCHANGED d
    /\ UNCHANGED <<c, u, p, taken>>

CheckPending ==
    /\ t.pc = "check" /\ ~IsDone
    /\ t' = Goto("parked")
    /\ UNCHANGED <<c, d, u, p, taken>>

-----------------------------------------------------------------------------
(* The socket and the peer.                                                *)

\* Something happens at source s: whoever keeps a waker there is scheduled.
Wake(s) == [t EXCEPT !.woken = @ \/ s \in t.wakers, !.wakers = @ \ {s}]

\* Something arrives at the socket.
Arrives(r) ==
    /\ t.pc \in {"parked", "read", "flush"} /\ c.peer = "open"
    /\ c' = [r EXCEPT !.armed = FALSE]
    /\ t' = [t EXCEPT !.woken = @ \/ c.armed]
    /\ UNCHANGED <<d, u, taken>>

Token(name) == [t |-> name]

Sends(token) == Arrives([c EXCEPT !.inbox = Append(@, token)])

PeerSendsPart ==
    /\ "part" \in p.plan.faults /\ p.mid = "none" /\ p.heads < p.plan.max
    /\ Sends(Token("part"))
    /\ p' = [p EXCEPT !.mid = "part"]

PeerSendsHead ==
    /\ p.mid \in {"none", "part"} /\ p.heads < p.plan.max
    /\ \E h \in p.plan.heads :
        /\ Sends(h)
        /\ p' = [p EXCEPT !.heads = @ + 1, !.mid = h.body]

PeerSendsData ==
    /\ p.mid \in {"framed", "eof"}
    /\ Sends(Token("data"))
    /\ p' = [p EXCEPT !.mid = IF @ = "framed" THEN "half" ELSE "rest"]

PeerEndsBody ==
    /\ p.mid \in {"framed", "half"}
    /\ \E name \in {"last", "end"} : Sends(Token(name))
    /\ p' = [p EXCEPT !.mid = "none"]

PeerSendsBad ==
    /\ "bad" \in p.plan.faults /\ p.mid # "junk"
    /\ Sends(Token("bad"))
    /\ p' = [p EXCEPT !.mid = "junk"]

PeerCloses ==
    /\ \E how \in p.plan.faults \intersect {"eof", "reset"} : Arrives([c EXCEPT !.peer = how])
    /\ UNCHANGED p

-----------------------------------------------------------------------------
(* The program around the connection.                                      *)

Acts(r, s) ==
    /\ t.pc = "parked"
    /\ u' = r
    /\ t' = Wake(s)
    /\ UNCHANGED <<c, d, p, taken>>

\* The socket takes bytes again.
SocketReady == ~u.writable /\ Acts([u EXCEPT !.writable = TRUE], "write")

ServiceDone ==
    /\ IsServer /\ d.inflight /\ u.ready = "no"
    /\ Acts([u EXCEPT !.ready = "ready"], "msg")

ServiceReady == u.busy /\ Acts([u EXCEPT !.busy = FALSE], "ready")

\* The outgoing body has an item.
BodyReady == d.bodyRx /\ ~u.data /\ Acts([u EXCEPT !.data = TRUE], "data")

\* The reader of the incoming body asks for data or drops the body.
ReaderWants == d.bodyTx /\ u.want = "no" /\ Acts([u EXCEPT !.want = "yes"], "want")

ReaderDrops ==
    d.bodyTx /\ u.want # "dropped" /\ Acts([u EXCEPT !.want = "dropped"], "want")

CallerSends ==
    /\ ~IsServer /\ u.ready = "no" /\ u.sends < MaxSends
    /\ Acts([u EXCEPT !.ready = "ready", !.sends = @ + 1], "msg")

CallerLeavesQueue ==
    ~IsServer /\ u.ready = "ready" /\ Acts([u EXCEPT !.ready = "canceled"], "none")

CallerCancels ==
    /\ ~IsServer /\ d.inflight /\ ~u.canceled
    /\ Acts([u EXCEPT !.canceled = TRUE], "callback")

SenderDropped ==
    ~IsServer /\ u.ready = "no" /\ Acts([u EXCEPT !.ready = "dropped"], "msg")

\* Connection::graceful_shutdown of a server, which polls the connection
\* afterwards: Dispatcher::disable_keep_alive.
GracefulShutdown ==
    /\ IsServer /\ t.pc = "parked" /\ ~u.graceful
    /\ LET r == DisableKeepAlive(c) IN
       IF r.writing = "Closed"
       THEN c' = CloseBoth(r) /\ d' = Closing
       ELSE c' = r /\ UNCHANGED d
    /\ u' = [u EXCEPT !.graceful = TRUE]
    /\ t' = [t EXCEPT !.woken = TRUE]
    /\ UNCHANGED <<p, taken>>

-----------------------------------------------------------------------------

TaskRead ==
    \/ ReadClosing \/ ReadHeadUnwanted \/ ReadHeadBusy \/ ReadHeadParsed \/ ReadHeadMore
    \/ ReadHeadEof \/ ReadHeadFails \/ ReadBodyUnwanted \/ ReadBodyDrain
    \/ ReadBodyPolled \/ ReadBodyLost \/ ReadBodyDone \/ WatchPending \/ WatchFails

TaskWrite ==
    \/ WriteClosing \/ MsgPending \/ MsgReady \/ MsgFails \/ MsgNone \/ WriteFull
    \/ WriteIdle \/ WriteBodyDropped \/ WriteBodyPending \/ WriteBodyChunk
    \/ WriteBodyLast \/ WriteBodyEnd \/ WriteBodyError

Task ==
    \/ PollStart \/ TaskRead \/ TaskWrite
    \/ FlushDone \/ FlushBlocked \/ FlushUnfinished \/ FlushError
    \/ CheckDone \/ CheckPending

Peer ==
    \/ PeerSendsPart \/ PeerSendsHead \/ PeerSendsData \/ PeerEndsBody
    \/ PeerSendsBad \/ PeerCloses

User ==
    \/ SocketReady \/ ServiceDone \/ ServiceReady \/ BodyReady
    \/ ReaderWants \/ ReaderDrops \/ CallerSends \/ CallerLeavesQueue
    \/ CallerCancels \/ SenderDropped \/ GracefulShutdown

Next == Task \/ Peer \/ User

Spec == Init /\ [][Next]_vars

\* The executor polls a task that was woken; the socket takes bytes again,
\* the service and the bodies go on whatever the task does, hence strong
\* fairness for steps that the model only takes between polls.  Nothing is
\* assumed of the peer.
Fairness ==
    /\ WF_vars(Task)
    /\ SF_vars(SocketReady)
    /\ SF_vars(ServiceDone) /\ SF_vars(ServiceReady) /\ SF_vars(BodyReady)
    /\ SF_vars(ReaderWants \/ ReaderDrops)

FairSpec == Spec /\ Fairness

-----------------------------------------------------------------------------

\* A server takes the next request only when the response to the previous one
\* is wholly encoded: while it waits for a head, no response is due or under
\* way, so that pipelined responses cannot overtake one another.
HalvesInStep ==
    IsServer /\ c.reading = "Init" =>
        c.writing \in {"Init", "Closed"} /\ ~d.inflight

\* Once the connection is to close (a message said so, an HTTP/1.0 peer, a
\* graceful shutdown, an error), keep-alive stays disabled and no further
\* message is begun, except the first one.
NoMessageAfterClose ==
    [][c.ka = "Disabled" => c'.ka = "Disabled" /\ (taken' > taken => taken = 0)]_vars

\* The debug assertion of encode_head: the cached headers of the last outgoing
\* message were used up by an incoming one.
CachedHeadersUsed == PollingMsg => ~c.cached

\* A client begins a request only on a connection from which it has read
\* every byte of earlier responses: it cannot take stale bytes for the answer.
\* The one exception is a connection that turned idle in the flush of
\* poll_write itself: the same loop takes the next request, and poll_read,
\* which would find the bytes (require_empty_read), does not come between.
NoStaleResponse ==
    [][~IsServer /\ taken' > taken =>
          c.reading = "Init" /\ ~d.bodyRx /\ (c.buf = <<>> \/ t.mark = "idled")]_vars

\* A server polled to completion serves every request whose head arrived, or
\* ends: bytes left in the buffer while a response was written are not
\* forgotten.
Served ==
    \A k \in UNION {1..plan.max : plan \in Plans} :
        (IsServer /\ p.heads >= k) ~> (taken >= k \/ t.pc = "done")

\* The task sleeps with the service unpolled: poll_write skipped it because an
\* early response was queued, and the flush that came next left no waker.
Forgotten ==
    t.pc = "parked" /\ ~t.woken /\ t.mark = "skipped" /\ c.out = "empty"

\* Whatever the service was called for is answered in the end, or the
\* connection is over: the task does not sleep without a waker at the service,
\* except where poll_write skipped the service and the flush was the last thing
\* to wait for (dispatch.rs:370).
Answered == (IsServer /\ d.inflight) ~> (~d.inflight \/ t.pc = "done" \/ Forgotten)

\* After a graceful shutdown a server connection that has served a request
\* ends, unless the peer withholds the rest of a body or the service is
\* forgotten.
GracefulEnds ==
    (/\ u.graceful /\ taken > 0
     /\ p.heads = taken => p.mid \in {"none", "part"}) ~> (t.pc = "done" \/ Forgotten)

\* A client whose peer closes the connection does not leave the request in
\* flight without an answer.
AnsweredAfterEof == (~IsServer /\ d.inflight /\ c.peer # "open") ~> (~d.inflight \/ t.pc = "done")

\* The header buffer leaves before the queue, so a head that joins it while
\* the body of an earlier response is queued is sent in the middle of that
\* response: the `debug_assert!(!self.queue.has_remaining())` of headers_mut in
\* io.rs.  poll_write asks can_headers_buf first.  The interim 100 Continue and
\* the automatic answer to a request that cannot be parsed, written in
\* poll_read, do not, and the assertion fails there.
QueueEmptyForHeaders == ~c.mixed

=============================================================================
