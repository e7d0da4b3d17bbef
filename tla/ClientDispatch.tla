--------------------------- MODULE ClientDispatch ---------------------------
(***************************************************************************)
(* How requests travel from a SendRequest to an HTTP/1 client connection   *)
(* and how their promises are resolved: the channel of                     *)
(* src/client/dispatch.rs, the send functions of src/client/conn.rs, and   *)
(* the Client half of src/proto/h1/dispatch.rs, which takes requests off   *)
(* the channel and answers them.                                           *)
(*                                                                         *)
(* The caller and the connection task run on different threads.  They      *)
(* share three things, each operation on which is one step: the want       *)
(* signal (crate want), the mpsc queue and one oneshot per request.        *)
(*                                                                         *)
(* A definition whose name starts with Mut is a faulty variant of the one  *)
(* after it.                                                               *)
(***************************************************************************)
EXTENDS Naturals, Sequences, FiniteSets

CONSTANTS
    Requests,     \* the requests the caller may send
    ReadyFirst,   \* the caller sends once poll_ready said so and waits for
                  \* the answer before it goes on, as client.rs does
    MayDropConn,  \* the Connection future may be dropped before it completes
    None          \* no request

ASSUME DispatchAssumption ==
    /\ ReadyFirst \in BOOLEAN
    /\ MayDropConn \in BOOLEAN
    /\ None \notin Requests

VARIABLES
    want,       \* state shared by Giver and Taker
    buffered,   \* Sender.buffered_once
    queue,      \* envelopes visible in the mpsc channel
    rx,         \* mpsc receiver: "open", "closed" (close called), "gone"
    tx,         \* the Sender is alive
    ready,      \* poll_ready has returned Ok since the last send
    sending,    \* request between can_send and the end of the mpsc send
    step,       \* where that send is: "none", "given", "pushing"
    promise,    \* the caller's end of each oneshot
    result,     \* what the oneshot was resolved with
    phase,      \* what the connection task is doing
    callback,   \* Client.callback: the request being answered
    started     \* requests the connection began to write

vars == <<want, buffered, queue, rx, tx, ready, sending, step, promise,
          result, phase, callback, started>>

caller == <<buffered, tx, ready, sending, step, promise>>

-----------------------------------------------------------------------------
\* channel(), Client::new and a connection that waits for its first request.
Init ==
    /\ want = "idle"
    /\ buffered = FALSE
    /\ queue = <<>>
    /\ rx = "open"
    /\ tx = TRUE
    /\ ready = FALSE
    /\ sending = None
    /\ step = "none"
    /\ promise = [r \in Requests |-> "unsent"]
    /\ result = [r \in Requests |-> "none"]
    /\ phase = "idle"
    /\ callback = None
    /\ started = {}

\* Callback::send: the value is lost when the caller's end is gone.
Answer(r, res) == [result EXCEPT ![r] = res]

\* Drop for Envelope, for every envelope of the queue: each callback is told
\* that the request was canceled and gets the request back.
AnswerAll(rs, res) == [r \in Requests |-> IF r \in rs THEN res ELSE result[r]]

Queued == {queue[i] : i \in 1..Len(queue)}

-----------------------------------------------------------------------------
(* The caller.                                                             *)

\* Sender::poll_ready and is_ready: the receiver wants a request.
PollReady ==
    /\ tx /\ step = "none"
    /\ want = "want"
    /\ ready' = TRUE
    /\ UNCHANGED <<want, buffered, queue, rx, tx, sending, step, promise, result,
                   phase, callback, started>>

MutCanSend(r) ==
    /\ tx /\ step = "none"
    /\ promise[r] = "unsent"
    /\ ReadyFirst => ready
    /\ want = "want" \/ ~buffered
    /\ want' = IF want = "want" THEN "idle" ELSE want
    /\ ready' = FALSE
    /\ sending' = r
    /\ step' = "given"
    /\ UNCHANGED <<buffered, queue, rx, tx, promise, result, phase, callback, started>>

\* Sender::can_send: take the signal, or use the one message that is allowed
\* before the receiver has asked.
CanSend(r) ==
    /\ tx /\ step = "none"
    /\ promise[r] = "unsent"
    /\ ReadyFirst => /\ ready
                     /\ \A q \in Requests : promise[q] # "live" \/ result[q] # "none"
    /\ want = "want" \/ ~buffered
    /\ want' = IF want = "want" THEN "idle" ELSE want
    /\ buffered' = TRUE
    /\ ready' = FALSE
    /\ sending' = r
    /\ step' = "given"
    /\ UNCHANGED <<queue, rx, tx, promise, result, phase, callback, started>>

\* Sender::can_send is false: "connection was not ready", the request is
\* returned.
NotReady(r) ==
    /\ tx /\ step = "none"
    /\ promise[r] = "unsent"
    /\ ReadyFirst => ready
    /\ want # "want" /\ buffered
    /\ ready' = FALSE
    /\ promise' = [promise EXCEPT ![r] = "live"]
    /\ result' = Answer(r, "canceled")
    /\ UNCHANGED <<want, buffered, queue, rx, tx, sending, step, phase, callback, started>>

\* The mpsc send fails once the receiver is closed: the envelope is opened
\* again and the request returned.
PushFails ==
    /\ step = "given" /\ rx # "open"
    /\ promise' = [promise EXCEPT ![sending] = "live"]
    /\ result' = Answer(sending, "canceled")
    /\ sending' = None
    /\ step' = "none"
    /\ UNCHANGED <<want, buffered, queue, rx, tx, ready, phase, callback, started>>

\* The channel finds the receiver open and accepts the message ...
PushBegins ==
    /\ step = "given" /\ rx = "open"
    /\ step' = "pushing"
    /\ UNCHANGED <<want, buffered, queue, rx, tx, ready, sending, promise, result,
                   phase, callback, started>>

\* ... and makes it visible, even if the receiver was dropped in between.
PushEnds ==
    /\ step = "pushing"
    /\ queue' = Append(queue, sending)
    /\ promise' = [promise EXCEPT ![sending] = "live"]
    /\ sending' = None
    /\ step' = "none"
    /\ UNCHANGED <<want, buffered, rx, tx, ready, result, phase, callback, started>>

\* The caller drops its response future.
DropPromise(r) ==
    /\ promise[r] = "live" /\ result[r] = "none"
    /\ promise' = [promise EXCEPT ![r] = "dropped"]
    /\ UNCHANGED <<want, buffered, queue, rx, tx, ready, sending, step, result,
                   phase, callback, started>>

\* The caller drops the SendRequest; client.rs keeps it in Pooled until the
\* answer is there.  If the receiver is gone too, the channel is freed and
\* with it the envelopes that are still inside.
DropSender ==
    /\ tx /\ step = "none"
    /\ ReadyFirst => \A r \in Requests : promise[r] = "live" => result[r] # "none"
    /\ tx' = FALSE
    /\ IF rx = "gone"
       THEN /\ result' = AnswerAll(Queued, "canceled")
            /\ queue' = <<>>
       ELSE UNCHANGED <<result, queue>>
    /\ UNCHANGED <<want, buffered, rx, ready, sending, step, promise, phase,
                   callback, started>>

-----------------------------------------------------------------------------
(* The connection task.  It writes one request at a time: phase "idle" is  *)
(* the only one in which it asks the channel for the next.                 *)

\* Client::poll_msg takes the first envelope.  A request whose caller has
\* gone is not started, and the connection closes.
PollMsg ==
    /\ phase = "idle" /\ queue # <<>>
    /\ queue' = Tail(queue)
    /\ IF promise[Head(queue)] = "dropped"
       THEN /\ phase' = "closing"
            /\ UNCHANGED <<callback, started>>
       ELSE /\ phase' = "inflight"
            /\ callback' = Head(queue)
            /\ started' = started \union {Head(queue)}
    /\ UNCHANGED <<want, rx, result, caller>>

\* Receiver::poll_recv finds nothing ...
PollMsgPending ==
    /\ phase = "idle" /\ queue = <<>> /\ tx
    /\ phase' = "wanting"
    /\ UNCHANGED <<want, queue, rx, result, callback, started, caller>>

\* ... and tells the Sender that it wants a request.
Want ==
    /\ phase = "wanting"
    /\ want' = "want"
    /\ phase' = "idle"
    /\ UNCHANGED <<queue, rx, result, callback, started, caller>>

\* Client::poll_msg: the Sender is dropped and the channel empty.
PollMsgClosed ==
    /\ phase = "idle" /\ queue = <<>> /\ ~tx
    /\ phase' = "closing"
    /\ UNCHANGED <<want, queue, rx, result, callback, started, caller>>

\* Client::recv_msg with a response.  The connection goes on with its body,
\* is idle again, or cannot be kept alive.
RecvMsg ==
    /\ phase = "inflight"
    /\ result' = Answer(callback, "ok")
    /\ callback' = None
    /\ phase' \in {"body", "idle", "closing"}
    /\ UNCHANGED <<want, queue, rx, started, caller>>

MutRecvErrDropped ==
    /\ phase = "inflight"
    /\ phase' = "closing"
    /\ UNCHANGED <<want, queue, rx, result, callback, started, caller>>

MutRecvErrReturned ==
    /\ phase = "inflight"
    /\ result' = Answer(callback, "canceled")
    /\ callback' = None
    /\ phase' = "closing"
    /\ UNCHANGED <<want, queue, rx, started, caller>>

\* Client::recv_msg with an error, for the request in flight.
RecvErr ==
    /\ phase = "inflight"
    /\ result' = Answer(callback, "err")
    /\ callback' = None
    /\ phase' = "closing"
    /\ UNCHANGED <<want, queue, rx, started, caller>>

\* Client::poll_ready: the caller no longer waits for the response.
CallbackCanceled ==
    /\ phase = "inflight" /\ promise[callback] = "dropped"
    /\ phase' = "closing"
    /\ UNCHANGED <<want, queue, rx, result, callback, started, caller>>

\* The response body is read, or given up.
BodyEnds ==
    /\ phase = "body"
    /\ phase' \in {"idle", "closing"}
    /\ UNCHANGED <<want, queue, rx, result, callback, started, caller>>

\* The peer closes an idle connection.
IdleEof ==
    /\ phase = "idle"
    /\ phase' = "closing"
    /\ UNCHANGED <<want, queue, rx, result, callback, started, caller>>

\* Client::recv_msg with an error and no request in flight.  Receiver::close
\* cancels the signal ...
FailCancel ==
    /\ phase \in {"idle", "body"}
    /\ want' = "closed"
    /\ phase' = "failing"
    /\ UNCHANGED <<queue, rx, result, callback, started, caller>>

\* ... and closes the mpsc channel; ...
FailClose ==
    /\ phase = "failing"
    /\ rx' = "closed"
    /\ phase' = "failed"
    /\ UNCHANGED <<want, queue, result, callback, started, caller>>

\* ... then try_recv takes one request, if there is one, to give it back.
FailTryRecv ==
    /\ phase = "failed"
    /\ IF queue = <<>>
       THEN UNCHANGED <<queue, result>>
       ELSE /\ result' = Answer(Head(queue), "canceled")
            /\ queue' = Tail(queue)
    /\ phase' = "closing"
    /\ UNCHANGED <<want, rx, callback, started, caller>>

\* The Connection future is dropped, complete or not: the callback first
\* (its caller sees the oneshot closed), then Drop for Receiver cancels the
\* signal ...
DropConn ==
    /\ \/ phase = "closing"
       \/ MayDropConn /\ phase \in {"idle", "inflight", "body"}
    /\ want' = "closed"
    /\ callback' = None
    /\ result' = IF callback = None THEN result ELSE Answer(callback, "lost")
    /\ phase' = "dropping"
    /\ UNCHANGED <<queue, rx, started, caller>>

MutDropRx ==
    /\ phase = "dropping"
    /\ rx' = "gone"
    /\ queue' = <<>>
    /\ phase' = "gone"
    /\ UNCHANGED <<want, result, callback, started, caller>>

\* ... and the mpsc receiver closes the channel and drops the envelopes it
\* can see.
DropRx ==
    /\ phase = "dropping"
    /\ rx' = "gone"
    /\ result' = AnswerAll(Queued, "canceled")
    /\ queue' = <<>>
    /\ phase' = "gone"
    /\ UNCHANGED <<want, callback, started, caller>>

-----------------------------------------------------------------------------
Caller ==
    \/ \E r \in Requests : CanSend(r) \/ NotReady(r) \/ DropPromise(r)
    \/ PollReady \/ PushFails \/ PushBegins \/ PushEnds
    \/ DropSender

Answering == RecvMsg \/ RecvErr

Closing == FailClose \/ FailTryRecv \/ DropConn \/ DropRx

Connection ==
    \/ PollMsg \/ PollMsgPending \/ Want \/ PollMsgClosed
    \/ Answering \/ CallbackCanceled \/ BodyEnds \/ IdleEof
    \/ FailCancel \/ Closing

Next == Caller \/ Connection

Spec == Init /\ [][Next]_vars

\* The threads of both sides run; the peer answers a request or the
\* connection fails; a response body ends.
FairSpec ==
    /\ Spec
    /\ WF_vars(PushFails \/ PushBegins \/ PushEnds)
    /\ WF_vars(PollMsg)
    /\ WF_vars(Want)
    /\ WF_vars(Answering)
    /\ WF_vars(BodyEnds)
    /\ WF_vars(Closing)

-----------------------------------------------------------------------------
(* Properties.                                                             *)

Results == {"none", "ok", "err", "canceled", "lost"}

Phases == {"idle", "wanting", "inflight", "body", "failing", "failed",
           "closing", "dropping", "gone"}

\* Every variable has its type, only a send in progress holds a request, and
\* the callback belongs to a request in flight.
TypeOK ==
    /\ want \in {"idle", "want", "closed"}
    /\ buffered \in BOOLEAN
    /\ queue \in Seq(Requests)
    /\ rx \in {"open", "closed", "gone"}
    /\ tx \in BOOLEAN
    /\ ready \in BOOLEAN
    /\ sending \in Requests \union {None}
    /\ step \in {"none", "given", "pushing"}
    /\ promise \in [Requests -> {"unsent", "live", "dropped"}]
    /\ result \in [Requests -> Results]
    /\ phase \in Phases
    /\ callback \in Requests \union {None}
    /\ started \subseteq Requests
    /\ sending = None <=> step = "none"
    /\ callback # None => phase \in {"inflight", "closing"}

\* A request that a caller waits for is never left without an answer by the
\* connection: the `panic!("dispatch dropped without returning error")` of
\* client/conn.rs is not reached.
NeverUnanswered ==
    \A r \in Requests : promise[r] = "live" => result[r] # "lost"

\* A request is given back to its caller, who may then send it on another
\* connection, only if this connection never began to write it
\* ("the message was never even started", h1/dispatch.rs).
ReturnedUnstarted ==
    \A r \in Requests : result[r] = "canceled" => r \notin started

\* The unbounded mpsc channel holds at most three requests: the one allowed
\* by buffered_once, one for a want raised before that request was visible,
\* and one for the want of a poll that was under way (Sender in
\* client/dispatch.rs: "Actually bounded by the Giver, plus `buffered_once`").
QueueBounded ==
    Len(queue) + (IF step = "none" THEN 0 ELSE 1) <= 3

\* A promise is resolved once, and a request is not put in the channel again.
AnswerFinal ==
    [][\A r \in Requests :
          /\ result[r] # "none" => result'[r] = result[r]
          /\ promise[r] # "unsent" => promise'[r] # "unsent"]_vars

\* Why AnswerFinal, ReturnedUnstarted and NeverUnanswered hold: where a
\* request is while it has no answer.  An unsent request is nowhere in the
\* connection, a queued one is queued once and not started, and the one in
\* flight loses its callback only after its caller has gone.
Custody ==
    /\ sending # None => promise[sending] = "unsent" /\ buffered
    /\ \A r \in Requests : promise[r] = "unsent" =>
          result[r] = "none" /\ r \notin Queued \union started \union {callback}
    /\ \A i, j \in 1..Len(queue) : queue[i] = queue[j] => i = j
    /\ \A r \in Queued : result[r] = "none" /\ r \notin started
    /\ callback # None => result[callback] = "none" /\ callback \in started
    /\ phase = "inflight" => callback # None
    /\ phase = "closing" /\ callback # None => promise[callback] = "dropped"

InSend == IF step = "none" THEN 0 ELSE 1

Wanted == IF want = "want" THEN 1 ELSE 0

Wanting == IF phase = "wanting" THEN 1 ELSE 0

Spare == IF buffered THEN 0 ELSE 1

\* Why QueueBounded holds: what is in the channel and what may still be sent.
\* Each request there has used up a raised want, a want about to be raised,
\* or buffered_once.
SendTokens == Len(queue) + InSend + Wanted + Wanting + Spare <= 3

\* Every request that was sent gets an answer, or its caller goes away: what
\* the check of `pooled.is_closed()` after the send is there for in client.rs
\* ("we must check if our senders 'want' channel has been closed after having
\* tried to send. If so, error out...").  It does not hold for the client,
\* which goes on to await the answer with the Sender in its hands.
RequestResolved ==
    \A r \in Requests :
        (promise[r] = "live") ~> (result[r] # "none" \/ promise[r] = "dropped")

\* The one way for a request to stay without an answer is that race: its
\* message became visible after the receiver was dropped, and a Sender keeps
\* the channel alive.
Stuck(r) == tx /\ rx = "gone" /\ r \in Queued

\* Every other request is answered, or its caller goes away, whenever the
\* connection answers, fails or closes (Drop for Envelope and for Receiver).
ResolvedUnlessStuck ==
    \A r \in Requests :
        (promise[r] = "live") ~> (result[r] # "none" \/ promise[r] = "dropped" \/ Stuck(r))

=============================================================================
