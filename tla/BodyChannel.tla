----------------------------- MODULE BodyChannel -----------------------------
(***************************************************************************)
(* A streamed message body (body/body.rs): a Sender and a Body joined by a *)
(* want signal (common/watch.rs), a bounded channel of chunks and a        *)
(* oneshot for the trailers.  The sender is a user of Body::channel or the *)
(* HTTP/1 connection (proto/h1/dispatch.rs); sender and reader are two     *)
(* tasks, and a task that returned Pending runs again only when a waker it *)
(* left behind is used.                                                    *)
(***************************************************************************)
EXTENDS Integers, Sequences

CONSTANTS
    U64Max,         \* u64::MAX, the width of DecodedLength
    Lengths,        \* content lengths a connection announces, or CHUNKED
    Sizes,          \* lengths a chunk may have
    MaxChunks       \* bound on the chunks of a body

ASSUME BodyAssumption ==
    /\ U64Max \in Nat \ {0} /\ MaxChunks \in Nat
    /\ Lengths \subseteq 0 .. U64Max - 1
    /\ Sizes \subseteq Nat \ {0}

VARIABLES
    conn,           \* the sender is a connection, not a user
    len,            \* content_length of the Body
    wire,           \* bytes of the body the connection's decoder still expects
    delay,          \* delayed_eof: "none", "NotEof" or "Eof"
    idle,           \* the connection is back in the pool: the delay is over
    want,           \* the value of the want signal
    queue,          \* the chunks in the channel, 0 being an error
    parked,         \* the sender has used its slot of the channel
    trailers,       \* "none", "sent" or "taken"
    tx, rx,         \* where the two tasks are
    txWakers,       \* where the sender's waker is registered
    rxWakers,       \* where the reader's waker is registered
    woken,          \* which of the tasks "tx" and "rx" are scheduled to run
    sent, fate, got, outcome     \* what was sent and received, for BodyStream

channel == <<want, queue, parked, trailers>>
reader  == <<len, delay, rx, rxWakers>>
history == <<sent, fate, got, outcome>>
vars == <<conn, len, wire, delay, idle, want, queue, parked, trailers,
          tx, rx, txWakers, rxWakers, woken, sent, fate, got, outcome>>

CHUNKED == U64Max - 1

Known(l) == l < CHUNKED

\* DecodedLength::sub_if; the subtraction has the width of u64.
SubIf(l, n) == IF Known(l) THEN (l - n) % (U64Max + 1) ELSE l

NONE == -1      \* an absent number

\* size_hint: the number of bytes left, of a body whose length is known.
SizeHint == IF Known(len) THEN len ELSE NONE

\* is_end_stream: nothing is left of a body of known length.
IsEndStream == len = 0

\* DelayEof, or none: the end not seen yet, or seen and held back.
Delays == {"none", "NotEof", "Eof"}

\* A client may ask a response's body to delay its end: Body::delayed_eof.
DelayedEof(response) == IF response THEN {"none", "NotEof"} ELSE {"none"}

\* A body from Body::channel, or the one a connection makes for a message, whose
\* sender waits for the first poll when the peer expects 100-continue (wanter).
Init ==
    /\ conn \in BOOLEAN
    /\ len \in IF conn THEN Lengths \ {0} ELSE {CHUNKED}
    /\ wire = len
    /\ \E wanter \in IF conn THEN BOOLEAN ELSE {FALSE} :
          want = IF wanter THEN "PENDING" ELSE "READY"
    /\ delay \in DelayedEof(conn)
    /\ idle = FALSE
    /\ queue = <<>> /\ parked = FALSE /\ trailers = "none"
    /\ tx = "idle" /\ rx = "idle"
    /\ txWakers = {} /\ rxWakers = {} /\ woken = {}
    /\ sent = <<>> /\ fate = "open" /\ got = <<>> /\ outcome = "none"

\* Wakers of a task registered at one of places are used.
WakeTx(places) ==
    /\ woken' = IF txWakers \cap places # {} THEN woken \cup {"tx"} ELSE woken
    /\ txWakers' = txWakers \ places

WakeRx(places) ==
    /\ woken' = IF rxWakers \cap places # {} THEN woken \cup {"rx"} ELSE woken
    /\ rxWakers' = rxWakers \ places

Open == rx # "gone"

------------------------------------------------------------------------------
(* The sender.                                                               *)

MutPollReady ==
    /\ \/ tx = "idle" /\ (conn => wire # 0)
       \/ tx = "asleep" /\ "tx" \in woken
    /\ tx' = "loading"
    /\ woken' = woken \ {"tx"}
    /\ UNCHANGED <<conn, wire, idle, channel, reader, txWakers, history>>

\* Sender::poll_ready asks for the want signal: Receiver::load registers the
\* waker before it reads the value.  A connection asks only while there is more
\* of the body to read (can_read_body).
PollReady ==
    /\ \/ tx = "idle" /\ (conn => wire # 0)
       \/ tx = "asleep" /\ "tx" \in woken
    /\ tx' = "loading"
    /\ txWakers' = txWakers \cup {"want"}
    /\ woken' = woken \ {"tx"}
    /\ UNCHANGED <<conn, wire, idle, channel, reader, history>>

\* The value is read: not asked for yet, asked for, or the Body is gone.
LoadWant ==
    /\ tx = "loading"
    /\ tx' = CASE want = "PENDING" -> "asleep"
               [] want = "READY" -> "wanted"
               [] want = "CLOSED" -> "refused"
    /\ UNCHANGED <<conn, wire, idle, channel, reader, txWakers, woken, history>>

\* Then data_tx.poll_ready: the channel must have room for one more chunk.
PollCapacity ==
    /\ tx = "wanted"
    /\ \/ Open /\ ~parked /\ tx' = "ready" /\ UNCHANGED txWakers
       \/ Open /\ parked /\ tx' = "asleep" /\ txWakers' = txWakers \cup {"slot"}
       \/ ~Open /\ tx' = "refused" /\ UNCHANGED txWakers
    /\ UNCHANGED <<conn, wire, idle, channel, reader, woken, history>>

\* mpsc::Sender::try_send of one item: the channel holds one per sender.
TrySend(item) ==
    /\ queue' = Append(queue, item)
    /\ parked' = TRUE
    /\ WakeRx({"data"})
    /\ UNCHANGED <<want, trailers>>

\* try_send_data: a user's, after poll_ready (send_data) or without it, or the
\* connection's, of a chunk its decoder read.
SendData ==
    /\ tx = "ready" \/ (~conn /\ tx = "idle")
    /\ Open /\ ~parked
    /\ Len(sent) < MaxChunks
    /\ \E n \in Sizes :
          /\ Known(wire) => n <= wire
          /\ TrySend(n)
          /\ wire' = SubIf(wire, n)
          /\ sent' = Append(sent, n)
    /\ tx' = "idle"
    /\ UNCHANGED <<conn, len, delay, idle, rx, txWakers, fate, got, outcome>>

\* The chunk is given back: the receiver is gone, or the channel is full.  The
\* connection then has no use for the Sender and drops it.
SendRefused ==
    /\ \/ tx = "ready" /\ ~Open
       \/ ~conn /\ tx = "idle" /\ (parked \/ ~Open)
    /\ tx' = IF conn THEN "refused" ELSE "idle"
    /\ UNCHANGED <<conn, wire, idle, channel, reader, txWakers, woken, history>>

\* A user gives up a send_data, or a poll_ready, that is pending.
SendCanceled ==
    /\ ~conn /\ tx = "asleep"
    /\ tx' = "idle"
    /\ UNCHANGED <<conn, wire, idle, channel, reader, txWakers, woken, history>>

\* poll_read_body has nothing yet: the connection will poll again.
ReadPending ==
    /\ conn /\ tx = "ready"
    /\ tx' = "idle"
    /\ UNCHANGED <<conn, wire, idle, channel, reader, txWakers, woken, history>>

\* poll_read_body fails: send_error hands the error to the reader, unless the
\* channel is full or closed, and the Sender is dropped with the error.
SendError ==
    /\ conn /\ tx = "ready" /\ wire # 0
    /\ IF Open /\ ~parked THEN TrySend(0)
       ELSE WakeRx({"data", "trailers"}) /\ UNCHANGED channel
    /\ tx' = "gone" /\ fate' = "error"
    /\ UNCHANGED <<conn, wire, idle, len, delay, rx, txWakers, sent, got, outcome>>

MutAbort ==
    /\ ~conn /\ tx = "idle"
    /\ IF Open /\ ~parked THEN TrySend(0)
       ELSE WakeRx({"data", "trailers"}) /\ UNCHANGED channel
    /\ tx' = "gone" /\ fate' = "error"
    /\ UNCHANGED <<conn, wire, idle, len, delay, rx, txWakers, sent, got, outcome>>

\* Sender::abort sends through a clone, which has a slot of its own.
Abort ==
    /\ ~conn /\ tx = "idle"
    /\ IF Open THEN TrySend(0)
       ELSE WakeRx({"data", "trailers"}) /\ UNCHANGED channel
    /\ tx' = "gone" /\ fate' = "error"
    /\ UNCHANGED <<conn, wire, idle, len, delay, rx, txWakers, sent, got, outcome>>

SendTrailers ==
    /\ ~conn /\ tx = "idle" /\ trailers = "none" /\ Open
    /\ trailers' = "sent"
    /\ WakeRx({"trailers"})
    /\ UNCHANGED <<conn, wire, idle, want, queue, parked, len, delay, tx, rx, txWakers, history>>

\* A user drops the Sender, which ends the body; a connection drops it after the
\* last chunk: a decoder with a length has no more to read, and a chunked one reads
\* the end.
Finished ==
    \/ ~conn /\ tx \in {"idle", "refused"}
    \/ conn /\ tx = "idle" /\ wire = 0
    \/ conn /\ tx = "ready" /\ wire = CHUNKED

\* A connection drops the Sender in the middle of the body: it was refused, or,
\* between two polls, the Connection was dropped or its dispatcher failed, and
\* poll_catch gives the error to the dispatcher only.
CutOff == conn /\ wire # 0 /\ tx \in {"idle", "asleep", "refused"}

MutDropSender ==
    /\ \/ Finished /\ fate' = "clean"
       \/ CutOff /\ fate' = "cut"
    /\ tx' = "gone"
    /\ WakeRx({"trailers"})
    /\ UNCHANGED <<conn, wire, idle, channel, len, delay, rx, txWakers, sent, got, outcome>>

\* The Sender is dropped and both channels close.
DropSender ==
    /\ \/ Finished /\ fate' = "clean"
       \/ CutOff /\ fate' = "cut"
    /\ tx' = "gone"
    /\ WakeRx({"data", "trailers"})
    /\ UNCHANGED <<conn, wire, idle, channel, len, delay, rx, txWakers, sent, got, outcome>>

------------------------------------------------------------------------------
(* The reader.                                                               *)

RxRuns == rx = "idle" \/ (rx \in {"asleep", "delayed"} /\ "rx" \in woken)

\* poll_data of a body whose end has not been seen: want_tx.send(WANT_READY)
\* swaps the value and wakes the sender if it was another one.
PollData ==
    /\ RxRuns /\ outcome = "none" /\ delay # "Eof"
    /\ want' = "READY"
    /\ rx' = IF want = "READY" THEN "polling" ELSE "waking"
    /\ woken' = woken \ {"rx"}
    /\ UNCHANGED <<conn, wire, idle, queue, parked, trailers, len, delay,
                   tx, txWakers, rxWakers, history>>

WakeWanted ==
    /\ rx \in {"waking", "closed"}
    /\ WakeTx({"want"})
    /\ rx' = IF rx = "waking" THEN "polling" ELSE "closing"
    /\ UNCHANGED <<conn, wire, idle, channel, len, delay, tx, rxWakers, history>>

MutPopChunk ==
    /\ rx = "polling" /\ queue # <<>>
    /\ queue' = Tail(queue) /\ parked' = FALSE
    /\ WakeTx({"slot"})
    /\ IF Head(queue) = 0
       THEN outcome' = "error" /\ delay' = "none" /\ UNCHANGED got
       ELSE got' = Append(got, Head(queue)) /\ UNCHANGED <<delay, outcome>>
    /\ rx' = "idle"
    /\ UNCHANGED <<conn, wire, idle, want, trailers, len, tx, rxWakers, sent, fate>>

\* data_rx.poll_next has an item: its sender gets its slot back.
PopChunk ==
    /\ rx = "polling" /\ queue # <<>>
    /\ queue' = Tail(queue) /\ parked' = FALSE
    /\ WakeTx({"slot"})
    /\ IF Head(queue) = 0
       THEN outcome' = "error" /\ delay' = "none" /\ UNCHANGED <<len, got>>
       ELSE /\ len' = SubIf(len, Head(queue))
            /\ got' = Append(got, Head(queue))
            /\ UNCHANGED <<delay, outcome>>
    /\ rx' = "idle"
    /\ UNCHANGED <<conn, wire, idle, want, trailers, tx, rxWakers, sent, fate>>

PopPending ==
    /\ rx = "polling" /\ queue = <<>> /\ tx # "gone"
    /\ rx' = "asleep" /\ rxWakers' = rxWakers \cup {"data"}
    /\ UNCHANGED <<conn, wire, idle, channel, len, delay, tx, txWakers, woken, history>>

\* The channel is closed and empty: the end, unless it is to be delayed until
\* the connection is back in the pool.
PopEnd ==
    /\ rx = "polling" /\ queue = <<>> /\ tx = "gone"
    /\ IF delay = "NotEof" /\ ~idle
       THEN /\ delay' = "Eof" /\ rx' = "delayed"
            /\ rxWakers' = rxWakers \cup {"delay"}
            /\ UNCHANGED outcome
       ELSE outcome' = "end" /\ delay' = "none" /\ rx' = "idle" /\ UNCHANGED rxWakers
    /\ UNCHANGED <<conn, wire, idle, channel, len, tx, txWakers, woken, sent, fate, got>>

\* poll_data of a body whose end is delayed polls the delay only.
PollEof ==
    /\ RxRuns /\ outcome = "none" /\ delay = "Eof"
    /\ IF idle
       THEN outcome' = "end" /\ delay' = "none" /\ rx' = "idle" /\ UNCHANGED rxWakers
       ELSE /\ rx' = "delayed" /\ rxWakers' = rxWakers \cup {"delay"}
            /\ UNCHANGED <<outcome, delay>>
    /\ woken' = woken \ {"rx"}
    /\ UNCHANGED <<conn, wire, idle, channel, len, tx, txWakers, sent, fate, got>>

PollTrailers ==
    /\ RxRuns /\ outcome = "end" /\ trailers # "taken"
    /\ IF trailers = "sent" \/ tx = "gone"
       THEN trailers' = "taken" /\ rx' = "idle" /\ UNCHANGED rxWakers
       ELSE rx' = "asleep" /\ rxWakers' = rxWakers \cup {"trailers"} /\ UNCHANGED trailers
    /\ woken' = woken \ {"rx"}
    /\ UNCHANGED <<conn, wire, idle, want, queue, parked, len, delay, tx, txWakers, history>>

\* The Body is dropped, at any time its task does not poll it: first the want
\* signal is closed, then the channel.
DropBody ==
    /\ rx \in {"idle", "asleep", "delayed"}
    /\ want' = "CLOSED"
    /\ rx' = IF want = "CLOSED" THEN "closing" ELSE "closed"
    /\ delay' = "none"
    /\ UNCHANGED <<conn, wire, idle, queue, parked, trailers, len,
                   tx, txWakers, rxWakers, woken, history>>

CloseChannel ==
    /\ rx = "closing"
    /\ rx' = "gone"
    /\ queue' = <<>> /\ parked' = FALSE
    /\ WakeTx({"slot"})
    /\ UNCHANGED <<conn, wire, idle, want, trailers, len, delay, tx, rxWakers, history>>

\* The client's background task found the connection idle, or gone, and drops its
\* end of the delay (client.rs).
BackInPool ==
    /\ ~idle /\ delay # "none"
    /\ idle' = TRUE
    /\ WakeRx({"delay"})
    /\ UNCHANGED <<conn, wire, channel, len, delay, rx, tx, txWakers, history>>

------------------------------------------------------------------------------
SenderSteps == PollReady \/ LoadWant \/ PollCapacity

ReaderSteps ==
    \/ PollData \/ WakeWanted \/ PopChunk \/ PopPending \/ PopEnd
    \/ PollEof \/ PollTrailers \/ CloseChannel

Next ==
    \/ SenderSteps \/ ReaderSteps
    \/ SendData \/ SendRefused \/ SendCanceled \/ ReadPending \/ SendError \/ Abort
    \/ SendTrailers \/ DropSender \/ DropBody \/ BackInPool

Spec == Init /\ [][Next]_vars

\* Both tasks are run when they are woken, the reader reads on until it drops the
\* body, and the connection goes back to the pool.
FairSpec == Spec /\ WF_vars(SenderSteps) /\ WF_vars(ReaderSteps) /\ WF_vars(BackInPool)

------------------------------------------------------------------------------
(* Properties.                                                               *)

\* The channel never holds more than the sender's chunk and an abort's error, and
\* its state is one the code has.
TypeOK ==
    /\ conn \in BOOLEAN /\ idle \in BOOLEAN /\ parked \in BOOLEAN
    /\ len \in 0 .. U64Max /\ wire \in 0 .. U64Max
    /\ delay \in Delays
    /\ want \in {"PENDING", "READY", "CLOSED"}
    /\ queue \in Seq(Sizes \cup {0}) /\ Len(queue) <= 2
    /\ trailers \in {"none", "sent", "taken"}
    /\ tx \in {"idle", "loading", "wanted", "asleep", "ready", "refused", "gone"}
    /\ rx \in {"idle", "waking", "polling", "asleep", "delayed", "closed", "closing", "gone"}
    /\ txWakers \subseteq {"want", "slot"}
    /\ rxWakers \subseteq {"data", "trailers", "delay"}
    /\ woken \subseteq {"tx", "rx"}
    /\ sent \in Seq(Sizes) /\ got \in Seq(Sizes)
    /\ fate \in {"open", "clean", "cut", "error"}
    /\ outcome \in {"none", "end", "error"}

Stream == INSTANCE BodyStream WITH sent <- sent, fate <- fate, got <- got, outcome <- outcome

\* The channel implements BodyStream: chunks arrive in order and once each, and an
\* error that the sender reports (send_error, abort) is never taken for an end, and
\* an end never for an error.  The end of a Sender that a failed or dropped
\* connection cut off is told as an end: BodyStream says so.
Implements == Stream!Spec

\* The bytes in the channel, which holds two items at most (TypeOK).
Queued ==
    (IF Len(queue) >= 1 THEN queue[1] ELSE 0) + (IF Len(queue) >= 2 THEN queue[2] ELSE 0)

\* A reader that is told a length is told how much is left: what is in the channel
\* and what the decoder still expects add up to size_hint, so that sub_if never
\* wraps, and a body that is_end_stream has no chunk to come.
LengthTrue ==
    conn /\ Open =>
        /\ SizeHint # NONE => SizeHint = wire + Queued
        /\ IsEndStream => wire = 0 /\ Queued = 0

\* A connection that was told to wait (Expect: 100-continue) reads no byte of the
\* body before the body was polled.
WantedFirst == [][tx' = "ready" => want # "PENDING"]_vars

\* The end of a response's body is seen only after its connection is idle again
\* (delayed_eof), so that the next request can find it in the pool.
EndAfterIdle == [][outcome' = "end" /\ delay # "none" => idle]_vars

\* A sender that sleeps is woken while a reader reads on, and when it has gone:
\* the want signal and the channel's slot each leave a waker behind.
SenderWoken == tx = "asleep" ~> tx # "asleep"

\* A chunk that was sent reaches a reader that reads on.
ChunksArrive == \A i \in 1 .. MaxChunks : Len(sent) = i ~> Len(got) >= i \/ ~Open

\* A reader that reads on learns how the body ended.
OutcomeArrives == tx = "gone" ~> outcome # "none" \/ ~Open

\* A reader that reads on is given every chunk that was sent, and when the sender
\* is gone it learns how the body ended: no wake-up of the reader is lost.
BodyArrives == ChunksArrive /\ OutcomeArrives
=============================================================================
