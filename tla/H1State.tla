------------------------------ MODULE H1State ------------------------------
(***************************************************************************)
(* The state of an HTTP/1 connection (Conn and State in                    *)
(* src/proto/h1/conn.rs) as a record, and its methods as operators on that *)
(* record.  Every operator returns the connection after the call.          *)
(*                                                                         *)
(* Bytes are tokens.  A message is a head, perhaps preceded by a part of   *)
(* it that arrived alone, and the pieces of its body:                      *)
(*   "data"  bytes of the body                                             *)
(*   "last"  bytes that complete the body (its announced length)           *)
(*   "end"   the end of the body without further bytes (last chunk)        *)
(*   "bad"   bytes that do not parse                                       *)
(***************************************************************************)
EXTENDS Naturals, Sequences

CONSTANT IsServer   \* the role T: should_read_first() and is_server()

ASSUME RoleAssumption == IsServer \in BOOLEAN

\* Conn::new and State: both halves wait for a message.
NewConn ==
    [reading |-> "Init", writing |-> "Init", ka |-> "Busy", error |-> FALSE,
     notify |-> FALSE, upgrade |-> FALSE, cached |-> FALSE, v10 |-> FALSE,
     dec |-> "framed", last |-> FALSE, kind |-> "length",
     buf |-> <<>>, blocked |-> FALSE, armed |-> FALSE, out |-> "empty",
     mixed |-> FALSE, inbox |-> <<>>, peer |-> "open"]

IsIdle(c) == c.ka = "Idle"

WantsKeepAlive(c) == c.ka # "Disabled"

Disable(c) == [c EXCEPT !.ka = "Disabled"]

CloseRead(c) == [Disable(c) EXCEPT !.reading = "Closed"]

CloseWrite(c) == [Disable(c) EXCEPT !.writing = "Closed"]

CloseBoth(c) == CloseRead(CloseWrite(c))

MutBusy(c) == [c EXCEPT !.ka = "Busy"]

Busy(c) == IF WantsKeepAlive(c) THEN [c EXCEPT !.ka = "Busy"] ELSE c

\* State::idle: ready for the next message; a client asks to be polled again
\* for pending requests.
Idle(c) ==
    [c EXCEPT !.ka = "Idle", !.reading = "Init", !.writing = "Init",
              !.notify = @ \/ ~IsServer]

CanReadHead(c) == c.reading = "Init" /\ (IsServer \/ c.writing # "Init")

CanReadBody(c) == c.reading \in {"Body", "Continue"}

\* can_headers_buf: a body that is still queued must be flushed first.
CanWriteHead(c) ==
    /\ ~IsServer => c.reading # "Closed"
    /\ c.writing = "Init"
    /\ c.out \notin {"queued", "full"}

CanWriteBody(c) == c.writing = "Body"

CanBufferBody(c) == c.out # "full"

IsMidMessage(c) == c.reading # "Init" \/ c.writing # "Init"

\* Buffered::poll_read_from_io.  A read that is pending leaves the waker of
\* the task with the socket (armed).
IoReady(c) == c.inbox # <<>> \/ c.peer # "open"

IoResult(c) ==
    CASE c.inbox # <<>>                     -> "data"
      [] c.inbox = <<>> /\ c.peer = "open"  -> "pending"
      [] c.inbox = <<>> /\ c.peer = "eof"   -> "eof"
      [] OTHER                              -> "error"

MutIoRead(c) == [c EXCEPT !.buf = @ \o c.inbox, !.inbox = <<>>, !.blocked = ~IoReady(c)]

IoRead(c) ==
    [c EXCEPT !.buf = @ \o c.inbox, !.inbox = <<>>, !.blocked = ~IoReady(c),
              !.armed = @ \/ ~IoReady(c)]

\* Conn::maybe_notify: reading may have stopped before the I/O blocked.
MutMaybeNotify(c) == c

MaybeNotify(c) ==
    LET r == IoRead(c) IN
    IF c.reading # "Init" \/ c.writing = "Body" \/ c.blocked THEN c
    ELSE IF c.buf # <<>> THEN [c EXCEPT !.notify = TRUE]
    ELSE CASE IoResult(c) = "data"    -> [r EXCEPT !.notify = TRUE]
           [] IoResult(c) = "pending" -> r
           [] IoResult(c) = "eof"     -> IF IsIdle(r) THEN CloseBoth(r) ELSE CloseRead(r)
           [] IoResult(c) = "error"   -> [CloseBoth(r) EXCEPT !.error = TRUE, !.notify = TRUE]

\* State::try_keep_alive.
MutKeepAliveState(c) ==
    IF c.reading = "KeepAlive" /\ c.writing = "KeepAlive" THEN Idle(c)
    ELSE IF \/ c.reading = "Closed" /\ c.writing = "KeepAlive"
            \/ c.reading = "KeepAlive" /\ c.writing = "Closed" THEN CloseBoth(c)
    ELSE c

MutKeepAliveEarly(c) ==
    IF c.reading = "KeepAlive" /\ c.writing \in {"Init", "KeepAlive"} /\ c.ka = "Busy" THEN Idle(c)
    ELSE MutKeepAliveState(c)

KeepAliveState(c) ==
    IF c.reading = "KeepAlive" /\ c.writing = "KeepAlive"
    THEN IF c.ka = "Busy" THEN Idle(c) ELSE CloseBoth(c)
    ELSE IF \/ c.reading = "Closed" /\ c.writing = "KeepAlive"
            \/ c.reading = "KeepAlive" /\ c.writing = "Closed" THEN CloseBoth(c)
    ELSE c

\* Conn::try_keep_alive.
TryKeepAlive(c) == MaybeNotify(KeepAliveState(c))

\* Buffered::poll_flush has written everything, then Conn::poll_flush.
Flushed(c) == TryKeepAlive([c EXCEPT !.out = "empty", !.mixed = FALSE])

\* Conn::disable_keep_alive.
MutDisableKeepAlive(c) == IF IsIdle(c) THEN CloseBoth(c) ELSE c

DisableKeepAlive(c) == IF IsIdle(c) THEN CloseBoth(c) ELSE Disable(c)

-----------------------------------------------------------------------------
(* Incoming heads and bodies.                                              *)

\* What the parser makes of the bytes it has: parse_headers.
Parsed(c) ==
    IF c.buf = <<>> \/ (c.buf[1].t = "part" /\ Len(c.buf) = 1) THEN "partial"
    ELSE IF c.buf[1].t = "head" \/ (c.buf[1].t = "part" /\ c.buf[2].t = "head") THEN "head"
    ELSE "bad"

ParsedHead(c) == IF c.buf[1].t = "part" THEN c.buf[2] ELSE c.buf[1]

AfterHead(c) ==
    IF c.buf[1].t = "part" THEN Tail(Tail(c.buf)) ELSE Tail(c.buf)

\* The headers that were cached are used for the head parsed.
MutConsumed(c) == [c EXCEPT !.buf = AfterHead(c)]

Consumed(c) == [c EXCEPT !.buf = AfterHead(c), !.cached = FALSE]

\* Conn::poll_read_head once a head is parsed.
ReadHead(c) ==
    LET h == ParsedHead(c)
        b == Busy(Consumed(c))
        k == [b EXCEPT !.ka = IF h.ka THEN @ ELSE "Disabled",
                       !.v10 = h.v10, !.upgrade = @ \/ h.upgrade,
                       !.dec = IF h.body = "eof" THEN "eof" ELSE "framed"]
    IN  IF h.body = "none"
        THEN LET z == [k EXCEPT !.reading = "KeepAlive"]
             IN  IF IsServer THEN z ELSE TryKeepAlive(z)
        ELSE [k EXCEPT !.reading = IF h.expect THEN "Continue" ELSE "Body"]

\* WriteBuf::headers_mut, then bytes appended: they leave before the bodies
\* that are still queued.
AppendHeaders(c) ==
    [c EXCEPT !.out = IF @ = "empty" THEN "heads" ELSE @,
              !.mixed = @ \/ c.out \in {"queued", "full"}]

\* Conn::poll_read_body in Reading::Continue: the interim response is
\* written unless the final one has begun.
Continue(c) ==
    [IF c.reading = "Continue" /\ c.writing = "Init" THEN AppendHeaders(c) ELSE c
       EXCEPT !.reading = "Body"]

\* Decoder::decode reads when the buffer is empty and returns one piece.
Decoding(c) == IF c.buf = <<>> THEN IoRead(c) ELSE c

Decoded(c) ==
    IF Decoding(c).buf # <<>> THEN Decoding(c).buf[1].t
    ELSE IF IoResult(c) = "eof" /\ c.dec = "eof" THEN "end"
    ELSE IF IoResult(c) \in {"eof", "error"} THEN "bad"
    ELSE "pending"

\* Conn::poll_read_body.
ReadBody(c) ==
    LET d == Decoding(c)
        r == [d EXCEPT !.buf = IF @ = <<>> THEN @ ELSE Tail(@)]
        e == [r EXCEPT !.dec = "framed"]
    IN  CASE Decoded(c) = "pending"          -> d
          [] Decoded(c) = "data"             -> r
          [] Decoded(c) \in {"last", "end"}  -> TryKeepAlive([e EXCEPT !.reading = "KeepAlive"])
          [] OTHER                           -> TryKeepAlive([e EXCEPT !.reading = "Closed"])

-----------------------------------------------------------------------------
(* Outgoing heads and bodies.                                              *)

\* Conn::encode_head up to the encoder: a client becomes busy, a peer that
\* speaks HTTP/1.0 may end keep-alive (enforce_version, fix_keep_alive).
EncodeHead(c, m) ==
    LET b == IF IsServer THEN c ELSE Busy(c)
        v == IF b.v10 /\ m.v10 THEN Disable(b) ELSE b
    IN  [AppendHeaders(v) EXCEPT !.cached = TRUE, !.kind = m.kind,
                  !.last = m.close \/ (IsServer /\ ~WantsKeepAlive(v))]

\* The encoder is done and dropped.
Unencoded(c) == [c EXCEPT !.last = FALSE, !.kind = "length"]

Ended(c) == [Unencoded(c) EXCEPT !.writing = IF c.last THEN "Closed" ELSE "KeepAlive"]

Broken(c) == [Unencoded(c) EXCEPT !.writing = "Closed"]

\* Conn::write_head and write_full_msg with message m.
WriteHead(c, m) ==
    LET e == EncodeHead(c, m)
    IN  CASE m.shape = "invalid" ->
                 [Broken(e) EXCEPT !.cached = c.cached, !.error = TRUE]
          [] m.shape = "stream"  -> [e EXCEPT !.writing = "Body"]
          [] m.shape = "full"    -> Ended([e EXCEPT !.out = "queued"])
          [] OTHER               -> Ended(e)

\* Conn::write_body, when the chunk completes the announced length or not;
\* the queue may be full after it.
WriteBody(c, complete, o) ==
    LET w == [c EXCEPT !.out = o]
    IN  IF complete THEN Ended(w) ELSE w

\* Conn::write_body_and_end: a body shorter than announced, or delimited by
\* the close, ends the connection.
WriteBodyAndEnd(c, short, o) ==
    LET w == [c EXCEPT !.out = o]
    IN  IF short \/ c.kind = "close" THEN Broken(w) ELSE Ended(w)

\* Conn::end_body: a last chunk is queued; fewer bytes than announced is an
\* error.
EndBodyFails(c) == c.kind = "length"

EndBody(c) ==
    CASE c.kind = "chunked" -> Ended([c EXCEPT !.out = IF @ = "full" THEN @ ELSE "queued"])
      [] OTHER              -> Broken(c)

\* Conn::on_parse_error: a server that has not begun its response writes an
\* error response and keeps the error for later.
CanRespondToError(c, parse) == IsServer /\ parse /\ c.writing = "Init"

RespondToError(c) ==
    [Ended(EncodeHead([c EXCEPT !.cached = FALSE],
                      [shape |-> "empty", kind |-> "length", close |-> FALSE, v10 |-> FALSE]))
       EXCEPT !.error = TRUE]

=============================================================================
