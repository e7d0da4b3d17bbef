------------------------------ MODULE H1Proofs ------------------------------
(***************************************************************************)
(* Proofs about H1Dispatcher, for a server and for a client, whatever the  *)
(* peer sends and the program around the connection does.                  *)
(***************************************************************************)
EXTENDS H1Dispatcher, TLAPS

Fields == DOMAIN NewConn

\* k has the fields of a connection, and its two halves and its keep-alive
\* state are values of their enums.
ConnOK(k) ==
    /\ DOMAIN k = Fields
    /\ k = [f \in Fields |-> k[f]]
    /\ k.reading \in {"Init", "Continue", "Body", "KeepAlive", "Closed"}
    /\ k.writing \in {"Init", "Body", "KeepAlive", "Closed"}
    /\ k.ka \in {"Idle", "Busy", "Disabled"}

Same(k, r) ==
    r.reading = k.reading /\ r.writing = k.writing /\ r.ka = k.ka /\ r.cached = k.cached

\* What Conn::try_keep_alive may do to the two halves: nothing, begin the next
\* message, or close.
KeptAlive(k, r) ==
    /\ r.cached = k.cached
    /\ \/ Same(k, r)
       \/ /\ k.reading = "KeepAlive" /\ k.writing = "KeepAlive" /\ k.ka = "Busy"
          /\ r.reading = "Init" /\ r.writing = "Init" /\ r.ka = "Idle"
       \/ /\ r.reading = "Closed" /\ r.ka = "Disabled"
          /\ r.writing \in {k.writing, "Closed", IF k.writing = "KeepAlive" THEN "Init" ELSE "Closed"}

-----------------------------------------------------------------------------
(* What the methods of the connection do to its two halves.                *)

\* The fields of the record that holds a connection.
LEMMA FieldsFact ==
    Fields = {"reading", "writing", "ka", "error", "notify", "upgrade", "cached", "v10",
              "dec", "last", "kind", "buf", "blocked", "armed", "out", "mixed", "inbox", "peer"}
BY DEF Fields, NewConn

\* Closing a half leaves the other half alone and disables keep-alive.
LEMMA CloseFacts ==
    ASSUME NEW k, ConnOK(k)
    PROVE  /\ ConnOK(CloseRead(k)) /\ CloseRead(k).reading = "Closed"
           /\ CloseRead(k).writing = k.writing /\ CloseRead(k).ka = "Disabled"
           /\ ConnOK(CloseBoth(k)) /\ CloseBoth(k).reading = "Closed"
           /\ CloseBoth(k).writing = "Closed" /\ CloseBoth(k).ka = "Disabled"
           /\ CloseRead(k).cached = k.cached /\ CloseBoth(k).cached = k.cached
BY FieldsFact DEF ConnOK, CloseRead, CloseWrite, CloseBoth, Disable

\* Reading bytes into the buffer touches neither half.
LEMMA IoReadFacts ==
    ASSUME NEW k, ConnOK(k)
    PROVE  ConnOK(IoRead(k)) /\ Same(k, IoRead(k))
BY FieldsFact DEF ConnOK, IoRead, Same

\* Setting one of the other fields touches neither half.
LEMMA FlagFacts ==
    ASSUME NEW k, ConnOK(k), NEW v
    PROVE  /\ ConnOK([k EXCEPT !.notify = v]) /\ Same(k, [k EXCEPT !.notify = v])
           /\ ConnOK([k EXCEPT !.error = v]) /\ Same(k, [k EXCEPT !.error = v])
           /\ ConnOK([k EXCEPT !.dec = v]) /\ Same(k, [k EXCEPT !.dec = v])
           /\ ConnOK([k EXCEPT !.buf = v]) /\ Same(k, [k EXCEPT !.buf = v])
           /\ ConnOK([k EXCEPT !.out = v]) /\ Same(k, [k EXCEPT !.out = v])
           /\ ConnOK([k EXCEPT !.armed = v]) /\ Same(k, [k EXCEPT !.armed = v])
           /\ ConnOK([k EXCEPT !.inbox = v]) /\ Same(k, [k EXCEPT !.inbox = v])
           /\ ConnOK([k EXCEPT !.peer = v]) /\ Same(k, [k EXCEPT !.peer = v])
           /\ ConnOK([k EXCEPT !.mixed = v]) /\ Same(k, [k EXCEPT !.mixed = v])
BY FieldsFact DEF ConnOK, Same

\* maybe_notify touches neither half, except that an end of input closes reading.
LEMMA MaybeNotifyFacts ==
    ASSUME NEW k, ConnOK(k)
    PROVE  /\ ConnOK(MaybeNotify(k)) /\ MaybeNotify(k).cached = k.cached
           /\ \/ Same(k, MaybeNotify(k))
              \/ /\ MaybeNotify(k).reading = "Closed" /\ MaybeNotify(k).ka = "Disabled"
                 /\ MaybeNotify(k).writing \in {k.writing, "Closed"}
<1> DEFINE r == IoRead(k)
<1>1. ConnOK(r) /\ Same(k, r)
  BY IoReadFacts
<1>2. IoResult(k) \in {"data", "eof", "error", "pending"}
  BY DEF IoResult
<1>3. ConnOK([k EXCEPT !.notify = TRUE]) /\ Same(k, [k EXCEPT !.notify = TRUE])
  BY FlagFacts
<1>4. ConnOK([r EXCEPT !.notify = TRUE]) /\ Same(r, [r EXCEPT !.notify = TRUE])
  BY <1>1, FlagFacts
<1> DEFINE e == [CloseBoth(r) EXCEPT !.error = TRUE, !.notify = TRUE]
<1>5. ConnOK(e) /\ Same(CloseBoth(r), e)
  BY <1>1, CloseFacts, FieldsFact DEF ConnOK, Same
<1>6. /\ ConnOK(CloseRead(r)) /\ CloseRead(r).reading = "Closed"
      /\ CloseRead(r).writing = r.writing /\ CloseRead(r).ka = "Disabled"
      /\ ConnOK(CloseBoth(r)) /\ CloseBoth(r).reading = "Closed"
      /\ CloseBoth(r).writing = "Closed" /\ CloseBoth(r).ka = "Disabled"
      /\ CloseRead(r).cached = r.cached /\ CloseBoth(r).cached = r.cached
  BY <1>1, CloseFacts
<1>7. Same(k, k)
  BY DEF Same
<1>8. MaybeNotify(k) \in {k, [k EXCEPT !.notify = TRUE], [r EXCEPT !.notify = TRUE],
                         r, CloseBoth(r), CloseRead(r), e}
  BY <1>2 DEF MaybeNotify
<1> HIDE DEF r, e
<1> QED
  BY <1>1, <1>3, <1>4, <1>5, <1>6, <1>7, <1>8 DEF Same

\* State::try_keep_alive resets both halves together or closes.
LEMMA KeepAliveStateFacts ==
    ASSUME NEW k, ConnOK(k)
    PROVE  ConnOK(KeepAliveState(k)) /\ KeptAlive(k, KeepAliveState(k))
<1>1. ConnOK(Idle(k)) /\ Idle(k).reading = "Init" /\ Idle(k).writing = "Init" /\ Idle(k).ka = "Idle"
      /\ Idle(k).cached = k.cached
  BY FieldsFact DEF ConnOK, Idle
<1> QED
  BY <1>1, CloseFacts DEF KeepAliveState, KeptAlive, Same, ConnOK

\* Conn::try_keep_alive does to the halves what State::try_keep_alive does.
LEMMA TryKeepAliveFacts ==
    ASSUME NEW k, ConnOK(k)
    PROVE  ConnOK(TryKeepAlive(k)) /\ KeptAlive(k, TryKeepAlive(k))
<1> DEFINE s == KeepAliveState(k)
<1>1. ConnOK(s) /\ KeptAlive(k, s)
  BY KeepAliveStateFacts
<1> HIDE DEF s
<1>2. /\ ConnOK(MaybeNotify(s)) /\ MaybeNotify(s).cached = s.cached
      /\ \/ Same(s, MaybeNotify(s))
         \/ /\ MaybeNotify(s).reading = "Closed" /\ MaybeNotify(s).ka = "Disabled"
            /\ MaybeNotify(s).writing \in {s.writing, "Closed"}
  BY <1>1, MaybeNotifyFacts
<1>3. KeptAlive(k, MaybeNotify(s))
  BY <1>1, <1>2 DEF KeptAlive, Same
<1> QED
  BY <1>2, <1>3 DEF TryKeepAlive, s

\* What a step other than the beginning of a message may do to the halves.
Moved(k, r) ==
    /\ r.cached = k.cached
    /\ \/ Same(k, r)
       \/ CanReadBody(k) /\ r.reading # "Init" /\ r.writing = k.writing /\ r.ka = k.ka
       \/ k.writing = "Body" /\ r.writing # "Init" /\ r.reading = k.reading /\ r.ka = k.ka
       \/ /\ k.ka # "Idle" /\ r.ka = "Disabled"
          /\ r.reading = k.reading /\ r.writing = k.writing
       \/ /\ k.reading \notin {"Init", "Closed"} /\ k.writing = "KeepAlive" /\ k.ka = "Busy"
          /\ r.reading = "Init" /\ r.writing = "Init" /\ r.ka = "Idle"
       \/ /\ r.reading = "Closed" /\ r.ka = "Disabled"
          /\ r.writing \in {k.writing, "Closed"} \/ k.writing \in {"Body", "KeepAlive"}

\* A finished flush never reopens a half.
LEMMA FlushedFacts ==
    ASSUME NEW k, ConnOK(k)
    PROVE  ConnOK(Flushed(k)) /\ Moved(k, Flushed(k))
<1> DEFINE e == [k EXCEPT !.out = "empty", !.mixed = FALSE]
<1>1. ConnOK(e) /\ Same(k, e)
  BY FieldsFact DEF ConnOK, Same
<1> HIDE DEF e
<1>2. ConnOK(TryKeepAlive(e)) /\ KeptAlive(e, TryKeepAlive(e))
  BY <1>1, TryKeepAliveFacts
<1>3. Moved(k, TryKeepAlive(e))
  BY <1>1, <1>2 DEF KeptAlive, Moved, Same
<1> QED
  BY <1>2, <1>3 DEF Flushed, e

\* The 100 Continue turns Reading::Continue into Reading::Body and no more.
LEMMA ContinueFacts ==
    ASSUME NEW k, ConnOK(k)
    PROVE  /\ ConnOK(Continue(k)) /\ Continue(k).reading = "Body"
           /\ Continue(k).writing = k.writing /\ Continue(k).ka = k.ka
           /\ Continue(k).cached = k.cached
BY FieldsFact DEF ConnOK, Continue, AppendHeaders

\* Reading a chunk of the body never moves reading backwards.
LEMMA ReadBodyFacts ==
    ASSUME NEW k, ConnOK(k), CanReadBody(k)
    PROVE  ConnOK(ReadBody(Continue(k))) /\ Moved(k, ReadBody(Continue(k)))
<1> DEFINE b == Continue(k)
           i == Decoding(b)
           r == [i EXCEPT !.buf = IF @ = <<>> THEN @ ELSE Tail(@)]
           e == [r EXCEPT !.dec = "framed"]
           z == [e EXCEPT !.reading = "KeepAlive"]
           x == [e EXCEPT !.reading = "Closed"]
<1>1. /\ ConnOK(b) /\ b.reading = "Body" /\ b.writing = k.writing /\ b.ka = k.ka
      /\ b.cached = k.cached
  BY ContinueFacts
<1> HIDE DEF b
<1>2. ConnOK(i) /\ Same(b, i)
  BY <1>1, IoReadFacts DEF Decoding, Same
<1> HIDE DEF i
<1>3. ConnOK(r) /\ Same(i, r)
  BY <1>2, FlagFacts
<1> HIDE DEF r
<1>4. ConnOK(e) /\ Same(r, e)
  BY <1>3, FlagFacts
<1> HIDE DEF e
<1>5. /\ ConnOK(z) /\ z.reading = "KeepAlive" /\ z.writing = k.writing /\ z.ka = k.ka
      /\ ConnOK(x) /\ x.reading = "Closed" /\ x.writing = k.writing /\ x.ka = k.ka
      /\ z.cached = k.cached /\ x.cached = k.cached
  BY <1>1, <1>2, <1>3, <1>4, FieldsFact DEF ConnOK, Same
<1>6. ReadBody(b) \in {i, r, TryKeepAlive(z), TryKeepAlive(x)}
  BY DEF ReadBody, i, r, e, z, x
<1> HIDE DEF z, x
<1>7. /\ ConnOK(TryKeepAlive(z)) /\ KeptAlive(z, TryKeepAlive(z))
      /\ ConnOK(TryKeepAlive(x)) /\ KeptAlive(x, TryKeepAlive(x))
  BY <1>5, TryKeepAliveFacts
<1>8. k.reading \in {"Body", "Continue"}
  BY DEF CanReadBody
<1>9. CASE ReadBody(b) \in {i, r}
  BY <1>9, <1>1, <1>2, <1>3 DEF Moved, Same, b
<1>10. CASE ReadBody(b) = TryKeepAlive(z)
  BY <1>10, <1>5, <1>7, <1>8 DEF Moved, KeptAlive, Same, b
<1>11. CASE ReadBody(b) = TryKeepAlive(x)
  BY <1>11, <1>5, <1>7, <1>8 DEF Moved, KeptAlive, Same, b
<1> QED
  BY <1>6, <1>9, <1>10, <1>11

\* A parsed head leaves Reading::Init and never re-enables keep-alive.
LEMMA ReadHeadFacts ==
    ASSUME NEW k, ConnOK(k)
    PROVE  /\ ConnOK(ReadHead(k)) /\ ReadHead(k).cached = FALSE
           /\ k.ka = "Disabled" => ReadHead(k).ka = "Disabled"
           /\ \/ ReadHead(k).reading # "Init" /\ ReadHead(k).writing = k.writing
              \/ /\ ~IsServer
                 /\ \/ ReadHead(k).reading = "Init" /\ ReadHead(k).ka = "Idle"
                    \/ ReadHead(k).reading = "Closed"
<1> DEFINE h == ParsedHead(k)
           n == Consumed(k)
           b == Busy(n)
           a == [b EXCEPT !.ka = IF h.ka THEN @ ELSE "Disabled",
                          !.v10 = h.v10, !.upgrade = @ \/ h.upgrade,
                          !.dec = IF h.body = "eof" THEN "eof" ELSE "framed"]
           z == [a EXCEPT !.reading = "KeepAlive"]
           y == [a EXCEPT !.reading = IF h.expect THEN "Continue" ELSE "Body"]
<1>1. /\ ConnOK(n) /\ n.cached = FALSE
      /\ n.reading = k.reading /\ n.writing = k.writing /\ n.ka = k.ka
  BY FieldsFact DEF ConnOK, Consumed
<1> HIDE DEF h, n
<1>2. /\ ConnOK(b) /\ b.reading = n.reading /\ b.writing = n.writing /\ b.cached = n.cached
      /\ n.ka = "Disabled" => b.ka = "Disabled"
  BY <1>1, FieldsFact DEF ConnOK, Busy, WantsKeepAlive
<1> HIDE DEF b
<1>3. /\ ConnOK(a) /\ a.reading = b.reading /\ a.writing = b.writing /\ a.cached = b.cached
      /\ b.ka = "Disabled" => a.ka = "Disabled"
  BY <1>2, FieldsFact DEF ConnOK
<1> HIDE DEF a
<1>4. ConnOK(z) /\ z.reading = "KeepAlive" /\ z.writing = a.writing /\ z.ka = a.ka
      /\ z.cached = a.cached
  BY <1>3, FieldsFact DEF ConnOK
<1>5. ConnOK(y) /\ y.reading \in {"Continue", "Body"} /\ y.writing = a.writing /\ y.ka = a.ka
      /\ y.cached = a.cached
  BY <1>3, FieldsFact DEF ConnOK
<1>6. \/ ReadHead(k) \in {z, y}
      \/ ~IsServer /\ ReadHead(k) = TryKeepAlive(z)
  BY DEF ReadHead, h, n, b, a, z, y
<1> HIDE DEF z, y
<1>7. ConnOK(TryKeepAlive(z)) /\ KeptAlive(z, TryKeepAlive(z))
  BY <1>4, TryKeepAliveFacts
<1> QED
  BY <1>1, <1>2, <1>3, <1>4, <1>5, <1>6, <1>7 DEF KeptAlive, Same

\* Encoding a head touches neither half and never re-enables keep-alive.
LEMMA EncodeHeadFacts ==
    ASSUME NEW k, ConnOK(k), NEW m
    PROVE  /\ ConnOK(EncodeHead(k, m))
           /\ EncodeHead(k, m).reading = k.reading /\ EncodeHead(k, m).writing = k.writing
           /\ k.ka = "Disabled" => EncodeHead(k, m).ka = "Disabled"
<1> DEFINE b == IF IsServer THEN k ELSE Busy(k)
           v == IF b.v10 /\ m.v10 THEN Disable(b) ELSE b
           a == AppendHeaders(v)
<1>1. /\ ConnOK(b) /\ b.reading = k.reading /\ b.writing = k.writing
      /\ k.ka = "Disabled" => b.ka = "Disabled"
  BY FieldsFact DEF ConnOK, Busy, WantsKeepAlive
<1> HIDE DEF b
<1>2. /\ ConnOK(v) /\ v.reading = b.reading /\ v.writing = b.writing
      /\ b.ka = "Disabled" => v.ka = "Disabled"
  BY <1>1, FieldsFact DEF ConnOK, Disable
<1> HIDE DEF v
<1>3. ConnOK(a) /\ Same(v, a)
  BY <1>2, FieldsFact DEF ConnOK, AppendHeaders, Same
<1> HIDE DEF a
<1>4. EncodeHead(k, m) = [a EXCEPT !.cached = TRUE, !.kind = m.kind,
                            !.last = m.close \/ (IsServer /\ ~WantsKeepAlive(v))]
  BY DEF EncodeHead, b, v, a
<1>5. /\ ConnOK(EncodeHead(k, m)) /\ EncodeHead(k, m).reading = a.reading
      /\ EncodeHead(k, m).writing = a.writing /\ EncodeHead(k, m).ka = a.ka
  BY <1>3, <1>4, FieldsFact DEF ConnOK
<1> QED
  BY <1>1, <1>2, <1>3, <1>5 DEF Same

\* The end of a body keeps or closes the writing half.
LEMMA EndFacts ==
    ASSUME NEW k, ConnOK(k)
    PROVE  /\ ConnOK(Ended(k)) /\ Ended(k).writing \in {"KeepAlive", "Closed"}
           /\ Ended(k).reading = k.reading /\ Ended(k).ka = k.ka
           /\ ConnOK(Broken(k)) /\ Broken(k).writing = "Closed"
           /\ Broken(k).reading = k.reading /\ Broken(k).ka = k.ka
           /\ Ended(k).cached = k.cached /\ Broken(k).cached = k.cached
BY FieldsFact DEF ConnOK, Ended, Broken, Unencoded

\* A written head leaves Writing::Init and does not touch reading.
LEMMA WriteHeadFacts ==
    ASSUME NEW k, ConnOK(k), NEW m
    PROVE  /\ ConnOK(WriteHead(k, m)) /\ WriteHead(k, m).writing # "Init"
           /\ WriteHead(k, m).reading = k.reading
           /\ k.ka = "Disabled" => WriteHead(k, m).ka = "Disabled"
<1> DEFINE e == EncodeHead(k, m)
           x == [Broken(e) EXCEPT !.cached = k.cached, !.error = TRUE]
           b == [e EXCEPT !.writing = "Body"]
           q == [e EXCEPT !.out = "queued"]
<1>1. /\ ConnOK(e) /\ e.reading = k.reading
      /\ k.ka = "Disabled" => e.ka = "Disabled"
  BY EncodeHeadFacts
<1> HIDE DEF e
<1>2. ConnOK(x) /\ x.writing = "Closed" /\ x.reading = e.reading /\ x.ka = e.ka
  BY <1>1, EndFacts, FieldsFact DEF ConnOK
<1>3. ConnOK(b) /\ b.writing = "Body" /\ b.reading = e.reading /\ b.ka = e.ka
  BY <1>1, FieldsFact DEF ConnOK
<1>4. ConnOK(q) /\ Same(e, q)
  BY <1>1, FlagFacts
<1>5. WriteHead(k, m) \in {x, b, Ended(q), Ended(e)}
  BY DEF WriteHead, e, x, b, q
<1> HIDE DEF x, b, q
<1>6. /\ ConnOK(Ended(q)) /\ Ended(q).writing \in {"KeepAlive", "Closed"}
      /\ Ended(q).reading = q.reading /\ Ended(q).ka = q.ka
      /\ ConnOK(Ended(e)) /\ Ended(e).writing \in {"KeepAlive", "Closed"}
      /\ Ended(e).reading = e.reading /\ Ended(e).ka = e.ka
  BY <1>1, <1>4, EndFacts
<1> QED
  BY <1>1, <1>2, <1>3, <1>4, <1>5, <1>6 DEF Same

\* Writing the body never moves a half backwards.
LEMMA WriteBodyFacts ==
    ASSUME NEW k, ConnOK(k), CanWriteBody(k), NEW b, NEW o
    PROVE  /\ ConnOK(WriteBody(k, b, o)) /\ Moved(k, WriteBody(k, b, o))
           /\ ConnOK(WriteBodyAndEnd(k, b, o)) /\ Moved(k, WriteBodyAndEnd(k, b, o))
           /\ ConnOK(EndBody(k)) /\ Moved(k, EndBody(k))
<1> DEFINE w(x) == [k EXCEPT !.out = x]
<1>1. \A x : ConnOK(w(x)) /\ Same(k, w(x))
  BY FlagFacts
<1>2. EndBody(k) \in {Broken(k), Ended(w("full")), Ended(w("queued")), Ended(w(k.out))}
  BY DEF EndBody
<1>3. WriteBody(k, b, o) \in {w(o), Ended(w(o))}
  BY DEF WriteBody
<1>4. WriteBodyAndEnd(k, b, o) \in {Broken(w(o)), Ended(w(o))}
  BY DEF WriteBodyAndEnd
<1> HIDE DEF w
<1>5. \A x : /\ ConnOK(Ended(w(x))) /\ Moved(k, Ended(w(x)))
             /\ ConnOK(Broken(w(x))) /\ Moved(k, Broken(w(x)))
  BY <1>1, EndFacts DEF Moved, Same, CanWriteBody
<1>6. ConnOK(Broken(k)) /\ Moved(k, Broken(k))
  BY EndFacts DEF Moved, CanWriteBody
<1>7. \A x : Moved(k, w(x))
  BY <1>1 DEF Moved, Same
<1> QED
  BY <1>1, <1>2, <1>3, <1>4, <1>5, <1>6, <1>7

\* The automatic error response leaves Writing::Init and does not touch reading.
LEMMA RespondFacts ==
    ASSUME NEW k, ConnOK(k)
    PROVE  /\ ConnOK(RespondToError(k)) /\ RespondToError(k).writing # "Init"
           /\ RespondToError(k).reading = k.reading
           /\ k.ka = "Disabled" => RespondToError(k).ka = "Disabled"
<1> DEFINE f == [k EXCEPT !.cached = FALSE]
           e == EncodeHead(f, [shape |-> "empty", kind |-> "length", close |-> FALSE, v10 |-> FALSE])
<1>1. ConnOK(f) /\ f.reading = k.reading /\ f.ka = k.ka
  BY FieldsFact DEF ConnOK
<1> HIDE DEF f
<1>2. /\ ConnOK(e) /\ e.reading = f.reading
      /\ f.ka = "Disabled" => e.ka = "Disabled"
  BY <1>1, EncodeHeadFacts
<1> HIDE DEF e
<1>3. ConnOK(Ended(e)) /\ Ended(e).writing # "Init" /\ Ended(e).reading = e.reading /\ Ended(e).ka = e.ka
  BY <1>2, EndFacts
<1>4. ConnOK([Ended(e) EXCEPT !.error = TRUE]) /\ Same(Ended(e), [Ended(e) EXCEPT !.error = TRUE])
  BY <1>3, FlagFacts
<1> QED
  BY <1>1, <1>2, <1>3, <1>4 DEF Same, RespondToError, f, e

-----------------------------------------------------------------------------
(* The inductive invariant.                                                *)

\* While a response is due the server reads no head and has encoded none of
\* the response, so that it has the headers of the request cached; and a
\* connection that waits for a head is idle, unless it has not read any.
ServerInv ==
    /\ d.inflight => c.reading # "Init" /\ c.writing \in {"Init", "Closed"} /\ ~c.cached
    /\ c.reading = "Init" => c.writing \in {"Init", "Closed"}
    /\ c.reading = "Init" /\ c.ka # "Idle" => taken = 0

\* A client that may write a request is idle, unless it has not written any, and
\* has read the head of the last response, which uses the cached headers.
ClientInv ==
    /\ c.writing = "Init" /\ c.reading # "Closed" /\ c.ka # "Idle" => taken = 0
    /\ c.writing = "Init" => c.reading \in {"Init", "Closed"}
    /\ c.cached => c.reading = "Closed" \/ (c.reading = "Init" /\ c.writing # "Init")

DispOK == DOMAIN d = {"closing", "bodyTx", "bodyRx", "inflight"}

IInv ==
    /\ ConnOK(c) /\ DispOK /\ taken \in Nat
    /\ IF IsServer THEN ServerInv ELSE ClientInv

\* The action of NoMessageAfterClose.
KeepsClosing == c.ka = "Disabled" => c'.ka = "Disabled" /\ (taken' > taken => taken = 0)

\* A step that begins no message.
Quiet ==
    /\ ConnOK(c') /\ Moved(c, c')
    /\ DispOK' /\ (d'.inflight => d.inflight)
    /\ taken' = taken

\* The inductive invariant holds of a new connection.
LEMMA InitIInv == Init => IInv
BY DEF Init, IInv, ServerInv, ClientInv, ConnOK, DispOK, NewConn, Fields

\* A step that starts no message keeps the inductive invariant.
LEMMA QuietStep ==
    ASSUME IInv, Quiet
    PROVE  IInv' /\ KeepsClosing
<1>1. KeepsClosing
  BY DEF IInv, Quiet, Moved, Same, KeepsClosing
<1>2. taken' \in Nat /\ ConnOK(c)' /\ DispOK'
  BY DEF IInv, Quiet, ConnOK
<1>3. CASE IsServer
  <2>1. ServerInv'
    BY <1>3 DEF IInv, ServerInv, Quiet, Moved, Same, ConnOK, CanReadBody
  <2> QED
    BY <2>1, <1>1, <1>2, <1>3 DEF IInv
<1>4. CASE ~IsServer
  <2>1. ClientInv'
    BY <1>4 DEF IInv, ClientInv, Quiet, Moved, Same, ConnOK, CanReadBody
  <2> QED
    BY <2>1, <1>1, <1>2, <1>4 DEF IInv
<1> QED
  BY <1>3, <1>4

\* Closing and reading count as moves that start no message.
LEMMA SameMoved ==
    ASSUME NEW k, ConnOK(k)
    PROVE  /\ Moved(k, k) /\ Moved(k, CloseRead(k)) /\ Moved(k, CloseBoth(k))
           /\ Moved(k, IoRead(k)) /\ ConnOK(IoRead(k))
           /\ Moved(k, CloseRead(IoRead(k))) /\ ConnOK(CloseRead(IoRead(k)))
           /\ Moved(k, CloseBoth(IoRead(k))) /\ ConnOK(CloseBoth(IoRead(k)))
           /\ Moved(k, CloseBoth(CloseRead(k))) /\ ConnOK(CloseBoth(CloseRead(k)))
           /\ Moved(k, CloseBoth(CloseRead(IoRead(k)))) /\ ConnOK(CloseBoth(CloseRead(IoRead(k))))
BY CloseFacts, IoReadFacts DEF Moved, Same

\* Catching an error never sets in_flight.
LEMMA CatchFacts ==
    ASSUME DispOK
    PROVE  /\ DOMAIN CatchD = DOMAIN d /\ (CatchD.inflight => d.inflight)
           /\ DOMAIN Closing = DOMAIN d /\ Closing.inflight = d.inflight
BY DEF DispOK, CatchD, Closing

\* A step that leaves connection and dispatcher alone starts no message.
LEMMA UnchangedQuiet ==
    ASSUME IInv, UNCHANGED <<c, d, taken>>
    PROVE  Quiet
BY SameMoved DEF IInv, Quiet, DispOK

\* Closing the read half after a move is still such a move.
LEMMA DrainedMoved ==
    ASSUME NEW k, NEW r, ConnOK(r), Moved(k, r)
    PROVE  ConnOK(CloseRead(r)) /\ Moved(k, CloseRead(r))
BY CloseFacts DEF Moved, Same

-----------------------------------------------------------------------------
(* The steps.                                                              *)

\* The steps of poll_read, a parsed head aside, start no message.
LEMMA ReadQuiet ==
    ASSUME IInv,
           \/ ReadClosing \/ ReadHeadUnwanted \/ ReadHeadBusy \/ ReadHeadMore \/ ReadHeadEof
           \/ ReadBodyUnwanted \/ ReadBodyDrain \/ ReadBodyPolled \/ ReadBodyLost
           \/ ReadBodyDone \/ WatchPending \/ WatchFails
    PROVE  Quiet
<1> USE DEF IInv
<1>1. CASE ReadClosing \/ ReadHeadBusy \/ ReadBodyUnwanted
  BY <1>1, UnchangedQuiet DEF ReadClosing, ReadHeadBusy, ReadBodyUnwanted
<1>2. CASE ReadHeadUnwanted
  BY <1>2, SameMoved, CloseFacts, CatchFacts DEF ReadHeadUnwanted, Quiet, DispOK
<1>3. CASE ReadHeadMore
  BY <1>3, SameMoved DEF ReadHeadMore, Quiet, DispOK
<1>4. CASE ReadHeadEof
  BY <1>4, SameMoved, CatchFacts DEF ReadHeadEof, Quiet, DispOK
<1>5. ASSUME CanReadBody(c)
      PROVE  /\ ConnOK(ReadBody(Continue(c))) /\ Moved(c, ReadBody(Continue(c)))
             /\ ConnOK(CloseRead(ReadBody(Continue(c))))
             /\ Moved(c, CloseRead(ReadBody(Continue(c))))
  BY <1>5, ReadBodyFacts, DrainedMoved
<1>6. ASSUME BodySenderDropped
      PROVE  DispOK' /\ d'.inflight = d.inflight
  BY <1>6 DEF BodySenderDropped, DispOK
<1>7. CASE ReadBodyDrain
  BY <1>7, <1>5, <1>6 DEF ReadBodyDrain, Quiet
<1>8. CASE ReadBodyPolled
  <2>1. DispOK' /\ d'.inflight = d.inflight
    BY <1>8, <1>6 DEF ReadBodyPolled, DispOK
  <2> QED
    BY <2>1, <1>8, <1>5 DEF ReadBodyPolled, Quiet
<1>9. CASE ReadBodyLost
  BY <1>9, <1>5, <1>6 DEF ReadBodyLost, Quiet
<1>10. CASE ReadBodyDone
  BY <1>10, <1>6, SameMoved DEF ReadBodyDone, Quiet
<1>11. CASE WatchPending
  BY <1>11, SameMoved DEF WatchPending, Quiet, DispOK
<1>12. CASE WatchFails
  BY <1>12, SameMoved, CatchFacts DEF WatchFails, Quiet, DispOK
<1> QED
  BY <1>1, <1>2, <1>3, <1>4, <1>7, <1>8, <1>9, <1>10, <1>11, <1>12

\* The steps of poll_write, a message from the service aside, start no message.
LEMMA WriteQuiet ==
    ASSUME IInv,
           \/ WriteClosing \/ MsgPending \/ MsgFails \/ MsgNone \/ WriteFull \/ WriteIdle
           \/ WriteBodyDropped \/ WriteBodyPending \/ WriteBodyChunk
           \/ WriteBodyLast \/ WriteBodyEnd \/ WriteBodyError
    PROVE  Quiet
<1> USE DEF IInv
<1>1. CASE WriteClosing \/ MsgPending \/ WriteIdle \/ WriteBodyPending
  BY <1>1, UnchangedQuiet DEF WriteClosing, MsgPending, WriteIdle, WriteBodyPending
<1>2. CASE MsgFails
  BY <1>2, SameMoved, CatchFacts DEF MsgFails, Quiet, DispOK
<1>3. CASE MsgNone
  BY <1>3, SameMoved, CloseFacts, CatchFacts DEF MsgNone, Quiet, DispOK
<1>4. CASE WriteFull
  <2>1. CASE UNCHANGED <<c, d, taken>>
    BY <2>1, UnchangedQuiet
  <2>2. CASE d' = CatchD /\ UNCHANGED <<c, taken>>
    BY <2>2, SameMoved, CatchFacts DEF Quiet, DispOK
  <2>3. CASE c' = Flushed(c) /\ UNCHANGED <<d, taken>>
    BY <2>3, FlushedFacts DEF Quiet, DispOK
  <2> QED
    BY <1>4, <2>1, <2>2, <2>3 DEF WriteFull
<1>5. CASE WriteBodyDropped
  BY <1>5, SameMoved DEF WriteBodyDropped, Quiet, DispOK
<1>6. CASE WriteBodyChunk
  <2>1. PICK complete, o : c' = WriteBody(c, complete, o)
    BY <1>6 DEF WriteBodyChunk
  <2>2. CanWriteBody(c) /\ UNCHANGED <<d, taken>>
    BY <1>6 DEF WriteBodyChunk, WritingBody
  <2>3. ConnOK(c') /\ Moved(c, c')
    BY <2>1, <2>2, WriteBodyFacts
  <2> QED
    BY <2>2, <2>3 DEF Quiet, DispOK
<1>7. CASE WriteBodyLast
  BY <1>7, WriteBodyFacts DEF WriteBodyLast, WritingBody, Quiet, DispOK
<1>8. CASE WriteBodyEnd
  BY <1>8, WriteBodyFacts, CatchFacts DEF WriteBodyEnd, WritingBody, Quiet, DispOK
<1>9. CASE WriteBodyError
  BY <1>9, SameMoved, CatchFacts DEF WriteBodyError, Quiet, DispOK
<1> QED
  BY <1>1, <1>2, <1>3, <1>4, <1>5, <1>6, <1>7, <1>8, <1>9

\* The steps of poll_loop, poll_flush and is_done start no message.
LEMMA RoundQuiet ==
    ASSUME IInv,
           \/ PollStart \/ FlushDone \/ FlushBlocked \/ FlushUnfinished \/ FlushError
           \/ CheckDone \/ CheckPending
    PROVE  Quiet
<1> USE DEF IInv
<1>1. CASE PollStart \/ FlushBlocked \/ CheckPending
  BY <1>1, UnchangedQuiet DEF PollStart, FlushBlocked, CheckPending
<1>2. CASE FlushDone
  <2>1. ConnOK(Flushed(c)) /\ Moved(c, Flushed(c))
    BY FlushedFacts
  <2>2. /\ ConnOK([Flushed(c) EXCEPT !.notify = FALSE])
        /\ Same(Flushed(c), [Flushed(c) EXCEPT !.notify = FALSE])
    BY <2>1, FlagFacts
  <2>3. Moved(c, [Flushed(c) EXCEPT !.notify = FALSE])
    BY <2>1, <2>2 DEF Moved, Same
  <2> QED
    BY <1>2, <2>2, <2>3 DEF FlushDone, AfterRound, Quiet, DispOK
<1>3. CASE FlushUnfinished
  BY <1>3, FlagFacts, ZenonT(60) DEF FlushUnfinished, AfterRound, Quiet, DispOK, Moved, Same
<1>4. CASE FlushError
  BY <1>4, SameMoved, CatchFacts DEF FlushError, Quiet, DispOK
<1>5. CASE CheckDone
  BY <1>5, SameMoved, CatchFacts DEF CheckDone, Quiet, DispOK
<1> QED
  BY <1>1, <1>2, <1>3, <1>4, <1>5

\* What the peer does starts no message.
LEMMA PeerQuiet ==
    ASSUME IInv, Peer
    PROVE  Quiet
<1>1. ASSUME NEW r, ConnOK(r), Same(c, r), Arrives(r)
      PROVE  Quiet
  <2>1. ConnOK([r EXCEPT !.armed = FALSE]) /\ Same(r, [r EXCEPT !.armed = FALSE])
    BY <1>1, FlagFacts
  <2>2. Moved(c, [r EXCEPT !.armed = FALSE])
    BY <1>1, <2>1 DEF Moved, Same
  <2> QED
    BY <1>1, <2>1, <2>2 DEF Arrives, Quiet, IInv, DispOK
<1>2. ASSUME NEW token, Sends(token)
      PROVE  Quiet
  <2>1. /\ ConnOK([c EXCEPT !.inbox = Append(c.inbox, token)])
        /\ Same(c, [c EXCEPT !.inbox = Append(c.inbox, token)])
    BY FlagFacts DEF IInv
  <2> QED
    BY <2>1, <1>1, <1>2 DEF Sends
<1>3. CASE PeerCloses
  <2>1. PICK how : Arrives([c EXCEPT !.peer = how])
    BY <1>3 DEF PeerCloses
  <2>2. ConnOK([c EXCEPT !.peer = how]) /\ Same(c, [c EXCEPT !.peer = how])
    BY FlagFacts DEF IInv
  <2> QED
    BY <2>1, <2>2, <1>1
<1>4. CASE PeerSendsPart \/ PeerSendsHead \/ PeerSendsData \/ PeerEndsBody \/ PeerSendsBad
  <2>1. \E token : Sends(token)
    BY <1>4 DEF PeerSendsPart, PeerSendsHead, PeerSendsData, PeerEndsBody, PeerSendsBad
  <2> QED
    BY <2>1, <1>2
<1> QED
  BY <1>3, <1>4 DEF Peer

\* What the service and the application do starts no message.
LEMMA UserQuiet ==
    ASSUME IInv, User
    PROVE  Quiet
<1>1. CASE GracefulShutdown
  <2>1. /\ ConnOK(DisableKeepAlive(c)) /\ Moved(c, DisableKeepAlive(c))
        /\ DisableKeepAlive(c).writing \in {c.writing, "Closed"}
    BY CloseFacts, FieldsFact DEF IInv, DisableKeepAlive, Disable, IsIdle, Moved, ConnOK
  <2>2. ConnOK(CloseBoth(DisableKeepAlive(c))) /\ Moved(c, CloseBoth(DisableKeepAlive(c)))
    BY <2>1, CloseFacts DEF Moved
  <2> QED
    BY <1>1, <2>1, <2>2, CatchFacts DEF GracefulShutdown, Quiet, IInv, DispOK
<1>2. CASE ~GracefulShutdown
  <2>1. UNCHANGED <<c, d, taken>>
    BY <1>2 DEF User, SocketReady, ServiceDone, ServiceReady, BodyReady, ReaderWants, ReaderDrops,
                CallerSends, CallerLeavesQueue, CallerCancels, SenderDropped, Acts
  <2> QED
    BY <2>1, UnchangedQuiet
<1> QED
  BY <1>1, <1>2

\* The service is called for a request, or the response of a client begins.
LEMMA ReadHeadParsedStep ==
    ASSUME IInv, ReadHeadParsed
    PROVE  IInv' /\ KeepsClosing
<1>1. /\ c' = ReadHead(c) /\ DispOK' /\ d'.inflight = IsServer
      /\ taken' = IF IsServer THEN taken + 1 ELSE taken
  BY DEF ReadHeadParsed, IInv, DispOK
<1>2. c.reading = "Init" /\ (~IsServer => c.writing # "Init")
  BY DEF ReadHeadParsed, ReadingHead, CanReadHead
<1>3. /\ ConnOK(c') /\ (c.ka = "Disabled" => c'.ka = "Disabled") /\ c'.cached = FALSE
      /\ \/ c'.reading # "Init" /\ c'.writing = c.writing
         \/ /\ ~IsServer
            /\ (c'.reading = "Init" /\ c'.ka = "Idle") \/ c'.reading = "Closed"
  BY <1>1, ReadHeadFacts DEF IInv
<1>4. CASE IsServer
  <2>1. c.ka # "Idle" => taken = 0
    BY <1>2, <1>4 DEF IInv, ServerInv
  <2>2. ServerInv'
    BY <1>2, <1>3, <1>4 DEF IInv, ServerInv
  <2> QED
    BY <1>1, <1>3, <1>4, <2>1, <2>2 DEF IInv, KeepsClosing, ConnOK
<1>5. CASE ~IsServer
  <2>1. ClientInv'
    BY <1>1, <1>2, <1>3, <1>5 DEF IInv, ClientInv
  <2> QED
    BY <1>1, <1>3, <1>5, <2>1 DEF IInv, KeepsClosing, ConnOK
<1> QED
  BY <1>4, <1>5

\* A message written by poll_write keeps the inductive invariant.
LEMMA MsgReadyStep ==
    ASSUME IInv, MsgReady
    PROVE  IInv' /\ KeepsClosing
<1>1. PICK m \in p.plan.outgoing :
        /\ c' = WriteHead(c, m)
        /\ d' = [d EXCEPT !.inflight = ~IsServer, !.bodyRx = m.shape \in {"stream", "unsent", "invalid"}]
  BY DEF MsgReady
<1>2. DispOK' /\ d'.inflight = ~IsServer
  BY <1>1 DEF IInv, DispOK
<1>3. /\ ConnOK(c') /\ c'.writing # "Init" /\ c'.reading = c.reading
      /\ c.ka = "Disabled" => c'.ka = "Disabled"
  BY <1>1, WriteHeadFacts DEF IInv
<1>4. taken' = IF IsServer THEN taken ELSE taken + 1
  BY DEF MsgReady
<1>5. c.writing = "Init" /\ (~IsServer => c.reading # "Closed") /\ (IsServer => d.inflight)
  BY DEF MsgReady, PollingMsg, CanWriteHead, ShouldPoll
<1>6. CASE IsServer
  <2>1. ServerInv'
    BY <1>2, <1>3, <1>5, <1>6 DEF IInv, ServerInv
  <2> QED
    BY <1>2, <1>3, <1>4, <1>6, <2>1 DEF IInv, KeepsClosing, ConnOK
<1>7. CASE ~IsServer
  <2>1. ClientInv'
    BY <1>3, <1>5, <1>7 DEF IInv, ClientInv
  <2>2. c.ka = "Disabled" => taken = 0
    BY <1>5, <1>7 DEF IInv, ClientInv
  <2> QED
    BY <1>2, <1>3, <1>4, <1>7, <2>1, <2>2 DEF IInv, KeepsClosing, ConnOK
<1> QED
  BY <1>6, <1>7

\* A head that cannot be read: the server may answer by itself.
LEMMA ReadHeadFailsStep ==
    ASSUME IInv, ReadHeadFails
    PROVE  IInv' /\ KeepsClosing
<1> DEFINE r == CloseRead(IF Parsed(c) = "bad" THEN c ELSE IoRead(c))
<1>1. ConnOK(r) /\ Moved(c, r) /\ r.reading = "Closed" /\ r.ka = "Disabled"
  BY SameMoved, CloseFacts, IoReadFacts DEF IInv
<1>2. ConnOK(CloseBoth(r)) /\ Moved(c, CloseBoth(r))
  BY SameMoved DEF IInv
<1>3. taken' = taken
  BY DEF ReadHeadFails
<1>4. \/ IsServer /\ c' = RespondToError(r) /\ d' = d
      \/ c' = r /\ d' = CatchD
      \/ c' = CloseBoth(r) /\ d' = [CatchD EXCEPT !.closing = TRUE]
  BY DEF ReadHeadFails, CanRespondToError
<1>5. IsServer => ~d.inflight
  BY DEF ReadHeadFails, HeadError, ReadingHead, ReadHeadWanted
<1> HIDE DEF r
<1>6. CASE IsServer /\ c' = RespondToError(r) /\ d' = d
  <2>1. ConnOK(c') /\ c'.reading = "Closed" /\ c'.ka = "Disabled"
    BY <1>1, <1>6, RespondFacts
  <2>2. ServerInv'
    BY <2>1, <1>5, <1>6 DEF ServerInv
  <2> QED
    BY <2>1, <2>2, <1>3, <1>6 DEF IInv, KeepsClosing, ConnOK, DispOK
<1>7. CASE c' = r /\ d' = CatchD
  <2>1. Quiet
    BY <1>1, <1>3, <1>7, CatchFacts DEF Quiet, IInv, DispOK
  <2> QED
    BY <2>1, QuietStep
<1>8. CASE c' = CloseBoth(r) /\ d' = [CatchD EXCEPT !.closing = TRUE]
  <2>1. Quiet
    BY <1>2, <1>3, <1>8, CatchFacts DEF Quiet, IInv, DispOK
  <2> QED
    BY <2>1, QuietStep
<1> QED
  BY <1>4, <1>6, <1>7, <1>8

\* Every step keeps the inductive invariant, and keep-alive once disabled.
LEMMA NextStep ==
    ASSUME IInv, [Next]_vars
    PROVE  IInv' /\ (KeepsClosing \/ UNCHANGED vars)
<1>1. CASE ReadHeadParsed
  BY <1>1, ReadHeadParsedStep
<1>2. CASE MsgReady
  BY <1>2, MsgReadyStep
<1>3. CASE ReadHeadFails
  BY <1>3, ReadHeadFailsStep
<1>4. CASE UNCHANGED vars
  BY <1>4, UnchangedQuiet, QuietStep DEF vars
<1>5. CASE Next /\ ~ReadHeadParsed /\ ~MsgReady /\ ~ReadHeadFails
  <2>1. Quiet
    BY <1>5, ReadQuiet, WriteQuiet, RoundQuiet, PeerQuiet, UserQuiet
       DEF Next, Task, TaskRead, TaskWrite
  <2> QED
    BY <2>1, QuietStep
<1> QED
  BY <1>1, <1>2, <1>3, <1>4, <1>5

-----------------------------------------------------------------------------
(* A client and the bytes of earlier responses.                            *)

\* When poll_write may begin a request, poll_read has seen that nothing is left to
\* read and that the socket has nothing more, so that a flush reads nothing either
\* (maybe_notify), or the connection turned idle in a flush of poll_write.
StaleInv ==
    /\ DOMAIN t = {"pc", "rounds", "woken", "wakers", "outcome", "mark"}
    /\ t.pc = "write" /\ ~d.closing /\ c.reading = "Init" /\ c.writing = "Init" =>
          (c.buf = <<>> /\ c.blocked = TRUE) \/ t.mark = "idled"

\* A flush that finds both halves waiting and the socket read dry changes the
\* buffers of outgoing bytes only.
LEMMA FlushedDry ==
    ASSUME NEW k, ConnOK(k), k.reading = "Init", k.writing = "Init", k.blocked = TRUE
    PROVE  Flushed(k).buf = k.buf /\ Flushed(k).blocked = TRUE
<1> DEFINE e == [k EXCEPT !.out = "empty", !.mixed = FALSE]
<1>1. /\ e.reading = "Init" /\ e.writing = "Init" /\ e.blocked = TRUE
      /\ e.buf = k.buf
  BY FieldsFact DEF ConnOK
<1> HIDE DEF e
<1>2. KeepAliveState(e) = e
  BY <1>1 DEF KeepAliveState
<1>3. MaybeNotify(e) = e
  BY <1>1 DEF MaybeNotify
<1> QED
  BY <1>1, <1>2, <1>3 DEF Flushed, TryKeepAlive, e

\* The task's record keeps its fields, and only steps of poll_read and poll_write
\* leave the task in poll_write.
LEMMA TaskStep ==
    ASSUME DOMAIN t = {"pc", "rounds", "woken", "wakers", "outcome", "mark"}, Next
    PROVE  /\ DOMAIN t' = DOMAIN t
           /\ t'.pc = "write" => TaskRead \/ TaskWrite
<1> USE DEF Goto, Pending, Done, CatchT
<1>1. CASE TaskRead
  BY <1>1 DEF TaskRead, ReadClosing, ReadHeadUnwanted, ReadHeadBusy, ReadHeadParsed, ReadHeadMore,
         ReadHeadEof, ReadHeadFails, HeadError, ReadingHead, ReadBodyUnwanted, ReadBodyDrain,
         ReadBodyPolled, ReadBodyLost, ReadBodyDone, ReadingBody, WatchPending, WatchFails,
         Watching, Reading
<1>2. CASE TaskWrite
  BY <1>2 DEF TaskWrite, WriteClosing, MsgPending, MsgReady, MsgFails, MsgNone, PollingMsg,
         WriteFull, FlushPending, WriteIdle, WriteBodyDropped, WriteBodyPending, WriteBodyChunk,
         WriteBodyLast, WriteBodyEnd, WriteBodyError, WritingBody, NextIsBody, Writing
<1>3. CASE PollStart \/ FlushBlocked \/ FlushError \/ CheckDone \/ CheckPending
  BY <1>3 DEF PollStart, FlushBlocked, FlushPending, FlushError, CheckDone, CheckPending
<1>4. CASE FlushDone \/ FlushUnfinished
  <2>1. \/ t' = Goto("check")
        \/ t' = [t EXCEPT !.pc = "read", !.rounds = @ + 1, !.mark = "none"]
        \/ t' = [t EXCEPT !.pc = "parked", !.woken = TRUE]
    BY <1>4 DEF FlushDone, FlushUnfinished, AfterRound
  <2> QED
    BY <2>1
<1>5. CASE Peer
  <2>1. \E r : Arrives(r)
    BY <1>5 DEF Peer, PeerSendsPart, PeerSendsHead, PeerSendsData, PeerEndsBody, PeerSendsBad,
           PeerCloses, Sends
  <2> QED
    BY <2>1 DEF Arrives
<1>6. CASE User
  <2>1. t.pc = "parked" /\ DOMAIN t' = DOMAIN t /\ t'.pc = t.pc
    BY <1>6 DEF User, SocketReady, ServiceDone, ServiceReady, BodyReady, ReaderWants, ReaderDrops,
           CallerSends, CallerLeavesQueue, CallerCancels, SenderDropped, Acts, Wake, GracefulShutdown
  <2> QED
    BY <2>1
<1> QED
  BY <1>1, <1>2, <1>3, <1>4, <1>5, <1>6 DEF Next, Task

\* Before poll_write may begin a request poll_read has found nothing to read.
LEMMA StaleStep ==
    ASSUME ~IsServer, IInv, StaleInv, [Next]_vars
    PROVE  StaleInv'
<1> USE DEF StaleInv
<1>1. DOMAIN t' = {"pc", "rounds", "woken", "wakers", "outcome", "mark"}
  BY TaskStep DEF vars
<1>2. ASSUME t'.pc = "write", ~d'.closing, c'.reading = "Init", c'.writing = "Init"
      PROVE  (c'.buf = <<>> /\ c'.blocked = TRUE) \/ t'.mark = "idled"
  <2> USE <1>2 DEF Goto, Pending, Done, CatchT
  <2>1. CASE UNCHANGED vars
    BY <2>1 DEF vars
  <2>2. CASE TaskWrite
    <3>1. t.pc = "write"
      BY <2>2 DEF TaskWrite, WriteClosing, MsgPending, MsgReady, MsgFails, MsgNone, PollingMsg,
             WriteFull, WriteIdle, WriteBodyDropped, WriteBodyPending, WriteBodyChunk,
             WriteBodyLast, WriteBodyEnd, WriteBodyError, WritingBody, NextIsBody, Writing
    <3>2. CASE WriteClosing \/ MsgPending \/ MsgNone \/ WriteIdle \/ WriteBodyPending
      BY <3>2 DEF WriteClosing, MsgPending, MsgNone, WriteIdle, WriteBodyPending
    <3>3. CASE MsgFails \/ WriteBodyError
      BY <3>3 DEF MsgFails, WriteBodyError
    <3>4. CASE MsgReady
      <4>1. PICK m \in p.plan.outgoing : c' = WriteHead(c, m)
        BY <3>4 DEF MsgReady
      <4> QED
        BY <4>1, WriteHeadFacts DEF IInv
    <3>5. CASE WriteFull
      <4>1. /\ c' = Flushed(c) /\ d' = d
            /\ t' = [t EXCEPT !.mark = IF ~IsIdle(c) /\ IsIdle(c') THEN "idled" ELSE @]
        BY <3>5 DEF WriteFull, FlushPending
      <4>2. CASE c.reading = "Init" /\ c.writing = "Init"
        BY <3>1, <4>1, <4>2, FlushedDry DEF IInv
      <4>3. CASE ~(c.reading = "Init" /\ c.writing = "Init")
        <5>1. Moved(c, c')
          BY <4>1, FlushedFacts DEF IInv
        <5>2. c.ka = "Busy" /\ c'.ka = "Idle"
          BY <4>3, <5>1 DEF Moved, Same, CanReadBody
        <5> QED
          BY <4>1, <5>2 DEF IsIdle
      <4> QED
        BY <4>2, <4>3
    <3>6. CASE WriteBodyDropped
      BY <3>1, <3>6 DEF WriteBodyDropped, IInv, DispOK
    <3>7. CASE WriteBodyChunk \/ WriteBodyLast \/ WriteBodyEnd
      <4>1. CanWriteBody(c)
        BY <3>7 DEF WriteBodyChunk, WriteBodyLast, WriteBodyEnd, WritingBody
      <4>2. Moved(c, c')
        <5>1. CASE WriteBodyChunk
          <6>1. PICK complete, o : c' = WriteBody(c, complete, o)
            BY <5>1 DEF WriteBodyChunk
          <6> QED
            BY <6>1, <4>1, WriteBodyFacts DEF IInv
        <5>2. CASE WriteBodyLast
          <6>1. PICK short, o : c' = WriteBodyAndEnd(c, short, o)
            BY <5>2 DEF WriteBodyLast
          <6> QED
            BY <6>1, <4>1, WriteBodyFacts DEF IInv
        <5>3. CASE WriteBodyEnd
          BY <5>3, <4>1, WriteBodyFacts DEF IInv, WriteBodyEnd
        <5> QED
          BY <3>7, <5>1, <5>2, <5>3
      <4> QED
        BY <4>1, <4>2 DEF Moved, Same, CanWriteBody
    <3> QED
      BY <2>2, <3>2, <3>3, <3>4, <3>5, <3>6, <3>7 DEF TaskWrite
  <2>3. CASE TaskRead
    <3>1. t.pc = "read"
      BY <2>3 DEF TaskRead, ReadClosing, ReadHeadUnwanted, ReadHeadBusy, ReadHeadParsed, ReadHeadMore,
             ReadHeadEof, ReadHeadFails, HeadError, ReadingHead, ReadBodyUnwanted, ReadBodyDrain,
             ReadBodyPolled, ReadBodyLost, ReadBodyDone, ReadingBody, WatchPending, WatchFails,
             Watching, Reading
    <3>2. CASE \/ ReadClosing \/ ReadHeadUnwanted \/ ReadHeadBusy \/ ReadHeadParsed \/ ReadHeadEof
               \/ ReadBodyDrain \/ ReadBodyLost \/ ReadBodyDone
      BY <3>1, <3>2 DEF ReadClosing, ReadHeadUnwanted, ReadHeadBusy, ReadHeadParsed, ReadHeadEof,
             ReadBodyDrain, ReadBodyLost, ReadBodyDone
    <3>3. CASE ReadHeadFails \/ WatchFails
      <4>1. t' = t \/ t'.pc = "done"
        BY <3>3 DEF ReadHeadFails, WatchFails, CanRespondToError
      <4> QED
        BY <4>1, <3>1
    <3>4. CASE ReadHeadMore
      <4>1. c.writing # "Init" /\ c' = IoRead(c)
        BY <3>4 DEF ReadHeadMore, ReadingHead, CanReadHead
      <4> QED
        BY <4>1, IoReadFacts DEF IInv, Same
    <3>5. CASE ReadBodyUnwanted
      BY <3>5 DEF ReadBodyUnwanted, CanReadBody
    <3>6. CASE ReadBodyPolled
      <4>1. c' = ReadBody(Continue(c)) /\ Decoded(Continue(c)) = "pending"
        BY <3>1, <3>6 DEF ReadBodyPolled
      <4>2. c' = Decoding(Continue(c))
        BY <4>1 DEF ReadBody
      <4>3. ConnOK(Continue(c)) /\ Continue(c).reading = "Body"
        BY ContinueFacts DEF IInv
      <4>4. c'.reading = "Body"
        BY <4>2, <4>3, IoReadFacts DEF Decoding, Same
      <4> QED
        BY <4>4
    <3>7. CASE WatchPending
      <4>1. CASE Unread /\ c' = c
        BY <4>1 DEF Unread, IsMidMessage
      <4>2. CASE c.buf = <<>> /\ IoResult(c) = "eof" /\ c' = CloseRead(IoRead(c))
        BY <4>2, CloseFacts, IoReadFacts DEF IInv
      <4>3. CASE c.buf = <<>> /\ IoResult(c) # "eof" /\ c' = IoRead(c)
        <5>1. c.reading = "Init" /\ c.writing = "Init"
          BY <4>3, IoReadFacts DEF IInv, Same
        <5>2. ~IsMidMessage(c)
          BY <5>1 DEF IsMidMessage
        <5>3. ~Unread
          BY <4>3, <5>1 DEF Unread
        <5>4. IoResult(c) = "pending"
          BY <3>7, <4>3, <5>2, <5>3 DEF WatchPending
        <5>5. c.inbox = <<>>
          BY <5>4 DEF IoResult
        <5>6. c.peer = "open"
          BY <5>4, <5>5 DEF IoResult, IInv
        <5>7. c'.buf = <<>> \o <<>> /\ c'.blocked = TRUE
          BY <4>3, <5>5, <5>6, FieldsFact DEF IoRead, IoReady, IInv, ConnOK
        <5> QED
          BY <5>7
      <4> QED
        BY <3>7, <4>1, <4>2, <4>3 DEF WatchPending
    <3> QED
      BY <2>3, <3>2, <3>3, <3>4, <3>5, <3>6, <3>7 DEF TaskRead
  <2> QED
    BY <2>1, <2>2, <2>3, TaskStep
<1> QED
  BY <1>1, <1>2

-----------------------------------------------------------------------------

\* A server never reads the head of a request while a response is due or only
\* partly encoded, for every sequence of heads, of service answers and of
\* socket events: Conn::can_read_head is true only after State::try_keep_alive
\* has seen both halves finished.
THEOREM HalvesInStepCorrect == Spec => []HalvesInStep
<1>1. IInv => HalvesInStep
  BY DEF IInv, ServerInv, HalvesInStep
<1>2. IInv /\ [Next]_vars => IInv'
  BY NextStep
<1> QED
  BY InitIInv, <1>1, <1>2, PTL DEF Spec

\* encode_head's debug assertion holds: when a message is about to be encoded, the
\* cached headers of the last one were used up by a head that was read since.
THEOREM CachedHeadersUsedCorrect == Spec => []CachedHeadersUsed
<1>1. IInv => CachedHeadersUsed
  BY DEF IInv, ServerInv, ClientInv, CachedHeadersUsed, PollingMsg, CanWriteHead, ShouldPoll
<1>2. IInv /\ [Next]_vars => IInv'
  BY NextStep
<1> QED
  BY InitIInv, <1>1, <1>2, PTL DEF Spec

\* Once keep-alive is disabled (KA::Disabled) nothing enables it again, and no
\* message after the first is begun: a server calls its service for no further
\* request, a client writes no further request.
THEOREM NoMessageAfterCloseCorrect == Spec => NoMessageAfterClose
<1>1. IInv /\ [Next]_vars => IInv'
  BY NextStep
<1>2. IInv /\ [Next]_vars =>
        [c.ka = "Disabled" => c'.ka = "Disabled" /\ (taken' > taken => taken = 0)]_vars
  BY NextStep DEF KeepsClosing
<1> QED
  BY InitIInv, <1>1, <1>2, PTL DEF Spec, NoMessageAfterClose

\* A client begins a request only on a connection from which it has read every byte
\* of earlier responses (Conn::require_empty_read in poll_read), unless the connection
\* turned idle in the flush of poll_write in the same round; and never while the body
\* of the last request is unsent.
THEOREM NoStaleResponseCorrect == Spec => NoStaleResponse
<1>1. IInv /\ [Next]_vars => IInv'
  BY NextStep
<1>2. CASE IsServer
  <2>1. [Next]_vars => [~IsServer /\ taken' > taken => c.reading = "Init" /\ ~d.bodyRx /\ (c.buf = <<>> \/ t.mark = "idled")]_vars
    BY <1>2
  <2> QED
    BY <2>1, PTL DEF Spec, NoStaleResponse
<1>3. CASE ~IsServer
  <2>1. Init => StaleInv
    BY DEF Init, StaleInv, NewConn
  <2>2. IInv /\ StaleInv /\ [Next]_vars => StaleInv'
    BY <1>3, StaleStep
  <2>3. IInv /\ StaleInv /\ [Next]_vars =>
          [~IsServer /\ taken' > taken => c.reading = "Init" /\ ~d.bodyRx /\ (c.buf = <<>> \/ t.mark = "idled")]_vars
    <3> SUFFICES ASSUME IInv, StaleInv, Next, taken' > taken
                 PROVE  c.reading = "Init" /\ ~d.bodyRx /\ (c.buf = <<>> \/ t.mark = "idled")
      OBVIOUS
    <3>1. MsgReady
      <4>1. CASE ReadHeadParsed
        BY <4>1, <1>3 DEF ReadHeadParsed, IInv
      <4>2. CASE ReadHeadFails
        BY <4>2 DEF ReadHeadFails, IInv
      <4>3. CASE ~ReadHeadParsed /\ ~ReadHeadFails /\ ~MsgReady
        <5>1. Quiet
          BY <4>3, ReadQuiet, WriteQuiet, RoundQuiet, PeerQuiet, UserQuiet
             DEF Next, Task, TaskRead, TaskWrite
        <5> QED
          BY <5>1 DEF Quiet, IInv
      <4> QED
        BY <4>1, <4>2, <4>3
    <3>2. t.pc = "write" /\ ~d.closing /\ ~d.bodyRx /\ c.writing = "Init" /\ c.reading # "Closed"
      BY <3>1, <1>3 DEF MsgReady, PollingMsg, Writing, CanWriteHead
    <3>3. c.reading = "Init"
      BY <3>2, <1>3 DEF IInv, ClientInv
    <3> QED
      BY <3>2, <3>3 DEF StaleInv
  <2> QED
    BY <2>1, <2>2, <2>3, <1>1, InitIInv, PTL DEF Spec, NoStaleResponse
<1> QED
  BY <1>2, <1>3

=============================================================================
