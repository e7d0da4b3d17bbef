------------------------------ MODULE Exchange -------------------------------
(***************************************************************************)
(* One HTTP/1 message on its way from a writer to a reader: the head and   *)
(* its framing (module Framing), the body through the encoder              *)
(* (proto/h1/encode.rs) and the decoder (proto/h1/decode.rs), and what     *)
(* follows it on the connection.  A request goes from a client to a        *)
(* server, a response the other way.  The writer is hyper, or another      *)
(* implementation that uses the freedom the chunked coding leaves.         *)
(*                                                                         *)
(* The wire is a sequence of tokens: a head is one, of a chunked body each *)
(* byte is one, and byte i of the body is <<"data", i>> however it is      *)
(* framed.  A read takes any number of the bytes it may take, so every     *)
(* split of the stream is covered.                                         *)
(***************************************************************************)
EXTENDS Framing, FiniteSets

CONSTANTS
    Radix,          \* of a chunk size (16)
    Requests,       \* the requests users make: heads with a body
    Responses,      \* the responses users make: heads with a body
    Peers,          \* the requests a response may answer
    Sizes,          \* lengths of the chunks of a body
    MaxBytes        \* bound on the bytes of a body

ASSUME ExchangeAssumption ==
    /\ Radix \in Nat /\ Radix > 1 /\ MaxBytes \in Nat
    /\ Sizes \subseteq Nat \ {0}

VARIABLES
    writer,         \* "hyper" or "other"
    dir,            \* "request" or "response"
    head,           \* the head on the wire
    method,         \* of the request, which the client remembers
    writing,        \* Writing: "init", "body", "keepalive" or "closed"
    enc,            \* the Encoder in Writing::Body
    given,          \* bytes the body of the user has yielded
    open,           \* the body of the user has not ended
    put,            \* bytes of the body on the wire
    whole,          \* the writer has completed the message
    upgraded,       \* the connection is handed over after the head
    excused,        \* a user asked to close, promised a keep-alive of its own, or
                    \* answered CONNECT with 204, which only the server takes for an upgrade;
                    \* or the server's keep-alive was disabled and its response does not say so
    broken,         \* the other implementation sent a size no u64 holds
    cut,            \* the connection was lost
    wire, eof,      \* what the reader has not taken, and the end of the stream
    reading,        \* Reading: "init", "body", "keepalive" or "closed"
    dec,            \* the Decoder in Reading::Body: its kind, state and size
    got,            \* what the reader received as the body
    keeps,          \* the reader would use the connection again
    failed          \* the reader met an error

sender   == <<writer, dir, method, writing, enc, given, open, put, whole,
              upgraded, excused, broken>>
receiver == <<reading, dec, got, keeps, failed>>
vars == <<sender, head, cut, wire, eof, receiver>>

NoHead == [v |-> 0]

Tok(t) == <<t, 0>>
CRLF == <<Tok("CR"), Tok("LF")>>
Data(i, n) == [j \in 1 .. n |-> <<"data", i + j>>]

\* ChunkSize::new: the digits of a number, without leading zeros.
Numeral[n \in Nat] ==
    IF n < Radix THEN << <<"digit", n>> >>
    ELSE Append(Numeral[n \div Radix], <<"digit", n % Radix>>)

Chunk(i, n) == Numeral[n] \o CRLF \o Data(i, n) \o CRLF
LastChunk == Numeral[0] \o CRLF \o CRLF

Init ==
    /\ writer = "hyper" /\ dir = "request" /\ head = NoHead /\ method = "GET"
    /\ writing = "init" /\ enc = NoEncoder /\ given = 0 /\ open = FALSE /\ put = 0
    /\ whole = FALSE /\ upgraded = FALSE /\ excused = FALSE /\ broken = FALSE
    /\ cut = FALSE /\ wire = <<>> /\ eof = FALSE
    /\ reading = "init" /\ dec = [kind |-> "none", state |-> "Size", size |-> 0]
    /\ got = <<>> /\ keeps = FALSE /\ failed = FALSE

\* Bytes put on a connection that was lost go nowhere.
Send(toks) == wire' = IF eof THEN wire ELSE wire \o toks

(* ------------------------------ the writer ----------------------------- *)

IsEof(e) == e.kind = "length" /\ e.rem = 0
AfterBody(e) == IF e.last THEN "closed" ELSE "keepalive"

\* Encoder::danger_full_buf: all of a body that was in hand with its head.
FullBuf(e, n) ==
    CASE IsEof(e) -> <<>>
      [] e.kind = "chunked" -> Chunk(0, n) \o LastChunk
      [] OTHER -> Data(0, n)

\* Conn::write_head and write_full_msg with what the role encoded: e.ok is FALSE
\* when nothing was written, and the encoder is "none" when writing must stop.
WriteHead(e, body, full, continue) ==
    LET refused == ~e.ok \/ e.enc.kind = "none"
        done == ~refused /\ (full \/ IsEof(e.enc))
    IN  /\ head' = IF e.ok THEN e.head ELSE NoHead
        /\ enc' = IF refused THEN NoEncoder ELSE e.enc
        /\ writing' = IF refused THEN "closed"
                      ELSE IF done THEN AfterBody(e.enc) ELSE "body"
        /\ open' = (~refused /\ ~done /\ body # NoBody)
        /\ given' = IF full THEN body ELSE 0
        /\ put' = IF full /\ ~refused /\ ~IsEof(e.enc) THEN body ELSE 0
        /\ whole' = (done \/ (e.ok /\ refused))
        /\ Send((IF continue THEN <<Tok("info")>> ELSE <<>>) \o
                (IF e.ok THEN <<Tok("head")>> ELSE <<>>) \o
                (IF full /\ ~refused THEN FullBuf(e.enc, body) ELSE <<>>))

\* A body whose only chunk is in hand when the head is written.
Full(m) == IF m.body > 0 THEN BOOLEAN ELSE {FALSE}

WriteRequest(m) ==
    LET e == SetLength(m.head, m.body)
    IN  /\ dir' = "request" /\ method' = m.head.method
        /\ \E full \in Full(m) :
              WriteHead([ok |-> TRUE, head |-> e.head, enc |-> e.enc], m.body, full, FALSE)
        /\ UNCHANGED <<writer, upgraded, excused, broken, cut, eof, receiver>>

\* A response to the request r, after 100 Continue when r expects it.  The
\* connection wants keep-alive if the request does and it was not disabled, by a
\* graceful shutdown or by http1_keep_alive(false).
WriteResponse(m, r, enabled) ==
    LET wants == ServerParse(r).keepAlive /\ enabled
        f == EnforceVersion([m.head EXCEPT !.method = r.method], r.v, wants)
        e == ServerEncode(f.head, m.body, r.method, f.keepAlive)
        says(conn, tok) == \E i \in DOMAIN conn : conn[i] = tok
    IN  /\ dir' = "response" /\ method' = r.method
        /\ upgraded' = (e.ok /\ (e.head.status = 101
                                 \/ (r.method = "CONNECT" /\ Success(e.head.status))))
        /\ excused' = (\/ says(r.conn, "close")
                       \/ ~wants /\ says(m.head.conn, "keep-alive")
                       \/ ~enabled /\ r.v = 11 /\ m.head.v = 11
                       \/ r.method = "CONNECT" /\ m.head.status = 204)
        /\ \E full \in Full(m), continue \in BOOLEAN : WriteHead(e, m.body, full, continue)
        /\ UNCHANGED <<writer, broken, cut, eof, receiver>>

\* Encoder::encode of n bytes: the tokens written, how many are of the body, and
\* the encoder left.
Encode(e, i, n) ==
    LET k == IF e.kind = "length" /\ n > e.rem THEN e.rem ELSE n
    IN  [toks |-> IF e.kind = "chunked" THEN Chunk(i, n) ELSE Data(i, k),
         put  |-> k,
         enc  |-> IF e.kind = "length" THEN [e EXCEPT !.rem = @ - k] ELSE e]

\* Conn::write_body: the message is over when its length is used up.
WriteBody(n) ==
    LET e == Encode(enc, given, n)
    IN  /\ writer = "hyper" /\ writing = "body" /\ open /\ given + n <= MaxBytes
        /\ Send(e.toks)
        /\ enc' = e.enc /\ given' = given + n /\ put' = put + e.put
        /\ writing' = IF IsEof(e.enc) THEN AfterBody(enc) ELSE "body"
        /\ open' = ~IsEof(e.enc) /\ whole' = IsEof(e.enc)
        /\ UNCHANGED <<writer, dir, method, upgraded, excused, broken, head, cut, eof, receiver>>

MutEncodeAndEnd(e, i, n) ==
    LET k == IF e.kind = "length" /\ n > e.rem THEN e.rem ELSE n
    IN  [toks |-> IF e.kind = "chunked" THEN Chunk(i, n) \o LastChunk ELSE Data(i, k),
         put  |-> k,
         keep |-> ~e.last]

\* Encoder::encode_and_end: the chunk and what ends the body, TRUE when the
\* connection may be kept.
EncodeAndEnd(e, i, n) ==
    LET k == IF e.kind = "length" /\ n > e.rem THEN e.rem ELSE n
    IN  [toks |-> IF e.kind = "chunked" THEN Chunk(i, n) \o LastChunk ELSE Data(i, k),
         put  |-> k,
         keep |-> /\ ~e.last /\ e.kind # "close"
                  /\ e.kind = "length" => n >= e.rem]

\* Conn::write_body_and_end, for a chunk the body says is its last.
WriteBodyAndEnd(n) ==
    LET e == EncodeAndEnd(enc, given, n)
    IN  /\ writer = "hyper" /\ writing = "body" /\ open /\ given + n <= MaxBytes
        /\ Send(e.toks)
        /\ given' = given + n /\ put' = put + e.put /\ open' = FALSE
        /\ whole' = ~(enc.kind = "length" /\ n < enc.rem)
        /\ writing' = IF e.keep THEN "keepalive" ELSE "closed"
        /\ UNCHANGED <<writer, dir, method, enc, upgraded, excused, broken, head, cut, eof,
                       receiver>>

\* Conn::end_body with Encoder::end, when the body yields no more: a length that
\* is not used up closes the connection.
EndBody ==
    /\ writer = "hyper" /\ writing = "body" /\ open
    /\ Send(IF enc.kind = "chunked" THEN LastChunk ELSE <<>>)
    /\ whole' = (enc.kind # "length") /\ open' = FALSE
    /\ writing' = IF enc.last \/ enc.kind # "chunked" THEN "closed" ELSE "keepalive"
    /\ UNCHANGED <<writer, dir, method, enc, given, put, upgraded, excused, broken, head, cut,
                   eof, receiver>>

\* The next message on a connection that is kept, or what an upgrade brings.
WriteNext ==
    /\ writing = "keepalive" \/ (writing = "closed" /\ upgraded)
    /\ whole /\ Tok("next") \notin {wire[i] : i \in DOMAIN wire} /\ ~eof
    /\ wire' = Append(wire, Tok("next"))
    /\ UNCHANGED <<sender, head, cut, eof, receiver>>

\* A connection whose writing is closed is shut down.
Shutdown ==
    /\ writing = "closed" /\ ~upgraded /\ ~eof
    /\ eof' = TRUE
    /\ UNCHANGED <<sender, head, cut, wire, receiver>>

\* The connection is lost with any part of what is in flight.
CutOff ==
    /\ ~eof
    /\ \E n \in 0 .. Len(wire) : wire' = SubSeq(wire, 1, n)
    /\ cut' = TRUE /\ eof' = TRUE
    /\ UNCHANGED <<sender, head, receiver>>

(* --------------------- another implementation -------------------------- *)

OtherHead == [v |-> 11, method |-> "POST", status |-> 200, te |-> << <<"chunked">> >>,
              cl |-> <<>>, conn |-> <<>>, teFirst |-> TRUE]

WriteOther ==
    /\ writing = "init"
    /\ writer' = "other" /\ writing' = "body" /\ open' = TRUE /\ head' = OtherHead
    /\ dir' \in {"request", "response"} /\ method' = "POST"
    /\ Send(<<Tok("head")>>)
    /\ UNCHANGED <<enc, given, put, whole, upgraded, excused, broken, cut, eof, receiver>>

\* A size line as the coding allows it.
SizeLines(n) ==
    {Numeral[0] \o Numeral[n] \o CRLF,
     Numeral[n] \o <<Tok("WS")>> \o CRLF,
     Numeral[n] \o <<Tok(";"), Tok("other")>> \o CRLF,
     Numeral[n] \o <<Tok("WS"), Tok(";"), Tok("other")>> \o CRLF}

OtherChunk(n) ==
    /\ writer = "other" /\ writing = "body" /\ given + n <= MaxBytes
    /\ \E size \in SizeLines(n) : Send(size \o Data(given, n) \o CRLF)
    /\ given' = given + n /\ put' = put + n
    /\ UNCHANGED <<writer, dir, method, writing, enc, open, whole, upgraded, excused, broken,
                   head, cut, eof, receiver>>

\* A size that needs more than a u64 announces more than ever comes.
OtherOversize(n) ==
    /\ writer = "other" /\ writing = "body" /\ given = 0
    /\ Send(Numeral[U64Max + 1 + n] \o CRLF \o Data(given, n) \o CRLF)
    /\ given' = n /\ put' = n /\ broken' = TRUE
    /\ UNCHANGED <<writer, dir, method, writing, enc, open, whole, upgraded, excused,
                   head, cut, eof, receiver>>

\* The last chunk, and any trailer.
OtherEnd ==
    /\ writer = "other" /\ writing = "body"
    /\ \E size \in SizeLines(0), trailer \in {<<>>, <<Tok("other")>> \o CRLF} :
          Send(size \o trailer \o CRLF)
    /\ writing' = "keepalive" /\ open' = FALSE /\ whole' = ~broken
    /\ UNCHANGED <<writer, dir, method, enc, given, put, upgraded, excused, broken, head, cut,
                   eof, receiver>>

(* ------------------------------ the reader ----------------------------- *)

\* Decoder::new.
NewDecoder(len) ==
    [kind  |-> CASE len = CHUNKED -> "chunked" [] len = CLOSE_DELIMITED -> "eof"
                 [] OTHER -> "length",
     state |-> "Size",
     size  |-> IF len \in {CHUNKED, CLOSE_DELIMITED} THEN 0 ELSE len]

\* Client::parse goes on after an informational head.
SkipInformational ==
    /\ reading = "init" /\ wire # <<>> /\ Head(wire) = Tok("info")
    /\ wire' = Tail(wire)
    /\ UNCHANGED <<sender, head, cut, eof, receiver>>

\* Conn::poll_read_head: an empty body is over with its head.  The head has done
\* its work, and is forgotten.
ReadHead ==
    /\ reading = "init" /\ wire # <<>> /\ Head(wire) = Tok("head")
    /\ wire' = Tail(wire) /\ head' = NoHead
    /\ \E p \in {IF dir = "request" THEN ServerParse(head) ELSE ClientParse(head, method)} :
          /\ reading' = IF ~p.ok THEN "closed" ELSE IF p.decode = 0 THEN "keepalive" ELSE "body"
          /\ failed' = ~p.ok
          /\ keeps' = (p.ok /\ p.keepAlive)
          /\ dec' = IF p.ok THEN NewDecoder(p.decode) ELSE dec
    /\ UNCHANGED <<sender, cut, eof, got>>

\* The stream ends before a head.
ReadHeadEof ==
    /\ reading = "init" /\ wire = <<>> /\ eof
    /\ reading' = "closed"
    /\ UNCHANGED <<sender, head, cut, wire, eof, dec, got, keeps, failed>>

Fail ==
    /\ reading' = "closed" /\ failed' = TRUE
    /\ UNCHANGED <<dec, got, keeps>>

\* Conn::poll_read_body with what the decoder returned: the decoder left and the
\* bytes of the body.
Decoded(d, bytes, over) ==
    /\ dec' = d /\ got' = got \o bytes
    /\ reading' = IF over THEN "keepalive" ELSE "body"
    /\ UNCHANGED <<keeps, failed>>

MutAvailable == {n \in 1 .. Len(wire) : n <= dec.size + 1}

\* MemRead::read_mem: up to the bytes wanted, out of what has arrived.
Available == {n \in 1 .. Len(wire) : n <= dec.size}

\* Decoder::decode of a length.
DecodeLength ==
    /\ reading = "body" /\ dec.kind = "length"
    /\ \/ \E n \in Available :
             /\ wire' = SubSeq(wire, n + 1, Len(wire))
             /\ Decoded([dec EXCEPT !.size = @ - n], SubSeq(wire, 1, n), n = dec.size)
       \/ wire = <<>> /\ eof /\ Fail /\ UNCHANGED wire
    /\ UNCHANGED <<sender, head, cut, eof>>

\* Decoder::decode until the end of the stream.
DecodeEof ==
    /\ reading = "body" /\ dec.kind = "eof"
    /\ \/ \E n \in 1 .. Len(wire) :
             /\ wire' = SubSeq(wire, n + 1, Len(wire))
             /\ Decoded(dec, SubSeq(wire, 1, n), FALSE)
       \/ wire = <<>> /\ eof /\ Decoded(dec, <<>>, TRUE) /\ UNCHANGED wire
    /\ UNCHANGED <<sender, head, cut, eof>>

\* The steps of ChunkedState on one byte b: the state and the size they leave.
Err(size) == [state |-> "Error", size |-> size]
To(state, size) == [state |-> state, size |-> size]

\* read_size: a digit that would not fit a u64 is an error.
ReadSize(size, b) ==
    CASE b[1] = "digit" -> IF size * Radix + b[2] > U64Max THEN Err(size)
                           ELSE To("Size", size * Radix + b[2])
      [] b[1] = "WS" -> To("SizeLws", size)
      [] b[1] = ";"  -> To("Extension", size)
      [] b[1] = "CR" -> To("SizeLf", size)
      [] OTHER -> Err(size)

MutReadSizeLws(size, b) ==
    CASE b[1] = "WS" -> To("SizeLws", size)
      [] b[1] = "CR" -> To("SizeLf", size)
      [] OTHER -> Err(size)

ReadSizeLws(size, b) ==
    CASE b[1] = "WS" -> To("SizeLws", size)
      [] b[1] = ";"  -> To("Extension", size)
      [] b[1] = "CR" -> To("SizeLf", size)
      [] OTHER -> Err(size)

ReadExtension(size, b) ==
    CASE b[1] = "CR" -> To("SizeLf", size)
      [] b[1] = "LF" -> Err(size)
      [] OTHER -> To("Extension", size)

ReadSizeLf(size, b) ==
    IF b[1] # "LF" THEN Err(size) ELSE To(IF size = 0 THEN "EndCr" ELSE "Body", size)

\* One expected byte, as in read_body_cr, read_body_lf, read_trailer_lf, read_end_lf.
Expect(want, state, size, b) == IF b[1] = want THEN To(state, size) ELSE Err(size)

ReadTrailer(size, b) == To(IF b[1] = "CR" THEN "TrailerLf" ELSE "Trailer", size)

ReadEndCr(size, b) == To(IF b[1] = "CR" THEN "EndLf" ELSE "Trailer", size)

Step(d, b) ==
    CASE d.state = "Size"      -> ReadSize(d.size, b)
      [] d.state = "SizeLws"   -> ReadSizeLws(d.size, b)
      [] d.state = "Extension" -> ReadExtension(d.size, b)
      [] d.state = "SizeLf"    -> ReadSizeLf(d.size, b)
      [] d.state = "BodyCr"    -> Expect("CR", "BodyLf", d.size, b)
      [] d.state = "BodyLf"    -> Expect("LF", "Size", d.size, b)
      [] d.state = "Trailer"   -> ReadTrailer(d.size, b)
      [] d.state = "TrailerLf" -> Expect("LF", "EndCr", d.size, b)
      [] d.state = "EndCr"     -> ReadEndCr(d.size, b)
      [] d.state = "EndLf"     -> Expect("LF", "End", d.size, b)

\* Decoder::decode of a chunked body, one byte of its framing.
DecodeFraming ==
    /\ reading = "body" /\ dec.kind = "chunked" /\ dec.state # "Body" /\ wire # <<>>
    /\ LET s == Step(dec, Head(wire))
       IN  IF s.state = "Error" THEN Fail
           ELSE Decoded([dec EXCEPT !.state = s.state, !.size = s.size], <<>>, s.state = "End")
    /\ wire' = Tail(wire)
    /\ UNCHANGED <<sender, head, cut, eof>>

\* read_body.
DecodeChunk ==
    /\ reading = "body" /\ dec.kind = "chunked" /\ dec.state = "Body"
    /\ \E n \in Available :
          /\ wire' = SubSeq(wire, n + 1, Len(wire))
          /\ Decoded([dec EXCEPT !.size = @ - n,
                                 !.state = IF n < dec.size THEN "Body" ELSE "BodyCr"],
                     SubSeq(wire, 1, n), FALSE)
    /\ UNCHANGED <<sender, head, cut, eof>>

\* The stream ends within a chunked body.
DecodeCutChunk ==
    /\ reading = "body" /\ dec.kind = "chunked" /\ wire = <<>> /\ eof
    /\ Fail
    /\ UNCHANGED <<sender, head, cut, wire, eof>>

Write ==
    \/ writing = "init" /\ \E m \in Requests : WriteRequest(m)
    \/ writing = "init" /\ \E m \in Responses, r \in Peers, enabled \in BOOLEAN :
          WriteResponse(m, r, enabled)
    \/ \E n \in Sizes : WriteBody(n) \/ WriteBodyAndEnd(n)
    \/ EndBody \/ WriteNext \/ Shutdown
    \/ WriteOther \/ OtherEnd
    \/ \E n \in Sizes : OtherChunk(n) \/ OtherOversize(n)

Read ==
    \/ SkipInformational \/ ReadHead \/ ReadHeadEof
    \/ DecodeLength \/ DecodeEof \/ DecodeFraming \/ DecodeChunk \/ DecodeCutChunk

Next == Write \/ CutOff \/ Read

\* A task that reads is woken by every arrival of bytes, and a closed connection
\* is shut down by its own task; nothing makes a user write or end a body.
Spec == Init /\ [][Next]_vars /\ WF_vars(Read) /\ WF_vars(Shutdown)

(* ------------------------------ properties ----------------------------- *)

\* The reader has received bytes of the body, each once and in order, and never a
\* byte of the framing or of the next message.
InOrder == \A i \in DOMAIN got : got[i] = <<"data", i>>

\* A body that has ended without an error is complete: the writer ended it, every
\* byte it put on the wire was received, and the stream stands at the next message.
\* (A body delimited by the end of the connection cannot tell its end from a loss.)
CleanEnd ==
    (reading = "keepalive" /\ dec.kind # "eof") =>
        /\ whole /\ Len(got) = put
        /\ wire = <<>> \/ Head(wire) = Tok("next")

\* What is read is what was written, for every framing and every split of the
\* stream: no byte is missed, repeated or taken from the framing or the next
\* message, and no body that was cut passes for a whole one (Decoder::decode
\* against Encoder::encode).
ReadAsWritten == InOrder /\ CleanEnd

\* What a hyper of one role writes a hyper of the other role accepts, and so it
\* does with any legal chunked coding: an error means that the connection was
\* lost, that the body fell short of its length or that a size was out of range.
NoFalseError == failed => \/ cut \/ broken
                          \/ writing = "closed" /\ ~whole

\* A client never keeps a connection for another request that the server closed
\* after its response (Server::encode, Conn::enforce_version and Client::parse on
\* the Connection header), with the exceptions of excused: the users caused it, or
\* the server disabled keep-alive itself, of which Server::encode tells a peer of
\* HTTP/1.1 nothing.
KeepAliveAgreed ==
    (/\ dir = "response" /\ reading = "keepalive" /\ keeps /\ dec.kind # "eof"
     /\ ~excused /\ enc # NoEncoder) => writing # "closed"

\* Once the writer has nothing more to send of a message, the reader comes to its
\* end or to an error: it never waits for bytes that are not coming.
Concludes == (writing # "init" /\ ~open) ~> (reading \in {"keepalive", "closed"})
==============================================================================
