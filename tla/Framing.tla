------------------------------- MODULE Framing -------------------------------
(***************************************************************************)
(* How a message head frames its body (proto/h1/role.rs, headers.rs,       *)
(* body/length.rs): what the encoder of each role writes for the headers   *)
(* and the body a user gave, and which body and which keep-alive the       *)
(* parser of the other role reads out of such a head.                      *)
(*                                                                         *)
(* Of a head the framing headers are kept: te, the lines of                *)
(* Transfer-Encoding, each a sequence of codings; cl, the lines of         *)
(* Content-Length, each a number; conn, the lines of Connection, each one  *)
(* token; and whether Transfer-Encoding comes before Content-Length.       *)
(***************************************************************************)
EXTENDS Integers, Sequences, SequencesExt

CONSTANT U64Max                  \* u64::MAX

ASSUME FramingAssumption == U64Max \in Nat /\ U64Max > 2

\* DecodedLength: a length, or one of the two top values of a u64.
CLOSE_DELIMITED == U64Max
CHUNKED == U64Max - 1
MAX_LEN == U64Max - 2

NONE == -1                       \* an absent number

\* An absent body and one of unknown length, the other two cases of
\* Option<BodyLength> beside Known(len).
NoBody == -2
Unknown == -3

(* --------------------------- headers.rs -------------------------------- *)

\* from_digits: a number that overflows a u64 is not one.
FromDigits(n) == IF n \in 0 .. U64Max THEN n ELSE NONE

\* content_length_parse_all: every line the same legal number.
ContentLengthParseAll(cl) ==
    IF cl # <<>> /\ \A i \in DOMAIN cl : FromDigits(cl[i]) # NONE /\ cl[i] = cl[1]
    THEN cl[1] ELSE NONE

\* is_chunked_ of a line: chunked is its last coding.
IsChunkedLine(line) == line # <<>> /\ Last(line) = "chunked"

\* is_chunked of a header: that of its last line.
IsChunked(te) == te # <<>> /\ IsChunkedLine(Last(te))

\* add_chunked: the last line gets another coding.
AddChunked(te) == [te EXCEPT ![Len(te)] = Append(@, "chunked")]

\* A request line of HTTP/1.1 stands for keep-alive, one of HTTP/1.0 does not.
DefaultKeepAlive(v) == v = 11

\* Connection toggles the keep-alive default of the version, line by line.
KeepAlive(v, conn) ==
    FoldLeft(LAMBDA ka, tok : IF ka THEN tok # "close" ELSE tok = "keep-alive",
             DefaultKeepAlive(v), conn)

(* ------------------------ reading a request ---------------------------- *)

\* The header lines that frame a body, in the order they are parsed.
Lines(h) ==
    LET tes == [i \in DOMAIN h.te |-> [name |-> "te", te |-> h.te[i], cl |-> 0]]
        cls == [i \in DOMAIN h.cl |-> [name |-> "cl", te |-> <<>>, cl |-> h.cl[i]]]
    IN  IF h.teFirst THEN tes \o cls ELSE cls \o tes

\* One Transfer-Encoding line of a request.
ParseTe(s, v, line) ==
    IF v = 10 THEN [s EXCEPT !.ok = FALSE]
    ELSE [s EXCEPT !.te = TRUE, !.chunked = IsChunkedLine(line),
                   !.decode = IF IsChunkedLine(line) THEN CHUNKED ELSE @]

\* One Content-Length line of a request; DecodedLength::checked_new refuses the
\* lengths above MAX_LEN.
ParseCl(s, n) ==
    CASE s.te -> s
      [] ~s.te /\ (FromDigits(n) = NONE \/ (s.len # NONE /\ s.len # n) \/ n > MAX_LEN) ->
            [s EXCEPT !.ok = FALSE]
      [] OTHER -> [s EXCEPT !.len = n, !.decode = n]

\* Server::parse: the body a request announces, and its keep-alive.
ServerParse(h) ==
    LET start == [ok |-> TRUE, decode |-> 0, len |-> NONE, te |-> FALSE, chunked |-> FALSE]
        line(s, l) == CASE ~s.ok -> s
                        [] s.ok /\ l.name = "te" -> ParseTe(s, h.v, l.te)
                        [] s.ok /\ l.name = "cl" -> ParseCl(s, l.cl)
        end == FoldLeft(line, start, Lines(h))
    IN  [ok        |-> end.ok /\ (end.te => end.chunked),
         decode    |-> end.decode,
         keepAlive |-> KeepAlive(h.v, h.conn)]

(* ------------------------ reading a response --------------------------- *)

Informational(status) == status \in 100 .. 199
Success(status) == status \in 200 .. 299

\* Client::decoder for the method of the request, and the keep-alive of
\* Client::parse: an upgraded connection is not used again.
ClientParse(h, method) ==
    LET upgrade == h.status = 101 \/ (method = "CONNECT" /\ Success(h.status)
                                      /\ h.status # 204)
        empty == upgrade \/ h.status \in {204, 304} \/ method = "HEAD"
        length == ContentLengthParseAll(h.cl)
    IN  [ok |-> \/ empty
                \/ h.te # <<>> /\ h.v = 11
                \/ h.te = <<>> /\ (h.cl # <<>> => length \in 0 .. MAX_LEN),
         decode |-> CASE empty -> 0
                      [] ~empty /\ h.te # <<>> ->
                            IF IsChunked(h.te) THEN CHUNKED ELSE CLOSE_DELIMITED
                      [] ~empty /\ h.te = <<>> /\ length # NONE -> length
                      [] OTHER -> CLOSE_DELIMITED,
         keepAlive |-> KeepAlive(h.v, h.conn) /\ ~upgrade]

(* ------------------------ writing a response --------------------------- *)

\* An Encoder: its kind, what is left of a length, and is_last.
Encoder(kind, rem, last) == [kind |-> kind, rem |-> rem, last |-> last]
NoEncoder == Encoder("none", 0, TRUE)

CanChunked(method, status) ==
    /\ method # "HEAD"
    /\ ~(method = "CONNECT" /\ Success(status))
    /\ ~Informational(status) /\ status \notin {204, 304}

CanHaveContentLength(method, status) ==
    /\ ~(method = "CONNECT" /\ Success(status))
    /\ ~Informational(status) /\ status \notin {204, 304}

\* The Content-Length lines of the user in Server::encode_headers.
EncodeCl(s, h, body, method) ==
    CASE h.cl = <<>> \/ ~s.ok -> s
      [] h.cl # <<>> /\ s.ok /\ s.wroteLen -> [s EXCEPT !.ok = FALSE]
      [] OTHER ->
          CASE body = NoBody /\ method = "HEAD" ->
                 [s EXCEPT !.ok = Len(h.cl) = 1, !.cl = h.cl, !.wroteLen = TRUE]
            [] body = NoBody /\ method # "HEAD" -> s
            [] body = Unknown ->
                 [s EXCEPT !.ok = ContentLengthParseAll(h.cl) # NONE,
                           !.cl = <<h.cl[1]>>, !.wroteLen = TRUE,
                           !.kind = "length", !.rem = h.cl[1]]
            [] OTHER ->
                 [s EXCEPT !.cl = <<h.cl[1]>>, !.wroteLen = TRUE,
                           !.kind = "length", !.rem = body]

\* The Transfer-Encoding lines of the user, joined in one: dropped where a
\* chunked body cannot be sent, completed where they do not end in chunked.
EncodeTe(s, h, method) ==
    LET codings == FlattenSeq(h.te)
    IN  CASE h.te = <<>> \/ ~s.ok -> s
          [] h.te # <<>> /\ s.ok /\ s.wroteLen -> [s EXCEPT !.ok = FALSE]
          [] OTHER ->
               IF h.v = 10 \/ ~CanChunked(method, h.status) THEN s
               ELSE [s EXCEPT !.wroteLen = TRUE, !.kind = "chunked",
                              !.te = << IF IsChunked(h.te) THEN codings
                                        ELSE Append(codings, "chunked") >>]

\* The header Server::encode_headers adds when the user's gave no length.
EncodeMissing(s, h, body, method) ==
    CASE s.wroteLen \/ ~s.ok -> s
      [] ~s.wroteLen /\ s.ok /\ body = Unknown ->
            IF h.v = 10 \/ ~CanChunked(method, h.status)
            THEN [s EXCEPT !.kind = "close"]
            ELSE [s EXCEPT !.kind = "chunked", !.te = << <<"chunked">> >>]
      [] OTHER ->
            LET n == IF body = NoBody THEN 0 ELSE body
            IN  IF CanHaveContentLength(method, h.status)
                THEN [s EXCEPT !.cl = <<n>>, !.kind = "length", !.rem = n]
                ELSE s

\* The Connection lines of the user: one that says close makes the message the last.
EncodeConnection(h, last) == last \/ \E i \in DOMAIN h.conn : h.conn[i] = "close"

\* The encoder left: a response that cannot have a body has none, whatever was
\* said of its length.
FinalEncoder(s, h, method, last) ==
    IF CanChunked(method, h.status) THEN Encoder(s.kind, s.rem, last)
    ELSE Encoder("length", 0, last)

\* Server::encode_headers: the head that is written, and the encoder.
EncodeHeaders(h, body, method, last, wroteLen) ==
    LET start == [ok |-> TRUE, wroteLen |-> wroteLen, kind |-> "length", rem |-> 0,
                  te |-> <<>>, cl |-> <<>>]
        user == IF h.teFirst THEN EncodeCl(EncodeTe(start, h, method), h, body, method)
                ELSE EncodeTe(EncodeCl(start, h, body, method), h, method)
        end  == EncodeMissing(user, h, body, method)
    IN  [ok   |-> end.ok,
         head |-> [h EXCEPT !.te = end.te, !.cl = end.cl],
         enc  |-> FinalEncoder(end, h, method, EncodeConnection(h, last))]

\* Server::encode: a 1xx response is replaced by an empty 500 and an error.
ServerEncode(h, body, method, keepAlive) ==
    LET upgraded == h.status = 101
        tunnel == method = "CONNECT" /\ Success(h.status)
        refused == [h EXCEPT !.status = 500, !.v = 11, !.te = <<>>, !.cl = <<>>, !.conn = <<>>]
    IN  CASE upgraded -> EncodeHeaders(h, body, method, TRUE, FALSE)
          [] ~upgraded /\ tunnel -> EncodeHeaders(h, body, method, TRUE, TRUE)
          [] ~upgraded /\ Informational(h.status) ->
               [EncodeHeaders(refused, NoBody, method, TRUE, FALSE) EXCEPT !.enc = NoEncoder]
          [] OTHER -> EncodeHeaders(h, body, method, ~keepAlive, FALSE)

MutEnforceVersion(h, peer, keepAlive) ==
    [head |-> IF peer = 11 THEN h
              ELSE [h EXCEPT !.v = 10, !.conn = IF keepAlive THEN <<"keep-alive">> ELSE @],
     keepAlive |-> FALSE]

\* Conn::fix_keep_alive and enforce_version: a response to a peer of HTTP/1.0 says
\* keep-alive or ends the connection.  Returns the head and the keep-alive left.
EnforceVersion(h, peer, keepAlive) ==
    LET said == h.conn # <<>> /\ h.conn[1] = "keep-alive"
    IN  CASE peer = 11 -> [head |-> h, keepAlive |-> keepAlive]
          [] peer = 10 /\ said -> [head |-> [h EXCEPT !.v = 10], keepAlive |-> keepAlive]
          [] peer = 10 /\ ~said /\ h.v = 10 -> [head |-> h, keepAlive |-> FALSE]
          [] OTHER -> [head |-> [h EXCEPT !.v = 10,
                                          !.conn = IF keepAlive THEN <<"keep-alive">> ELSE @],
                       keepAlive |-> keepAlive]

(* ------------------------- writing a request --------------------------- *)

\* set_content_length: the length of the body replaces what the user wrote.
SetContentLength(h, n) ==
    [head |-> [h EXCEPT !.cl = <<n>>], enc |-> Encoder("length", n, FALSE)]

\* Client::set_length.
SetLength(h, body) ==
    LET existing == ContentLengthParseAll(h.cl)
        without  == [h EXCEPT !.te = <<>>]
        sized(g, n) == [head |-> g, enc |-> Encoder("length", n, FALSE)]
        chunked(te, cl) == [head |-> [h EXCEPT !.te = te, !.cl = cl],
                            enc  |-> Encoder("chunked", 0, FALSE)]
    IN  CASE body = NoBody -> sized(without, 0)
          [] body # NoBody /\ h.v = 10 ->
               CASE existing # NONE -> sized(without, existing)
                 [] existing = NONE /\ body # Unknown -> SetContentLength(without, body)
                 [] OTHER -> sized(without, 0)
          [] body # NoBody /\ h.v = 11 /\ h.te # <<>> ->
               chunked(IF IsChunked(h.te) THEN h.te ELSE AddChunked(h.te),
                       IF existing # NONE THEN <<>> ELSE h.cl)
          [] OTHER ->
               CASE existing # NONE -> sized(h, existing)
                 [] existing = NONE /\ body # Unknown -> SetContentLength(h, body)
                 [] OTHER -> IF h.method \in {"GET", "HEAD", "CONNECT"} THEN sized(h, 0)
                             ELSE chunked(<< <<"chunked">> >>, h.cl)
==============================================================================
