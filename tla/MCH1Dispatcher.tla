--------------------------- MODULE MCH1Dispatcher ---------------------------
(***************************************************************************)
(* Small instances of H1Dispatcher for TLC: the kinds of heads and of      *)
(* outgoing messages that the connection tells apart.                      *)
(***************************************************************************)
EXTENDS H1Dispatcher

HeadOf(body, expect, ka, v10, upgrade) ==
    [t |-> "head", body |-> body, expect |-> expect, ka |-> ka, v10 |-> v10, upgrade |-> upgrade]

Msg(shape, kind, close, v10) ==
    [shape |-> shape, kind |-> kind, close |-> close, v10 |-> v10]

Plain   == HeadOf("none", FALSE, TRUE, FALSE, FALSE)
Framed  == HeadOf("framed", FALSE, TRUE, FALSE, FALSE)
Expect  == HeadOf("framed", TRUE, TRUE, FALSE, FALSE)
Old     == HeadOf("none", FALSE, TRUE, TRUE, FALSE)
Last    == HeadOf("none", FALSE, FALSE, FALSE, TRUE)
ToEof   == HeadOf("eof", FALSE, FALSE, FALSE, FALSE)

Full    == Msg("full", "length", FALSE, FALSE)
Chunked == Msg("stream", "chunked", FALSE, FALSE)
Sized   == Msg("stream", "length", FALSE, FALSE)
ToClose == Msg("stream", "close", FALSE, FALSE)
Old10   == Msg("empty", "length", FALSE, TRUE)
Bye     == Msg("full", "length", TRUE, FALSE)
Unsent  == Msg("unsent", "length", FALSE, FALSE)
Invalid == Msg("invalid", "length", FALSE, FALSE)

Plan(heads, max, outgoing, fill, faults, blocks) ==
    [heads |-> heads, max |-> max, outgoing |-> outgoing, fill |-> fill,
     faults |-> faults, blocks |-> blocks]

\* Requests without bodies and every way to respond; requests with bodies,
\* answered early or late; one that waits for 100-continue; requests that end
\* the connection, and bad bytes.
ServerPlans ==
    {Plan({Plain}, 2, {Full, Chunked, ToClose, Bye, Unsent}, {"queued", "full"}, {"reset"}, 1),
     Plan({Framed, Plain}, 2, {Full}, {"full"}, {}, 1),
     Plan({Expect}, 1, {Full}, {"full"}, {}, 0),
     Plan({Last, Old}, 2, {Old10, Invalid}, {"full"}, {"bad", "eof"}, 0)}

\* A request that expects 100-continue after one that was answered early.
EarlyPlans == {Plan({Expect}, 2, {Full}, {"full"}, {}, 1)}

\* Responses of every kind; streamed requests that fill the write buffer.
ClientPlans ==
    {Plan({Plain, ToEof}, 2, {Full, Sized}, {"queued"}, {"part", "eof"}, 0),
     Plan({Plain}, 2, {Full, Sized}, {"full"}, {"eof"}, 1)}

=============================================================================
