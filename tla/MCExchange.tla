----------------------------- MODULE MCExchange ------------------------------
(***************************************************************************)
(* The messages of the runs of Exchange: every combination of the framing  *)
(* headers that a user may set, within what the API asks of the user.      *)
(***************************************************************************)
EXTENDS Exchange

Tes == {<<>>, << <<"gzip">> >>, << <<"gzip", "chunked">> >>, << <<"gzip">>, <<"chunked">> >>}
Cls == {<<>>, <<0>>, <<2>>, <<2, 2>>, <<2, 1>>, <<U64Max + 1>>}
Conns == {<<>>, <<"close">>, <<"keep-alive">>}
Bodies == {NoBody, Unknown, 2}

Heads(methods, statuses) ==
    {h \in [v : {10, 11}, method : methods, status : statuses, te : Tes, cl : Cls,
            conn : Conns, teFirst : BOOLEAN] :
        h.te = <<>> \/ h.cl = <<>> => h.teFirst}

\* A Content-Length the user sets for a body of known length is that length.
Trusted(m) == m.body > 0 => \A i \in DOMAIN m.head.cl : m.head.cl[i] = m.body

\* A request without a body has no other Content-Length than 0, and a legal one
\* if it is sent beside a Transfer-Encoding or a body of unknown length.
MCRequests ==
    {m \in [head : {h \in Heads({"GET", "POST", "CONNECT"}, {0}) : h.conn = <<>>},
            body : Bodies] :
        CASE m.body = NoBody -> \A i \in DOMAIN m.head.cl : m.head.cl[i] = 0
          [] m.body = Unknown \/ m.head.te # <<>> ->
                /\ m.head.cl # <<>> => ContentLengthParseAll(m.head.cl) # NONE
                /\ Trusted(m)
          [] OTHER -> ContentLengthParseAll(m.head.cl) \in {NONE, m.body}}

\* A response without a body has no Transfer-Encoding of the user.
MCResponses ==
    {m \in [head : Heads({""}, {100, 101, 200, 204, 304}), body : Bodies] :
        /\ Trusted(m)
        /\ m.body = NoBody => m.head.te = <<>>}

MCPeers ==
    {[v |-> v, method |-> a, status |-> 0, te |-> <<>>, cl |-> <<>>, conn |-> conn,
      teFirst |-> TRUE] : v \in {10, 11}, a \in {"GET", "HEAD", "CONNECT"}, conn \in Conns}
==============================================================================
