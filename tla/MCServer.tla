------------------------------- MODULE MCServer ------------------------------
(* Two connections: clients of HTTP/1 that keep the connection or upgrade it,  *)
(* and clients of HTTP/2 with one stream, or a CONNECT with a body beside it.  *)
EXTENDS Server

CONSTANTS c1, c2

MCPlans ==
    c1 :> [by : {"Server", "user"},
           script : {<<"R", "R">>, <<"U", "x">>, Preface \o <<"S">>, Preface \o <<"S", "C">>}]
    @@ c2 :> [by : {"Server"}, script : {<<"R">>}]
=============================================================================
