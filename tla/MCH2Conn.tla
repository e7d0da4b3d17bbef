------------------------------- MODULE MCH2Conn ------------------------------
(* One request, plain or CONNECT, with bodies of a chunk of two bytes and a    *)
(* window that holds just that, under each setting of the pings.               *)
EXTENDS H2Conn

Plan(bdp, keepAlive, whileIdle, connect, up, down) ==
    [bdp |-> bdp, keepAlive |-> keepAlive, whileIdle |-> whileIdle,
     connect |-> connect, up |-> up, down |-> down]

MCPlans ==
    {Plan(TRUE, FALSE, FALSE, {}, 0, 1), Plan(FALSE, FALSE, FALSE, {}, 1, 0),
     Plan(TRUE, FALSE, FALSE, Requests, 0, 1), Plan(FALSE, FALSE, FALSE, Requests, 1, 0),
     Plan(FALSE, TRUE, FALSE, {}, 0, 0), Plan(FALSE, TRUE, TRUE, Requests, 0, 0)}
=============================================================================
