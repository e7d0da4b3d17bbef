------------------------------- MODULE H2Ping --------------------------------
(***************************************************************************)
(* Pings of an HTTP/2 connection (proto/h2/ping.rs), sent to estimate the  *)
(* bandwidth-delay product (BDP) and to keep the connection alive: the     *)
(* state Recorders and the Ponger share, as a record, and what each call   *)
(* makes of it.  Time is not counted: the timer elapses when it does, and  *)
(* of the last read it matters only whether it is later than the one the   *)
(* timer was set from; how long a BDP ping is put off (ping_delay) is left *)
(* out, since it may be any time.                                          *)
(***************************************************************************)
EXTENDS Integers

CONSTANTS
    BdpLimit,       \* BDP_LIMIT, no larger window is asked for
    FirstWindow     \* bdp_initial_window, the estimate to start from

ASSUME PingAssumption ==
    /\ BdpLimit \in Nat
    /\ FirstWindow \in 2 .. BdpLimit

\* ping::channel.
Channel(bdp, keepAlive, whileIdle) ==
    [bdpOn |-> bdp, whileIdle |-> whileIdle,
     state |-> IF keepAlive THEN "Init" ELSE "none",    \* KeepAliveState, or no KeepAlive
     timer |-> "set",       \* "set" or "elapsed"
     armed |-> FALSE,       \* a waker is registered with the timer
     read |-> FALSE,        \* last_read_at + interval > timer.deadline()
     sent |-> FALSE,        \* ping_sent_at is Some
     next |-> "none",       \* next_bdp_at: "none", "later" or "due"
     bytes |-> 0,           \* read during the current sample
     bdp |-> FirstWindow,   \* the estimate
     timedOut |-> FALSE]    \* is_keep_alive_timed_out

\* Shared::update_last_read_at; the timer looks at it while it is Scheduled.
UpdateLastReadAt(p) == [p EXCEPT !.read = (p.state = "Scheduled")]

\* Shared::send_ping: h2 has one ping of the user's under way at a time.
SendPing(p) == [p EXCEPT !.sent = TRUE]

\* Recorder::record_data; one sample counts at most BdpLimit bytes here.
RecordData(p, len) ==
    LET q == UpdateLastReadAt(p)
        s == [q EXCEPT !.next = "none",
                       !.bytes = IF @ + len > BdpLimit THEN BdpLimit ELSE @ + len]
    IN CASE p.next = "later" -> q
         [] p.next # "later" /\ ~p.bdpOn -> [q EXCEPT !.next = "none"]
         [] OTHER -> IF p.sent THEN s ELSE SendPing(s)

\* Recorder::record_non_data.
RecordNonData(p) == UpdateLastReadAt(p)

------------------------------------------------------------------------------
(* KeepAlive.                                                                *)

SetTimer(p, state) == [p EXCEPT !.state = state, !.timer = "set", !.read = FALSE]

\* KeepAlive::schedule: waits for a stream unless idle connections are pinged
\* too, and for the pong that is still to come.
Schedule(p, idle) ==
    IF \/ p.state = "Init" /\ (p.whileIdle \/ ~idle)
       \/ p.state = "PingSent" /\ ~p.sent
    THEN SetTimer(p, "Scheduled")
    ELSE p

\* Polling the timer leaves a waker with it unless it has elapsed.
PollTimer(p) == [p EXCEPT !.armed = (p.timer = "set")]

\* KeepAlive::maybe_ping: when the interval is over and nothing was read in it,
\* a ping is sent, and a timeout set for its pong.
MaybePing(p) ==
    CASE p.state # "Scheduled" -> p
      [] p.state = "Scheduled" /\ p.timer = "set" -> PollTimer(p)
      [] p.state = "Scheduled" /\ p.timer = "elapsed" /\ p.read ->
            [p EXCEPT !.state = "Init", !.timer = "set", !.read = FALSE]
      [] OTHER -> SetTimer(SendPing(p), "PingSent")

\* KeepAlive::maybe_timeout.
IsTimeout(p) == p.state = "PingSent" /\ p.timer = "elapsed"

MaybeTimeout(p) ==
    IF IsTimeout(p) THEN [p EXCEPT !.state = "none", !.timedOut = TRUE]
                    ELSE IF p.state = "PingSent" THEN PollTimer(p) ELSE p

------------------------------------------------------------------------------
(* Bdp.                                                                      *)

\* Bdp::calculate, for a sample of bytes whose bandwidth is or is not the
\* largest so far.
Calculate(p, bytes, faster) ==
    IF p.bdp # BdpLimit /\ faster /\ bytes >= (p.bdp * 2) \div 3
    THEN [p EXCEPT !.bdp = IF 2 * bytes > BdpLimit THEN BdpLimit ELSE 2 * bytes]
    ELSE p

------------------------------------------------------------------------------
(* Ponger.                                                                   *)

\* What comes before the pong is looked for: the keep-alive, if there is one.
KeepAlivePoll(p, idle) == IF p.state = "none" THEN p ELSE MaybePing(Schedule(p, idle))

\* The pong is there: it ends the wait and the sample.
Ponged(p, idle, faster) ==
    LET q == [p EXCEPT !.sent = FALSE]
        k == IF q.state = "none" THEN q ELSE Schedule(UpdateLastReadAt(q), idle)
    IN IF p.bdpOn THEN [Calculate(k, k.bytes, faster) EXCEPT !.bytes = 0, !.next = "later"]
                  ELSE k

\* Ponger::poll: the keep-alive, then the pong, then the timeout.
PongerPoll(p, idle, pong, faster) ==
    LET q == KeepAlivePoll(p, idle)
    IN CASE ~q.sent -> q
         [] q.sent /\ pong -> Ponged(q, idle, faster)
         [] OTHER -> MaybeTimeout(q)

\* maybe_ping asks to be polled again when it starts over.
WakesItself(p, idle) ==
    LET q == Schedule(p, idle) IN q.state = "Scheduled" /\ q.timer = "elapsed" /\ q.read
=============================================================================
