-------------------------------- MODULE Client --------------------------------
(***************************************************************************)
(* Client::request (src/client/client.rs): the path of a request from the  *)
(* race between the pool and a new connection to its response, with the    *)
(* retries.  The pool is module Pool itself: a step of a request that      *)
(* touches the pool is a step of Pool, and a request's Checkout has the    *)
(* request's name.  The connection attempts are those of Connector.        *)
(*                                                                         *)
(* All requests go to one host, so there is one pool key.                  *)
(*                                                                         *)
(* A request (pc):                                                         *)
(*   "new"        not made yet                                             *)
(*   "checkout"   connection_for, before the first poll of its select      *)
(*   "start"      the checkout was polled, the connect future not yet      *)
(*   "race"       select polls both                                        *)
(*   "connecting" the checkout was canceled, the connect future is awaited *)
(*   "wait"       the connect future was canceled, the checkout is awaited *)
(*   "clean"      the checkout that lost is being dropped                  *)
(*   "have"       connection_for returned a Pooled                         *)
(*   "sending"    the connection's channel was found open                  *)
(*   "sent"       the request is in the connection's channel               *)
(*   "stuck"      in a channel whose receiver is gone                      *)
(*   "started"    the connection took it                                   *)
(*   "idle"       answered, the on_idle task still has the Pooled          *)
(*   "drop"       send_request ends without a response, Pooled dropped     *)
(*   "retry"      at the top of the loop of retryably_send_request         *)
(*   "cancel"     the user dropped the ResponseFuture                      *)
(*   "done"                                                                *)
(*                                                                         *)
(* A definition whose name starts with Mut is a faulty variant of the one  *)
(* after it.                                                               *)
(***************************************************************************)
EXTENDS Pool, Connector

CONSTANTS
    Plans,      \* what the requests, the network and the configuration are
    NoAttemptId \* a request without a connection attempt or a Pooled

\* A plan: the requests (method, version, form of the URI given), the scheme,
\* the connections the host may open and which of them go through a proxy, the
\* addresses of the host and how they are found, the connector's configuration,
\* retry_canceled_requests, and the requests whose future the user may drop.
ASSUME ClientAssumption ==
    /\ NoAttemptId \notin Owners
    /\ \A p \in Plans :
          /\ p.reqs \in [Checkouts -> [method : {"GET", "CONNECT"},
                                       version : {"1.0", "1.1", "2"},
                                       uri : {"absolute", "authority", "origin"}]]
          /\ p.scheme \in {"http", "https"}
          /\ p.kinds \subseteq Conns /\ p.proxied \subseteq Conns
          /\ p.addrs \in Seq(Addresses)
          /\ p.lookup \in {"ok", "fails", "unready", "literal"}
          /\ p.cfg \in Configs
          /\ p.retry \in BOOLEAN
          /\ p.droppable \subseteq Checkouts

\* The lists an attempt goes through are made of addresses.  (SelectSeq gives
\* nothing else; its recursion is beyond the prover.)
ASSUME ListsAssumption ==
    \A p \in Plans : /\ Lists(p.cfg, p.addrs).pref \in Seq(Addresses)
                     /\ Lists(p.cfg, p.addrs).fall \in Seq(Addresses)

VARIABLES
    plan,
    req,    \* the state of each request
    tcp,    \* the connector's side of each connection attempt
    shake   \* the connection whose handshake an attempt is in, or NoConn

cvars == <<vars, plan, req, tcp, shake>>

Requests == Checkouts
Key      == CHOOSE k \in Keys : TRUE

NewRequest == [pc |-> "new", next |-> "done", own |-> NoAttemptId, via |-> NoAttemptId,
               reused |-> FALSE, uri |-> "origin", starts |-> 0, out |-> "none"]

-----------------------------------------------------------------------------
(* URIs.                                                                   *)

\* Client::request and extract_domain: a URI needs a scheme and an authority;
\* CONNECT may leave the scheme out.
Acceptable(q) ==
    /\ ~(q.version = "1.0" /\ q.method = "CONNECT")
    /\ q.uri = "absolute" \/ (q.uri = "authority" /\ q.method = "CONNECT")

\* extract_domain has set_scheme add what a CONNECT target leaves out, before
\* retryably_send_request keeps its copy of the URI.
GivenUri(q) == IF q.uri = "authority" THEN "absolute" ELSE q.uri

\* origin_form, absolute_form, authority_form.
OriginForm(u)    == "origin"
AbsoluteForm(u)  == IF u = "absolute" /\ plan.scheme = "https" THEN OriginForm(u) ELSE u
AuthorityForm(u) == "authority"

\* send_request: the request target that the connection is given.
TargetForm(q, c, u) ==
    IF q.method = "CONNECT" THEN AuthorityForm(u)
    ELSE IF Shared(c) THEN u
    ELSE IF c \in plan.proxied THEN AbsoluteForm(u)
    ELSE OriginForm(u)

-----------------------------------------------------------------------------
CInit ==
    /\ Init
    /\ plan \in Plans
    /\ req = [r \in Requests |-> NewRequest]
    /\ tcp = [t \in Connects |-> NoAttempt]
    /\ shake = [t \in Connects |-> NoConn]

Conn(r)   == handle[req[r].via].conn
At(r, pc) == req[r].pc = pc

\* The request that awaits attempt t.  There is none once the attempt runs in
\* the background.
AwaitedBy(t) == {r \in Requests : req[r].own = t}

\* The request leaves connection_for with the Pooled of o.
Has(r, o, reused) ==
    [req[r] EXCEPT !.pc = "have", !.own = NoAttemptId, !.via = o, !.reused = reused]

Ends(r, out) == [req[r] EXCEPT !.pc = "done", !.own = NoAttemptId, !.via = NoAttemptId,
                               !.uri = "origin", !.reused = FALSE, !.out = out]

-----------------------------------------------------------------------------
(* request and connection_for.                                             *)

\* Client::request: a request that cannot be sent is answered at once.
Refuse(r) ==
    /\ At(r, "new") /\ ~Acceptable(plan.reqs[r])
    /\ req' = [req EXCEPT ![r] = Ends(r, "user")]
    /\ UNCHANGED <<vars, plan, tcp, shake>>

Request(r) ==
    /\ At(r, "new") /\ Acceptable(plan.reqs[r])
    /\ Checkout(r, Key)
    /\ req' = [req EXCEPT ![r].pc = "checkout", ![r].uri = GivenUri(plan.reqs[r])]
    /\ UNCHANGED <<plan, tcp, shake>>

\* The select polls the checkout first.  On a hit the connect future, which is
\* lazy, is dropped without having been started.
CheckoutHit(r) ==
    /\ At(r, "checkout")
    /\ PollHit(r)
    /\ req' = [req EXCEPT ![r] = Has(r, r, TRUE)]
    /\ UNCHANGED <<plan, tcp, shake>>

CheckoutMiss(r) ==
    /\ At(r, "checkout")
    /\ PollMiss(r)
    /\ req' = [req EXCEPT ![r].pc = "start"]
    /\ UNCHANGED <<plan, tcp, shake>>

Free == {t \in Connects : ct[t] = "none" /\ handle[t] = NoHandle /\ tcp[t] = NoAttempt}

\* Lazy::poll, the first time: connect_to takes the connecting lock and calls
\* the connector.  When an HTTP/2 attempt has the lock, it is canceled.
StartConnect(r) ==
    /\ At(r, "start")
    /\ IF Ver = "Http2" /\ Key \in connecting
       THEN /\ req' = [req EXCEPT ![r].pc = "wait"]
            /\ UNCHANGED <<vars, tcp>>
       ELSE /\ Free # {}
            /\ LET t == CHOOSE u \in Free : TRUE IN
               /\ IF Ver = "Auto" THEN ConnectAuto(t, Key) ELSE ConnectHttp2(t, Key)
               /\ req' = [req EXCEPT ![r].pc = "race", ![r].own = t]
               /\ tcp' = [tcp EXCEPT ![t] = NewAttempt]
    /\ UNCHANGED <<plan, shake>>

\* The checkout receives an open connection.  A connect future that was started
\* is spawned into the background, not dropped.
CheckoutWins(r) ==
    /\ At(r, "race") \/ At(r, "wait")
    /\ co[r] = "sent" /\ IsOpen(slot[r])
    /\ PollReceived(r)
    /\ req' = [req EXCEPT ![r] = Has(r, r, TRUE)]
    /\ UNCHANGED <<plan, tcp, shake>>

MutCheckoutFails(r) ==
    /\ At(r, "race") \/ At(r, "wait")
    /\ \/ co[r] = "sent" /\ ~IsOpen(slot[r]) /\ PollReceived(r)
       \/ PollCanceled(r)
    /\ req' = [req EXCEPT ![r] = Ends(r, "canceled")]
    /\ UNCHANGED <<plan, tcp, shake>>

\* The checkout is canceled, or receives a connection that has closed: what is
\* left is to await the connect future.  When that one was canceled before, the
\* request fails, except that a client restricted to HTTP/2 tries again.
CheckoutFails(r) ==
    /\ At(r, "race") \/ At(r, "wait")
    /\ \/ co[r] = "sent" /\ ~IsOpen(slot[r]) /\ PollReceived(r)
       \/ PollCanceled(r)
    /\ req' = [req EXCEPT ![r] =
                  IF At(r, "race") THEN [@ EXCEPT !.pc = "connecting"]
                  ELSE IF Ver = "Http2" /\ co[r] = "sent" /\ plan.retry
                  THEN [@ EXCEPT !.pc = "retry"]
                  ELSE Ends(r, "canceled")]
    /\ UNCHANGED <<plan, tcp, shake>>

\* Drop for the Checkout that lost, in its two halves.
DropLoser(r) ==
    /\ At(r, "clean")
    /\ DropCheckout(r)
    /\ UNCHANGED <<plan, req, tcp, shake>>

CleanLoser(r) ==
    /\ At(r, "clean")
    /\ CleanWaiters(r)
    /\ req' = [req EXCEPT ![r] = IF @.next = "have" THEN [@ EXCEPT !.pc = "have"]
                                 ELSE Ends(r, @.out)]
    /\ UNCHANGED <<plan, tcp, shake>>

-----------------------------------------------------------------------------
(* connect_to, by whichever task polls the attempt.                        *)

\* The attempts a step of the connector may lead to.
ConnectorSteps(t) ==
    CASE tcp[t].phase = "ready"   ->
            {CallAsync(plan.cfg, plan.scheme, plan.lookup = "literal", plan.addrs,
                       plan.lookup # "unready")}
      [] tcp[t].phase = "resolve" ->
            {Resolved(plan.cfg, plan.addrs, plan.lookup # "fails")}
      [] tcp[t].phase = "tcp"     -> TcpSteps(plan.cfg, tcp[t])
      [] OTHER                    -> {}

Connecting(t) ==
    /\ \E a \in ConnectorSteps(t) : tcp' = [tcp EXCEPT ![t] = a]
    /\ UNCHANGED <<vars, plan, req, shake>>

\* Connections the host may still open.
Unopened == {c \in plan.kinds : status[c] = "unborn" /\ \A t \in Connects : shake[t] # c}

\* The connect future ends with an error that is not Canceled: the request that
\* awaits it drops its checkout, if it has one, and fails.
AttemptFailed(r, out) ==
    IF At(r, "race") THEN [req[r] EXCEPT !.pc = "clean", !.next = "done",
                                         !.own = NoAttemptId, !.out = out]
    ELSE Ends(r, out)

\* ... with Canceled: it awaits the checkout, if it still has one.
AttemptCanceled(r) ==
    IF At(r, "race") THEN [req[r] EXCEPT !.pc = "wait", !.own = NoAttemptId]
    ELSE Ends(r, "canceled")

\* The transport is connected.  When it negotiated HTTP/2, alpn_h2 takes the
\* connecting lock; the attempt is canceled if another one has it.
Established(t, c) ==
    /\ tcp[t].phase = "connected" /\ c \in Unopened
    /\ IF Shared(c) /\ Ver = "Auto" THEN AlpnH2(t) ELSE UNCHANGED vars
    /\ IF Shared(c) /\ Ver = "Auto" /\ ctKey[t] \in connecting
       THEN /\ tcp' = [tcp EXCEPT ![t] = NoAttempt]
            /\ req' = [r \in Requests |-> IF r \in AwaitedBy(t) THEN AttemptCanceled(r)
                                          ELSE req[r]]
            /\ UNCHANGED shake
       ELSE /\ tcp' = [tcp EXCEPT ![t].phase = "handshake"]
            /\ shake' = [shake EXCEPT ![t] = c]
            /\ UNCHANGED req
    /\ UNCHANGED plan

\* The handshake is done and the connection's task said it is ready; it may have
\* closed again since.  pool.pooled, and the connect future is done.
Handshaken(t, s) ==
    /\ tcp[t].phase = "handshake"
    /\ IF Shared(shake[t]) THEN PooledShared(t, shake[t], s) ELSE PooledUnique(t, shake[t], s)
    /\ tcp' = [tcp EXCEPT ![t] = NoAttempt]
    /\ shake' = [shake EXCEPT ![t] = NoConn]
    /\ req' = [r \in Requests |->
                  IF r \notin AwaitedBy(t) THEN req[r]
                  ELSE IF At(r, "race")
                  THEN [Has(r, t, FALSE) EXCEPT !.pc = "clean", !.next = "have"]
                  ELSE Has(r, t, FALSE)]
    /\ UNCHANGED plan

\* The connector failed or panicked, or the handshake fails, or the connection
\* closes before it is ready (which is also how a host that opens no more
\* connections looks).
ConnectFails(t) ==
    /\ \/ tcp[t].phase \in {"failed", "panicked", "handshake"}
       \/ tcp[t].phase = "connected" /\ Unopened = {}
    /\ DropConnecting(t)
    /\ tcp' = [tcp EXCEPT ![t] = NoAttempt]
    /\ shake' = [shake EXCEPT ![t] = NoConn]
    /\ req' = [r \in Requests |->
                  IF r \in AwaitedBy(t)
                  THEN AttemptFailed(r, IF tcp[t].phase = "panicked" THEN "panic" ELSE "connect")
                  ELSE req[r]]
    /\ UNCHANGED plan

\* An attempt that finished in the background drops its Pooled, which puts the
\* connection into the pool.
BackgroundDone(t) ==
    /\ handle[t].st = "held" /\ \A r \in Requests : req[r].via # t
    /\ DropPooled(t)
    /\ UNCHANGED <<plan, req, tcp, shake>>

PutsBack(o) ==
    /\ PutBack(o)
    /\ UNCHANGED <<plan, req, tcp, shake>>

-----------------------------------------------------------------------------
(* send_request, once it has a Pooled.                                     *)

Dropping(r, next, out) == [req[r] EXCEPT !.pc = "drop", !.next = next, !.out = out]

\* ClientError::Canceled in retryably_send_request: the request was given back.
GivenBack(r) == IF plan.retry /\ req[r].reused THEN Dropping(r, "retry", "none")
                ELSE Dropping(r, "done", "unsent")

\* An HTTP/2 request does not go over HTTP/1.
WrongVersion(r) ==
    /\ At(r, "have")
    /\ ~Shared(Conn(r)) /\ plan.reqs[r].version = "2"
    /\ req' = [req EXCEPT ![r] = Dropping(r, "done", "version")]
    /\ UNCHANGED <<vars, plan, tcp, shake>>

\* The target takes its form, and the connection's channel gives the request back
\* if the connection has closed.
Send(r) ==
    /\ At(r, "have")
    /\ Shared(Conn(r)) \/ plan.reqs[r].version # "2"
    /\ IF IsOpen(Conn(r))
       THEN /\ IF Shared(Conn(r)) THEN UNCHANGED vars ELSE Use(req[r].via)
            /\ req' = [req EXCEPT ![r].pc = "sending",
                                  ![r].uri = TargetForm(plan.reqs[r], Conn(r), @)]
       ELSE /\ req' = [req EXCEPT ![r] =
                         [GivenBack(r) EXCEPT !.uri = TargetForm(plan.reqs[r], Conn(r), @)]]
            /\ UNCHANGED vars
    /\ UNCHANGED <<plan, tcp, shake>>

\* The channel, which was found open, takes the request.  When the connection has
\* ended in between, its receiver may have been emptied already: the request is
\* stuck for as long as the channel has a sender, and the Pooled of the request
\* itself is one, on the branch for a closed connection too.
Push(r) ==
    /\ At(r, "sending")
    /\ \E pc \in {"sent"} \cup (IF status[Conn(r)] = "closed" THEN {"stuck"} ELSE {}) :
          req' = [req EXCEPT ![r].pc = pc]
    /\ UNCHANGED <<vars, plan, tcp, shake>>

\* The connection's task takes the request out of the channel.
Start(r) ==
    /\ At(r, "sent") /\ status[Conn(r)] # "closed"
    /\ req' = [req EXCEPT ![r].pc = "started", ![r].starts = @ + 1]
    /\ UNCHANGED <<vars, plan, tcp, shake>>

\* The response: Pooled is dropped now, or by the on_idle task once the
\* connection is ready for another request.
Respond(r) ==
    /\ At(r, "started") /\ status[Conn(r)] # "closed"
    /\ req' = [req EXCEPT ![r].pc = "idle", ![r].out = "response"]
    /\ UNCHANGED <<vars, plan, tcp, shake>>

MutLoses(r) ==
    /\ At(r, "sent") \/ At(r, "started")
    /\ status[Conn(r)] = "closed"
    /\ req' = [req EXCEPT ![r] = GivenBack(r)]
    /\ UNCHANGED <<vars, plan, tcp, shake>>

\* The connection's task ends: a request still in the channel is given back,
\* one that was started gets an error.
Loses(r) ==
    /\ At(r, "sent") \/ At(r, "started")
    /\ status[Conn(r)] = "closed"
    /\ req' = [req EXCEPT ![r] = IF At(r, "sent") THEN GivenBack(r)
                                 ELSE Dropping(r, "done", "broken")]
    /\ UNCHANGED <<vars, plan, tcp, shake>>

\* Pooled is dropped at the end of send_request.
EndSend(r) ==
    /\ At(r, "drop")
    /\ DropPooled(req[r].via)
    /\ req' = [req EXCEPT ![r] = IF @.next = "retry"
                                 THEN [@ EXCEPT !.pc = "retry", !.via = NoAttemptId]
                                 ELSE Ends(r, @.out)]
    /\ UNCHANGED <<plan, tcp, shake>>

\* on_idle: poll_ready resolves, with an error if the connection has closed.
OnIdle(r) ==
    /\ At(r, "idle") /\ status[Conn(r)] # "busy"
    /\ DropPooled(req[r].via)
    /\ req' = [req EXCEPT ![r] = Ends(r, @.out)]
    /\ UNCHANGED <<plan, tcp, shake>>

MutRetry(r) ==
    /\ At(r, "retry")
    /\ Checkout(r, Key)
    /\ req' = [req EXCEPT ![r].pc = "checkout"]
    /\ UNCHANGED <<plan, tcp, shake>>

\* The loop goes round, with the URI as it was given.
Retry(r) ==
    /\ At(r, "retry")
    /\ Checkout(r, Key)
    /\ req' = [req EXCEPT ![r].pc = "checkout", ![r].uri = GivenUri(plan.reqs[r])]
    /\ UNCHANGED <<plan, tcp, shake>>

-----------------------------------------------------------------------------
(* The user drops the ResponseFuture, and with it what it owns.            *)

DropFuture(r) ==
    /\ r \in plan.droppable
    /\ req[r].pc \notin {"new", "sending", "idle", "done", "cancel", "clean", "drop"}
    /\ req' = [req EXCEPT ![r].pc = "cancel", ![r].out = "dropped"]
    /\ UNCHANGED <<vars, plan, tcp, shake>>

\* One after the other: the Checkout in its two halves, the connect future,
\* the Pooled.
Unwind(r) ==
    /\ At(r, "cancel")
    /\ IF co[r] = "dropped" THEN CleanWaiters(r) /\ UNCHANGED <<req, tcp, shake>>
       ELSE IF co[r] # "none" THEN DropCheckout(r) /\ UNCHANGED <<req, tcp, shake>>
       ELSE IF req[r].own # NoAttemptId
       THEN /\ DropConnecting(req[r].own)
            /\ tcp' = [tcp EXCEPT ![req[r].own] = NoAttempt]
            /\ shake' = [shake EXCEPT ![req[r].own] = NoConn]
            /\ req' = [req EXCEPT ![r].own = NoAttemptId]
       ELSE IF req[r].via # NoAttemptId
       THEN /\ DropPooled(req[r].via)
            /\ req' = [req EXCEPT ![r].via = NoAttemptId]
            /\ UNCHANGED <<tcp, shake>>
       ELSE req' = [req EXCEPT ![r] = Ends(r, @.out)] /\ UNCHANGED <<vars, tcp, shake>>
    /\ UNCHANGED plan

-----------------------------------------------------------------------------
(* The connections.                                                        *)

\* An HTTP/1 connection has finished its exchange and wants another request.
ConnIdle(c) ==
    /\ \A r \in Requests : (At(r, "sent") \/ At(r, "started")) => Conn(r) # c
    /\ ConnReady(c)
    /\ UNCHANGED <<plan, req, tcp, shake>>

ConnGone(c) ==
    /\ ConnClosed(c)
    /\ UNCHANGED <<plan, req, tcp, shake>>

RequestStep(r) ==
    \/ Refuse(r) \/ Request(r)
    \/ CheckoutHit(r) \/ CheckoutMiss(r) \/ StartConnect(r)
    \/ CheckoutWins(r) \/ CheckoutFails(r)
    \/ DropLoser(r) \/ CleanLoser(r)
    \/ WrongVersion(r) \/ Send(r) \/ Push(r) \/ Start(r) \/ Respond(r) \/ Loses(r)
    \/ EndSend(r) \/ OnIdle(r) \/ Retry(r) \/ Unwind(r)

\* An attempt is polled by the request that awaits it, or in the background; not
\* by a request whose future is being dropped.
AttemptStep(t) ==
    /\ \A r \in AwaitedBy(t) : ~At(r, "cancel")
    /\ \/ Connecting(t)
       \/ \E c \in Conns : Established(t, c)
       \/ \E s \in {"ready", "closed"} : Handshaken(t, s)
       \/ ConnectFails(t)
       \/ BackgroundDone(t)

CNext ==
    \/ \E r \in Requests : RequestStep(r) \/ DropFuture(r)
    \/ \E t \in Connects : AttemptStep(t)
    \/ \E o \in Owners : PutsBack(o)
    \/ \E c \in Conns : ConnIdle(c) \/ ConnGone(c)

CSpec == CInit /\ [][CNext]_cvars

-----------------------------------------------------------------------------
(* Fairness: the executor polls every task that can make progress, the     *)
(* timers run, the peer answers what it was sent or closes.                *)

CFairness ==
    /\ \A r \in Requests : WF_cvars(RequestStep(r))
    /\ \A t \in Connects : WF_cvars(AttemptStep(t))
    /\ \A o \in Owners : WF_cvars(PutsBack(o))
    /\ \A c \in Conns : WF_cvars(ConnIdle(c))

CFairSpec == CSpec /\ CFairness

-----------------------------------------------------------------------------
(* Properties.                                                             *)

Outs == {"none", "user", "canceled", "unsent", "connect", "panic", "version",
         "response", "broken", "dropped"}

\* The type of the variables of this module.
ClientTypeOK ==
    /\ TypeOK
    /\ plan \in Plans
    /\ req \in [Requests -> [pc : {"new", "checkout", "start", "race", "connecting", "wait",
                                   "clean", "have", "sending", "sent", "stuck", "started",
                                   "idle", "drop", "retry", "cancel", "done"},
                             next : {"done", "have", "retry"},
                             own : Connects \cup {NoAttemptId},
                             via : Owners \cup {NoAttemptId}, reused : BOOLEAN,
                             uri : {"absolute", "authority", "origin"},
                             starts : Nat, out : Outs]]
    /\ shake \in [Connects -> Conns \cup {NoConn}]

\* "unstarted request canceled, trying again": whatever connections close and
\* however often the loop of retryably_send_request goes round, a connection
\* starts on the request at most once, and a request that fails as canceled was
\* never started.
StartedOnce ==
    \A r \in Requests : /\ req[r].starts <= 1
                        /\ req[r].out \in {"canceled", "unsent"} => req[r].starts = 0

\* The target a connection was given has the form that connection needs, also
\* after a first try rewrote the URI for a connection of another kind:
\* authority-form for CONNECT, the full URI for HTTP/2 and for a proxy,
\* origin-form otherwise.
FormFits ==
    \A r \in Requests : (At(r, "sent") \/ At(r, "started")) =>
        req[r].uri = TargetForm(plan.reqs[r], Conn(r), "absolute")

\* While a request has its Pooled, an HTTP/1 connection is nobody else's: two
\* requests are never written to one at the same time, and no request is on its
\* way on a connection that lies idle in the pool.
OneExchange ==
    \A r \in Requests : (req[r].via # NoAttemptId /\ ~Shared(Conn(r))) =>
        /\ ~InIdle(Conn(r)) /\ ~InSlot(Conn(r))
        /\ \A q \in Requests : (req[q].via # NoAttemptId /\ q # r) => Conn(q) # Conn(r)

\* "In both cases, we should just wait for the other future": where no HTTP/2
\* attempt can take the lock, a checkout that is sent a connection which closes
\* before it is polled never makes the request fail.
CheckoutLossHarmless ==
    plan.kinds \cap SharedConns = {} => \A r \in Requests : req[r].out # "canceled"

\* Why an attempt under way may be given up.
GivenUpRightly ==
    \A t \in Connects :
        (tcp[t] # NoAttempt /\ tcp'[t] = NoAttempt)
        => \/ handle'[t].st = "held"
           \/ tcp[t].phase \in {"failed", "panicked", "handshake", "connected"}
           \/ \E r \in AwaitedBy(t) : r \in plan.droppable /\ At(r, "cancel")

\* "let it finish and insert back into the pool, so as to not waste the
\* socket": an attempt under way is only ever given up because it failed, was
\* canceled by another HTTP/2 attempt, or the user dropped the request.
NoWastedConnect == [][GivenUpRightly]_cvars

\* "if we get an error, fallback to the remaining future": the connector fails
\* only when no address of either family could be reached in its turn.
NoFalseConnectError ==
    [][\A t \in Connects :
          (tcp[t].phase = "tcp" /\ tcp'[t].phase = "failed")
          => ~Reachable(plan.cfg, plan.addrs)]_cvars

\* Every request comes to an end: with a response, an error, or dropped.  So
\* does the on_idle task: the connection goes back to the pool or is closed.  Two
\* cases are excluded: a connector that panics, which it does only when it would
\* divide connect_timeout among no addresses, and a request that stays stuck in the
\* channel of a connection that ended while the request was pushed.
RequestEnds ==
    \A r \in Requests :
        (/\ ~At(r, "new") /\ Conclusive(plan.cfg, plan.addrs)
         /\ ~DividesByZero(plan.cfg, plan.addrs))
        ~> ((At(r, "done") /\ req[r].out # "panic") \/ At(r, "stuck"))

=============================================================================
