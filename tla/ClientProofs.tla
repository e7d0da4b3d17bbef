---------------------------- MODULE ClientProofs ----------------------------
(***************************************************************************)
(* Proofs about Client: a client with any number of requests, attempts and *)
(* connections is a user of the pool as module Pool describes it, so that  *)
(* what was proved of the pool holds of it, and what follows for requests; *)
(* and about Connector: when a connection attempt may fail.                *)
(***************************************************************************)
EXTENDS Client, PoolCustodyProofs

PCs == {"new", "checkout", "start", "race", "connecting", "wait", "clean", "have",
        "sending", "sent", "stuck", "started", "idle", "drop", "retry", "cancel", "done"}

Reqs == [pc : PCs, next : {"done", "have", "retry"}, own : Connects \cup {NoAttemptId},
         via : Owners \cup {NoAttemptId}, reused : BOOLEAN,
         uri : {"absolute", "authority", "origin"}, starts : Nat, out : Outs]

\* What is known of a request q by itself, p being what the user asked for.
RecOK(q, p) ==
    /\ q.starts <= 1
    /\ q.pc \notin {"started", "idle", "drop", "cancel", "done"} => q.starts = 0
    /\ q.pc = "drop" /\ q.next = "retry" => q.starts = 0 /\ q.out = "none"
    /\ q.pc \notin {"drop", "done"} => q.out \notin {"canceled", "unsent"}
    /\ q.out \in {"canceled", "unsent"} => q.starts = 0
    /\ q.own # NoAttemptId => q.pc \in {"race", "connecting", "cancel"} /\ q.starts = 0
    /\ q.pc \in {"have", "sending", "sent", "stuck", "started", "idle", "drop"} => q.via \in Owners
    /\ q.pc = "clean" /\ q.next = "have" => q.via \in Owners
    /\ q.pc \in {"checkout", "start", "race", "connecting", "wait", "clean", "have"} =>
          q.uri = "absolute"
    /\ q.pc \notin {"new", "done"} => Acceptable(p)

\* The attempts: one in its handshake has a connection.
AttemptsOK ==
    /\ tcp = [t \in Connects |-> tcp[t]]
    /\ \A t \in Connects : DOMAIN tcp[t] = {"phase", "pref", "fall"}
    /\ shake \in [Connects -> Conns \cup {NoConn}]
    /\ \A t \in Connects : tcp[t].phase = "handshake" => shake[t] \in Conns

\* The Pooled a request has is its own, and so is the attempt it awaits.
LinksOK ==
    /\ \A r \in Requests : req[r].via # NoAttemptId =>
          handle[req[r].via].st = "held" /\ (req[r].via \in Checkouts => req[r].via = r)
    /\ \A r, q \in Requests : req[r].via = req[q].via /\ req[r].via # NoAttemptId => r = q
    /\ \A r \in Requests : req[r].own # NoAttemptId => ct[req[r].own] # "none"
    /\ \A r, q \in Requests : req[r].own = req[q].own /\ req[r].own # NoAttemptId => r = q
    /\ \A t \in Connects : ct[t] # "none" => handle[t] = NoHandle

Fits(q, p, c) == q.pc \in {"sending", "sent", "stuck", "started"} => q.uri = TargetForm(p, c, "absolute")

CInv ==
    /\ plan \in Plans /\ req \in [Requests -> Reqs]
    /\ AttemptsOK /\ LinksOK
    /\ \A r \in Requests :
          /\ RecOK(req[r], plan.reqs[r])
          /\ req[r].pc = "cancel" => r \in plan.droppable
          /\ Fits(req[r], plan.reqs[r], handle[req[r].via].conn)

\* A step that changes request r to q, and of the others neither the request
\* nor what it holds.
LEMMA Change ==
  ASSUME CInv, plan' = plan, NEW r \in Requests, NEW q \in Reqs, req' = [req EXCEPT ![r] = q],
         AttemptsOK', RecOK(q, plan.reqs[r]), q.pc = "cancel" => r \in plan.droppable,
         Fits(q, plan.reqs[r], handle'[q.via].conn),
         \A p \in Requests \ {r} : req[p].via # NoAttemptId =>
             handle'[req[p].via] = handle[req[p].via],
         q.via # NoAttemptId => /\ handle'[q.via].st = "held"
                                /\ q.via \in Checkouts => q.via = r
                                /\ \A p \in Requests \ {r} : req[p].via # q.via,
         \A p \in Requests \ {r} : req[p].own # NoAttemptId => ct'[req[p].own] # "none",
         q.own # NoAttemptId => /\ ct'[q.own] # "none"
                                /\ \A p \in Requests \ {r} : req[p].own # q.own,
         \A t \in Connects : ct'[t] # "none" => handle'[t] = NoHandle
  PROVE  CInv'
<1>1. /\ req' \in [Requests -> Reqs] /\ req'[r] = q
      /\ \A p \in Requests \ {r} : req'[p] = req[p]
  BY DEF CInv
<1>2. LinksOK'
  <2>1. \A p \in Requests : req'[p].via # NoAttemptId =>
          handle'[req'[p].via].st = "held" /\ (req'[p].via \in Checkouts => req'[p].via = p)
    BY <1>1 DEF CInv, LinksOK
  <2>2. \A p, s \in Requests : req'[p].via = req'[s].via /\ req'[p].via # NoAttemptId => p = s
    BY <1>1 DEF CInv, LinksOK
  <2>3. \A p \in Requests : req'[p].own # NoAttemptId => ct'[req'[p].own] # "none"
    BY <1>1 DEF CInv, LinksOK
  <2>4. \A p, s \in Requests : req'[p].own = req'[s].own /\ req'[p].own # NoAttemptId => p = s
    BY <1>1 DEF CInv, LinksOK
  <2> QED
    BY <2>1, <2>2, <2>3, <2>4 DEF LinksOK
<1>3. ASSUME NEW p \in Requests
      PROVE  /\ RecOK(req[p], plan.reqs[p])'
             /\ (req[p].pc = "cancel" => p \in plan.droppable)'
             /\ Fits(req[p], plan.reqs[p], handle[req[p].via].conn)'
  <2>1. CASE p = r
    BY <1>1, <2>1 DEF RecOK, Acceptable, Fits, TargetForm, AbsoluteForm, OriginForm, AuthorityForm
  <2>2. CASE p # r
    <3>1. /\ RecOK(req[p], plan.reqs[p]) /\ (req[p].pc = "cancel" => p \in plan.droppable)
          /\ Fits(req[p], plan.reqs[p], handle[req[p].via].conn)
      BY DEF CInv
    <3>2. req[p].pc \in {"sending", "sent", "stuck", "started"} => req[p].via # NoAttemptId
      BY <3>1, ClientAssumption DEF RecOK
    <3> QED
      BY <1>1, <2>2, <3>1, <3>2 DEF RecOK, Acceptable, Fits, TargetForm, AbsoluteForm, OriginForm, AuthorityForm
  <2> QED
    BY <2>1, <2>2
<1> QED
  BY <1>1, <1>2, <1>3 DEF CInv, Requests

\* A step that changes no request, and nothing a request holds.
LEMMA NoChange ==
  ASSUME CInv, plan' = plan, req' = req, AttemptsOK',
         \A p \in Requests : req[p].via # NoAttemptId => handle'[req[p].via] = handle[req[p].via],
         \A p \in Requests : req[p].own # NoAttemptId => ct'[req[p].own] # "none",
         \A t \in Connects : ct'[t] # "none" => handle'[t] = NoHandle
  PROVE  CInv'
<1>2. LinksOK'
  BY DEF CInv, LinksOK
<1>3. ASSUME NEW p \in Requests
      PROVE  Fits(req[p], plan.reqs[p], handle[req[p].via].conn)'
  <2>1. RecOK(req[p], plan.reqs[p]) /\ Fits(req[p], plan.reqs[p], handle[req[p].via].conn)
    BY DEF CInv
  <2>2. req[p].pc \in {"sending", "sent", "stuck", "started"} => req[p].via # NoAttemptId
    BY <2>1, ClientAssumption DEF RecOK
  <2> QED
    BY <2>1, <2>2 DEF Fits, TargetForm, AbsoluteForm, OriginForm, AuthorityForm
<1> QED
  BY <1>2, <1>3 DEF CInv, RecOK, Acceptable, Requests

\* A step of a request that leaves handles and attempts alone: it keeps what it
\* holds, or lets go of it.
LEMMA Still ==
  ASSUME CInv, UNCHANGED <<plan, handle, ct, tcp, shake>>, NEW r \in Requests, NEW q \in Reqs,
         req' = [req EXCEPT ![r] = q], RecOK(q, plan.reqs[r]),
         q.pc = "cancel" => r \in plan.droppable,
         Fits(q, plan.reqs[r], handle[q.via].conn),
         q.own \in {req[r].own, NoAttemptId}, q.via \in {req[r].via, NoAttemptId}
  PROVE  CInv'
<1>1. AttemptsOK'
  BY DEF CInv, AttemptsOK
<1>2. \A p \in Requests \ {r} : req[p].own # NoAttemptId => ct'[req[p].own] # "none"
  BY DEF CInv, LinksOK
<1>3. q.own # NoAttemptId => /\ ct'[q.own] # "none"
                             /\ \A p \in Requests \ {r} : req[p].own # q.own
  BY DEF CInv, LinksOK
<1>4. q.via # NoAttemptId => /\ handle'[q.via].st = "held"
                             /\ q.via \in Checkouts => q.via = r
                             /\ \A p \in Requests \ {r} : req[p].via # q.via
  BY DEF CInv, LinksOK
<1>5. \A t \in Connects : ct'[t] # "none" => handle'[t] = NoHandle
  BY DEF CInv, LinksOK
<1> QED
  BY <1>1, <1>2, <1>3, <1>4, <1>5, Change

\* What is known of a request and of its plan.
LEMMA Known ==
  ASSUME CInv, NEW r \in Requests
  PROVE  /\ req[r] \in Reqs /\ RecOK(req[r], plan.reqs[r])
         /\ plan.reqs[r] \in [method : {"GET", "CONNECT"}, version : {"1.0", "1.1", "2"},
                              uri : {"absolute", "authority", "origin"}]
         /\ Acceptable(plan.reqs[r]) => GivenUri(plan.reqs[r]) = "absolute"
         /\ req[r].pc = "cancel" => r \in plan.droppable
         /\ Fits(req[r], plan.reqs[r], handle[req[r].via].conn)
<1>1. plan \in Plans
  BY DEF CInv
<1>2. plan.reqs[r] \in [method : {"GET", "CONNECT"}, version : {"1.0", "1.1", "2"},
                        uri : {"absolute", "authority", "origin"}]
  BY <1>1, ClientAssumption DEF Requests
<1>3. Acceptable(plan.reqs[r]) => GivenUri(plan.reqs[r]) = "absolute"
  BY <1>2 DEF Acceptable, GivenUri
<1> QED
  BY <1>2, <1>3 DEF CInv

\* A request that ends has nothing left.
LEMMA EndsFacts ==
  ASSUME CInv, NEW r \in Requests, NEW out \in Outs,
         out \in {"canceled", "unsent"} => req[r].starts = 0
  PROVE  /\ Ends(r, out) \in Reqs /\ RecOK(Ends(r, out), plan.reqs[r])
         /\ Ends(r, out).pc = "done" /\ Ends(r, out).out = out
         /\ Ends(r, out).own = NoAttemptId /\ Ends(r, out).via = NoAttemptId
BY Known, ZenonT(40) DEF Ends, Reqs, PCs, RecOK, Owners

\* The steps of a request before it has a connection, and those of its drop.
LEMMA WaitingSteps ==
  ASSUME CInv, NEW r \in Requests,
         Refuse(r) \/ Request(r) \/ CheckoutMiss(r) \/ CheckoutFails(r) \/ DropLoser(r)
         \/ CleanLoser(r) \/ Retry(r) \/ DropFuture(r)
  PROVE  CInv'
<1>k. req[r] \in Reqs /\ RecOK(req[r], plan.reqs[r])
      /\ (Acceptable(plan.reqs[r]) => GivenUri(plan.reqs[r]) = "absolute")
  BY Known
<1>o. NoAttemptId \notin Owners /\ {"none", "user", "canceled", "dropped"} \subseteq Outs
  BY ClientAssumption DEF Outs
<1>1. CASE Refuse(r)
  <2>1. UNCHANGED <<plan, handle, ct, tcp, shake>> /\ req' = [req EXCEPT ![r] = Ends(r, "user")]
    BY <1>1 DEF Refuse, vars
  <2> QED
    BY <1>o, <2>1, EndsFacts, Still DEF Fits
<1>2. CASE Request(r) \/ Retry(r)
  <2> DEFINE q == [req[r] EXCEPT !.pc = "checkout", !.uri = GivenUri(plan.reqs[r])]
  <2>1. UNCHANGED <<plan, handle, ct, tcp, shake>>
    BY <1>2 DEF Request, Retry, Checkout
  <2>2. req' = [req EXCEPT ![r] = q]
    BY <1>2 DEF Request, Retry, CInv
  <2>3. Acceptable(plan.reqs[r]) /\ req[r].pc \in {"new", "retry"}
    BY <1>2, <1>k DEF Request, Retry, RecOK, At
  <2>4. q \in Reqs /\ RecOK(q, plan.reqs[r]) /\ q.pc = "checkout"
        /\ q.own = req[r].own /\ q.via = req[r].via
    BY <1>k, <2>3 DEF Reqs, PCs, RecOK
  <2> HIDE DEF q
  <2> QED
    BY <2>1, <2>2, <2>4, Still DEF Fits
<1>3. CASE CheckoutMiss(r)
  <2> DEFINE q == [req[r] EXCEPT !.pc = "start"]
  <2>1. UNCHANGED <<plan, handle, ct, tcp, shake>> /\ req[r].pc = "checkout"
    BY <1>3 DEF CheckoutMiss, PollMiss, At
  <2>2. req' = [req EXCEPT ![r] = q]
    BY <1>3 DEF CheckoutMiss, CInv
  <2>3. q \in Reqs /\ RecOK(q, plan.reqs[r]) /\ q.pc = "start"
        /\ q.own = req[r].own /\ q.via = req[r].via
    BY <1>k, <2>1 DEF Reqs, PCs, RecOK
  <2> HIDE DEF q
  <2> QED
    BY <2>1, <2>2, <2>3, Still DEF Fits
<1>4. CASE CheckoutFails(r)
  <2>1. UNCHANGED <<plan, handle, ct, tcp, shake>> /\ req[r].pc \in {"race", "wait"}
    BY <1>4 DEF CheckoutFails, PollReceived, PollCanceled, At
  <2>2. PICK q : /\ req' = [req EXCEPT ![r] = q]
                 /\ \/ q = [req[r] EXCEPT !.pc = "connecting"] /\ req[r].pc = "race"
                    \/ q = [req[r] EXCEPT !.pc = "retry"] /\ req[r].pc = "wait"
                    \/ q = Ends(r, "canceled")
    BY <1>4, <2>1 DEF CheckoutFails, At, CInv
  <2>3. CASE q = Ends(r, "canceled")
    <3>1. req[r].starts = 0
      BY <1>k, <2>1 DEF RecOK
    <3> QED
      BY <1>o, <2>1, <2>2, <2>3, <3>1, EndsFacts, Still DEF Fits
  <2>4. CASE q # Ends(r, "canceled")
    <3>1. q \in Reqs /\ RecOK(q, plan.reqs[r]) /\ q.pc \in {"connecting", "retry"}
          /\ q.own = req[r].own /\ q.via = req[r].via
      BY <1>k, <2>2, <2>4 DEF Reqs, PCs, RecOK
    <3> QED
      BY <2>1, <2>2, <3>1, Still DEF Fits
  <2> QED
    BY <2>3, <2>4
<1>5. CASE DropLoser(r)
  <2>1. UNCHANGED <<plan, handle, ct, tcp, shake, req>>
    BY <1>5 DEF DropLoser, DropCheckout
  <2>2. req' = [req EXCEPT ![r] = req[r]]
    BY <2>1 DEF CInv
  <2> QED
    BY <1>k, <2>1, <2>2, Known, Still
<1>6. CASE CleanLoser(r)
  <2>1. UNCHANGED <<plan, handle, ct, tcp, shake>> /\ req[r].pc = "clean"
    BY <1>6 DEF CleanLoser, CleanWaiters, At
  <2>2. CASE req[r].next = "have"
    <3> DEFINE q == [req[r] EXCEPT !.pc = "have"]
    <3>1. req' = [req EXCEPT ![r] = q]
      BY <1>6, <2>2 DEF CleanLoser, CInv
    <3>2. q \in Reqs /\ RecOK(q, plan.reqs[r]) /\ q.pc = "have"
          /\ q.own = req[r].own /\ q.via = req[r].via
      BY <1>k, <2>1, <2>2 DEF Reqs, PCs, RecOK
    <3> HIDE DEF q
    <3> QED
      BY <2>1, <3>1, <3>2, Still DEF Fits
  <2>3. CASE req[r].next # "have"
    <3>1. req' = [req EXCEPT ![r] = Ends(r, req[r].out)] /\ req[r].out \in Outs /\ req[r].starts = 0
      BY <1>6, <1>k, <2>1, <2>3 DEF CleanLoser, CInv, Reqs, RecOK
    <3> QED
      BY <2>1, <3>1, EndsFacts, Still DEF Fits
  <2> QED
    BY <2>2, <2>3
<1>7. CASE DropFuture(r)
  <2> DEFINE q == [req[r] EXCEPT !.pc = "cancel", !.out = "dropped"]
  <2>1. UNCHANGED <<plan, handle, ct, tcp, shake>> /\ r \in plan.droppable
        /\ req[r].pc \notin {"new", "idle", "done", "cancel", "clean", "drop"}
    BY <1>7 DEF DropFuture, vars
  <2>2. req' = [req EXCEPT ![r] = q]
    BY <1>7 DEF DropFuture, CInv
  <2>3. q \in Reqs /\ RecOK(q, plan.reqs[r]) /\ q.pc = "cancel"
        /\ q.own = req[r].own /\ q.via = req[r].via
    BY <1>k, <1>o, <2>1 DEF Reqs, PCs, RecOK
  <2> HIDE DEF q
  <2> QED
    BY <2>1, <2>2, <2>3, Still DEF Fits
<1> QED
  BY <1>1, <1>2, <1>3, <1>4, <1>5, <1>6, <1>7

\* The steps of a request on a connection, before it lets go of it.
LEMMA SendingSteps ==
  ASSUME CInv, NEW r \in Requests,
         WrongVersion(r) \/ Send(r) \/ Push(r) \/ Start(r) \/ Respond(r) \/ Loses(r)
  PROVE  CInv'
<1>k. req[r] \in Reqs /\ RecOK(req[r], plan.reqs[r])
      /\ Fits(req[r], plan.reqs[r], handle[req[r].via].conn)
  BY Known
<1>o. Outs = {"none", "user", "canceled", "unsent", "connect", "panic", "version",
              "response", "broken", "dropped"}
  BY DEF Outs
<1>u. UNCHANGED <<plan, handle, ct, tcp, shake>>
  BY DEF WrongVersion, Send, Push, Use, Start, Respond, Loses, vars
<1>1. CASE WrongVersion(r)
  <2> DEFINE q == [req[r] EXCEPT !.pc = "drop", !.next = "done", !.out = "version"]
  <2>1. req' = [req EXCEPT ![r] = q] /\ req[r].pc = "have"
    BY <1>1 DEF WrongVersion, Dropping, At
  <2>2. q \in Reqs /\ RecOK(q, plan.reqs[r]) /\ q.pc = "drop"
        /\ q.own = req[r].own /\ q.via = req[r].via
    BY <1>k, <1>o, <2>1 DEF Reqs, PCs, RecOK
  <2> HIDE DEF q
  <2> QED
    BY <1>u, <2>1, <2>2, Still DEF Fits
<1>2. ASSUME NEW u \in {"absolute", "authority", "origin"}, req[r].pc \in {"have", "sent"},
             req' = [req EXCEPT ![r] = [GivenBack(r) EXCEPT !.uri = u]]
      PROVE  CInv'
  <2> DEFINE q == [GivenBack(r) EXCEPT !.uri = u]
  <2>1. q \in Reqs /\ RecOK(q, plan.reqs[r]) /\ q.pc = "drop"
        /\ q.own = req[r].own /\ q.via = req[r].via
    <3>1. PICK n \in {"retry", "done"}, x \in {"none", "unsent"} :
            (n = "retry" => x = "none") /\ q = [req[r] EXCEPT !.pc = "drop", !.next = n, !.out = x, !.uri = u]
      <4>1. CASE plan.retry /\ req[r].reused
        BY <1>k, <4>1 DEF GivenBack, Dropping, Reqs
      <4>2. CASE ~(plan.retry /\ req[r].reused)
        BY <1>k, <4>2 DEF GivenBack, Dropping, Reqs
      <4> QED
        BY <4>1, <4>2
    <3>2. req[r].starts = 0 /\ req[r].own = NoAttemptId /\ req[r].via \in Owners
          /\ Acceptable(plan.reqs[r])
      BY <1>k, <1>2 DEF RecOK
    <3> HIDE DEF q
    <3>3. q \in Reqs /\ q.pc = "drop" /\ q.starts = 0 /\ q.own = req[r].own /\ q.via = req[r].via
          /\ q.next = n /\ q.out = x
      <4>1. "drop" \in PCs /\ n \in {"done", "have", "retry"} /\ x \in Outs /\ 0 \in Nat
        BY <1>o DEF PCs
      <4>2. q \in Reqs
        BY <1>k, <1>2, <3>1, <4>1 DEF Reqs
      <4> QED
        BY <1>k, <3>1, <3>2, <4>2 DEF Reqs
    <3> QED
      BY <3>1, <3>2, <3>3 DEF RecOK
  <2> HIDE DEF q
  <2> QED
    BY <1>u, <1>2, <2>1, Still DEF Fits, q
<1>3. CASE Send(r)
  <2> DEFINE u == TargetForm(plan.reqs[r], Conn(r), req[r].uri)
             q == [req[r] EXCEPT !.pc = "sending", !.uri = u]
  <2>1. req[r].pc = "have" /\ req[r].uri = "absolute"
    BY <1>3, <1>k DEF Send, At, RecOK
  <2>2. u \in {"absolute", "authority", "origin"} /\ u = TargetForm(plan.reqs[r], Conn(r), "absolute")
    BY <2>1 DEF TargetForm, AbsoluteForm, OriginForm, AuthorityForm
  <2>3. CASE IsOpen(Conn(r))
    <3>1. req' = [req EXCEPT ![r] = q]
      BY <1>3, <2>3 DEF Send, CInv
    <3> HIDE DEF u
    <3>2. q \in Reqs /\ RecOK(q, plan.reqs[r]) /\ q.pc = "sending" /\ q.uri = u
          /\ q.own = req[r].own /\ q.via = req[r].via
      BY <1>k, <2>1, <2>2 DEF Reqs, PCs, RecOK
    <3>3. Fits(q, plan.reqs[r], handle[q.via].conn)
      BY <2>2, <3>2 DEF Fits, Conn
    <3> HIDE DEF q
    <3> QED
      BY <1>u, <3>1, <3>2, <3>3, Still
  <2>4. CASE ~IsOpen(Conn(r))
    <3>1. req' = [req EXCEPT ![r] = [GivenBack(r) EXCEPT !.uri = TargetForm(plan.reqs[r], Conn(r), @)]]
      BY <1>3, <2>4 DEF Send
    <3>2. GivenBack(r).uri = req[r].uri
      BY <1>k DEF GivenBack, Dropping, Reqs
    <3>3. req' = [req EXCEPT ![r] = [GivenBack(r) EXCEPT !.uri = u]]
      BY <3>1, <3>2
    <3> HIDE DEF u
    <3> QED
      BY <1>2, <2>1, <2>2, <3>3
  <2> QED
    BY <2>3, <2>4
<1>7. CASE Push(r)
  <2>1. PICK pc \in {"sent", "stuck"} : req' = [req EXCEPT ![r].pc = pc]
    BY <1>7 DEF Push
  <2> DEFINE q == [req[r] EXCEPT !.pc = pc]
  <2>2. req' = [req EXCEPT ![r] = q] /\ req[r].pc = "sending"
    BY <1>7, <2>1 DEF Push, At, CInv
  <2>3. q \in Reqs /\ RecOK(q, plan.reqs[r]) /\ q.pc = pc /\ q.uri = req[r].uri
        /\ q.own = req[r].own /\ q.via = req[r].via
    BY <1>k, <2>2 DEF Reqs, PCs, RecOK
  <2> HIDE DEF q
  <2>4. Fits(q, plan.reqs[r], handle[q.via].conn)
    BY <1>k, <2>2, <2>3 DEF Fits
  <2> QED
    BY <1>u, <2>2, <2>3, <2>4, Still
<1>4. CASE Start(r)
  <2> DEFINE q == [req[r] EXCEPT !.pc = "started", !.starts = req[r].starts + 1]
  <2>1. req' = [req EXCEPT ![r] = q] /\ req[r].pc = "sent"
    BY <1>4 DEF Start, At, CInv
  <2>2. q \in Reqs /\ RecOK(q, plan.reqs[r]) /\ q.pc = "started" /\ q.uri = req[r].uri
        /\ q.own = req[r].own /\ q.via = req[r].via
    <3>1. req[r].starts = 0 /\ req[r].own = NoAttemptId /\ req[r].via \in Owners
          /\ Acceptable(plan.reqs[r]) /\ req[r].out \notin {"canceled", "unsent"}
      BY <1>k, <2>1 DEF RecOK
    <3>2. q \in Reqs /\ q.pc = "started" /\ q.starts = 1 /\ q.own = req[r].own
          /\ q.via = req[r].via /\ q.uri = req[r].uri /\ q.out = req[r].out
      <4>1. q = [req[r] EXCEPT !.pc = "started", !.starts = 1]
        BY <3>1
      <4>2. "started" \in PCs /\ 1 \in Nat
        BY DEF PCs
      <4> HIDE DEF q
      <4> QED
        BY <1>k, <4>1, <4>2 DEF Reqs
    <3> HIDE DEF q
    <3> QED
      BY <3>1, <3>2 DEF RecOK
  <2> HIDE DEF q
  <2>3. Fits(q, plan.reqs[r], handle[q.via].conn)
    BY <1>k, <2>1, <2>2 DEF Fits
  <2> QED
    BY <1>u, <2>1, <2>2, <2>3, Still
<1>5. CASE Respond(r)
  <2> DEFINE q == [req[r] EXCEPT !.pc = "idle", !.out = "response"]
  <2>1. req' = [req EXCEPT ![r] = q] /\ req[r].pc = "started"
    BY <1>5 DEF Respond, At, CInv
  <2>2. q \in Reqs /\ RecOK(q, plan.reqs[r]) /\ q.pc = "idle"
        /\ q.own = req[r].own /\ q.via = req[r].via
    BY <1>k, <1>o, <2>1 DEF Reqs, PCs, RecOK
  <2> HIDE DEF q
  <2> QED
    BY <1>u, <2>1, <2>2, Still DEF Fits
<1>6. CASE Loses(r)
  <2>1. CASE req[r].pc = "sent"
    <3>1. req' = [req EXCEPT ![r] = GivenBack(r)] /\ req[r].uri \in {"absolute", "authority", "origin"}
      BY <1>6, <1>k, <2>1 DEF Loses, At, Reqs
    <3>2. GivenBack(r) = [GivenBack(r) EXCEPT !.uri = req[r].uri]
      BY <1>k DEF GivenBack, Dropping, Reqs
    <3> QED
      BY <1>2, <2>1, <3>1, <3>2
  <2>2. CASE req[r].pc # "sent"
    <3> DEFINE q == [req[r] EXCEPT !.pc = "drop", !.next = "done", !.out = "broken"]
    <3>1. req' = [req EXCEPT ![r] = q] /\ req[r].pc = "started"
      BY <1>6, <2>2 DEF Loses, Dropping, At
    <3>2. q \in Reqs /\ RecOK(q, plan.reqs[r]) /\ q.pc = "drop"
          /\ q.own = req[r].own /\ q.via = req[r].via
      BY <1>k, <1>o, <3>1 DEF Reqs, PCs, RecOK
    <3> HIDE DEF q
    <3> QED
      BY <1>u, <3>1, <3>2, Still DEF Fits
  <2> QED
    BY <2>1, <2>2
<1> QED
  BY <1>1, <1>3, <1>4, <1>5, <1>6, <1>7

\* A request that leaves connection_for with the Pooled of o.
LEMMA HasFacts ==
  ASSUME CInv, NEW r \in Requests, NEW o \in Owners, NEW b \in BOOLEAN,
         req[r].pc \in {"checkout", "start", "race", "connecting", "wait"}
  PROVE  /\ Has(r, o, b) \in Reqs /\ RecOK(Has(r, o, b), plan.reqs[r])
         /\ Has(r, o, b).pc = "have" /\ Has(r, o, b).own = NoAttemptId /\ Has(r, o, b).via = o
         /\ req[r].starts = 0 /\ req[r].uri = "absolute"
         /\ req[r].out \notin {"canceled", "unsent"} /\ Acceptable(plan.reqs[r])
<1> DEFINE q == Has(r, o, b)
<1>1. /\ req[r] \in Reqs /\ req[r].starts = 0 /\ req[r].uri = "absolute" /\ Acceptable(plan.reqs[r])
      /\ req[r].out \notin {"canceled", "unsent"}
  BY Known DEF RecOK
<1>2. "have" \in PCs
  BY DEF PCs
<1>3. q \in Reqs
  BY <1>1, <1>2 DEF Has, Reqs
<1>4. /\ q.pc = "have" /\ q.own = NoAttemptId /\ q.via = o /\ q.starts = 0 /\ q.uri = "absolute"
      /\ q.out = req[r].out
  BY <1>1 DEF Has, Reqs
<1> HIDE DEF q
<1>5. RecOK(q, plan.reqs[r])
  BY <1>1, <1>4 DEF RecOK
<1> QED
  BY <1>1, <1>3, <1>4, <1>5 DEF q

\* The checkout is served.
LEMMA ServedSteps ==
  ASSUME TypeOK, CInv, NEW r \in Requests, CheckoutHit(r) \/ CheckoutWins(r)
  PROVE  CInv'
<1> DEFINE q == Has(r, r, TRUE)
<1>1. PICK h : h.st = "held" /\ handle' = [handle EXCEPT ![r] = h]
  BY DEF CheckoutHit, PollHit, CheckoutWins, PollReceived
<1>2. /\ UNCHANGED <<plan, ct, tcp, shake>> /\ req' = [req EXCEPT ![r] = q]
      /\ req[r].pc \in {"checkout", "race", "wait"}
  BY DEF CheckoutHit, PollHit, CheckoutWins, PollReceived, At
<1>3. r \in Owners /\ r \notin Connects /\ r # NoAttemptId
  BY PoolAssumption, ClientAssumption DEF Owners, Requests
<1>4. handle'[r] = h /\ \A o \in Owners \ {r} : handle'[o] = handle[o]
  BY <1>1, <1>3 DEF TypeOK
<1>5. /\ q \in Reqs /\ RecOK(q, plan.reqs[r]) /\ q.pc = "have" /\ q.own = NoAttemptId /\ q.via = r
  BY <1>2, <1>3, HasFacts, ZenonT(40)
<1> HIDE DEF q
<1>6. ASSUME NEW p \in Requests \ {r}, req[p].via # NoAttemptId
      PROVE  handle'[req[p].via] = handle[req[p].via] /\ req[p].via # r
  <2>1. req[p].via \in Owners /\ (req[p].via \in Checkouts => req[p].via = p)
    BY <1>6, Known DEF Reqs, CInv, LinksOK
  <2> QED
    BY <1>4, <1>6, <2>1 DEF Requests
<1>7. AttemptsOK'
  BY <1>2 DEF CInv, AttemptsOK
<1>8. \A t \in Connects : ct'[t] # "none" => handle'[t] = NoHandle
  BY <1>2, <1>3, <1>4 DEF CInv, LinksOK, Owners
<1>9. \A p \in Requests \ {r} : req[p].own # NoAttemptId => ct'[req[p].own] # "none"
  BY <1>2 DEF CInv, LinksOK
<1>10. \A p \in Requests \ {r} : req[p].via # NoAttemptId => handle'[req[p].via] = handle[req[p].via]
  BY <1>6
<1>11. \A p \in Requests \ {r} : req[p].via # r
  BY <1>3, <1>6
<1> QED
  <2>1. /\ Fits(q, plan.reqs[r], handle'[q.via].conn)
        /\ q.via # NoAttemptId => /\ handle'[q.via].st = "held" /\ (q.via \in Checkouts => q.via = r)
                                  /\ \A p \in Requests \ {r} : req[p].via # q.via
    BY <1>1, <1>4, <1>5, <1>11 DEF Fits
  <2> QED
    BY <1>2, <1>5, <1>7, <1>8, <1>9, <1>10, <2>1, Change

\* A request lets go of its Pooled.
LEMMA Releases ==
  ASSUME TypeOK, CInv, NEW r \in Requests, req[r].via \in Owners, DropPooled(req[r].via),
         UNCHANGED <<plan, tcp, shake>>, NEW q \in Reqs, req' = [req EXCEPT ![r] = q],
         RecOK(q, plan.reqs[r]), q.pc \notin {"sending", "sent", "stuck", "started"},
         q.pc = "cancel" => r \in plan.droppable,
         q.via = NoAttemptId, q.own \in {req[r].own, NoAttemptId}
  PROVE  CInv'
<1>1. ct' = ct /\ \A o \in Owners \ {req[r].via} : handle'[o] = handle[o]
  BY DEF DropPooled, TypeOK
<1>2. \A p \in Requests \ {r} : req[p].via # NoAttemptId => handle'[req[p].via] = handle[req[p].via]
  <2>1. ASSUME NEW p \in Requests \ {r}, req[p].via # NoAttemptId
        PROVE  req[p].via \in Owners /\ req[p].via # req[r].via
    BY <2>1, Known DEF CInv, LinksOK, Reqs
  <2> QED
    BY <1>1, <2>1
<1>3. AttemptsOK'
  BY DEF CInv, AttemptsOK
<1>4. \A t \in Connects : ct'[t] # "none" => handle'[t] = NoHandle
  <2>1. ASSUME NEW t \in Connects, ct'[t] # "none" PROVE handle'[t] = NoHandle
    <3>1. handle[t] = NoHandle /\ handle[req[r].via].st = "held"
      BY <1>1, <2>1, ClientAssumption DEF CInv, LinksOK
    <3>2. t # req[r].via /\ t \in Owners
      BY <3>1 DEF NoHandle, Owners
    <3> QED
      BY <1>1, <3>1, <3>2
  <2> QED
    BY <2>1
<1>5. \A p \in Requests \ {r} : req[p].own # NoAttemptId => ct'[req[p].own] # "none"
  BY <1>1 DEF CInv, LinksOK
<1>6. q.own # NoAttemptId => /\ ct'[q.own] # "none"
                             /\ \A p \in Requests \ {r} : req[p].own # q.own
  BY <1>1 DEF CInv, LinksOK
<1> QED
  BY <1>2, <1>3, <1>4, <1>5, <1>6, Change DEF Fits

\* send_request ends, or the on_idle task does.
LEMMA ReleaseSteps ==
  ASSUME TypeOK, CInv, NEW r \in Requests, EndSend(r) \/ OnIdle(r)
  PROVE  CInv'
<1>1. req[r] \in Reqs /\ RecOK(req[r], plan.reqs[r])
  BY Known
<1>2. UNCHANGED <<plan, tcp, shake>> /\ DropPooled(req[r].via) /\ req[r].pc \in {"drop", "idle"}
      /\ req[r].via \in Owners
  BY <1>1 DEF EndSend, OnIdle, At, RecOK
<1>3. CASE req' = [req EXCEPT ![r] = Ends(r, req[r].out)]
  <2>1. /\ Ends(r, req[r].out) \in Reqs /\ RecOK(Ends(r, req[r].out), plan.reqs[r])
        /\ Ends(r, req[r].out).pc = "done" /\ Ends(r, req[r].out).via = NoAttemptId
        /\ Ends(r, req[r].out).own = NoAttemptId
    <3>1. req[r].out \in Outs /\ (req[r].out \in {"canceled", "unsent"} => req[r].starts = 0)
      BY <1>1 DEF Reqs, RecOK
    <3> QED
      BY <3>1, EndsFacts
  <2> QED
    BY <1>2, <1>3, <2>1, Releases
<1>4. CASE req' # [req EXCEPT ![r] = Ends(r, req[r].out)]
  <2> DEFINE q == [req[r] EXCEPT !.pc = "retry", !.via = NoAttemptId]
  <2>1. req[r].pc = "drop" /\ req[r].next = "retry" /\ req' = [req EXCEPT ![r] = q]
    BY <1>4 DEF EndSend, OnIdle, At, CInv
  <2>2. "retry" \in PCs
    BY DEF PCs
  <2>3. q \in Reqs
    BY <1>1, <2>2 DEF Reqs
  <2>4. /\ q.pc = "retry" /\ q.via = NoAttemptId /\ q.own = req[r].own /\ q.starts = req[r].starts
        /\ q.out = req[r].out
    BY <1>1 DEF Reqs
  <2> HIDE DEF q
  <2>5. RecOK(q, plan.reqs[r])
    BY <1>1, <2>1, <2>4 DEF RecOK
  <2> QED
    BY <1>2, <2>1, <2>3, <2>4, <2>5, Releases
<1> QED
  BY <1>3, <1>4

\* A step of the connector leads to an attempt under way or one that is over.
LEMMA ConnectorFacts ==
  ASSUME CInv, NEW t \in Connects, NEW a \in ConnectorSteps(t)
  PROVE  /\ DOMAIN a = {"phase", "pref", "fall"}
         /\ a.phase \in {"resolve", "tcp", "connected", "failed", "panicked"}
<1> DEFINE k == tcp[t]
           Good(x) == /\ DOMAIN x = {"phase", "pref", "fall"}
                      /\ x.phase \in {"resolve", "tcp", "connected", "failed", "panicked"}
<1>1. DOMAIN k = {"phase", "pref", "fall"}
  BY DEF CInv, AttemptsOK
<1>2. Good(Failed) /\ Good(Connected) /\ Good(Panicked) /\ Good([NoAttempt EXCEPT !.phase = "resolve"])
  BY DEF Failed, Connected, Panicked, NoAttempt
<1>3. \A cfg, addrs : Good(ConnectingTcp(cfg, addrs))
  BY <1>2 DEF ConnectingTcp
<1> HIDE DEF k
<1>4. ASSUME k.phase = "tcp", NEW cfg, a \in TcpSteps(cfg, k) PROVE Good(a)
  <2>1. CASE a = DelayOver(k)
    BY <1>1, <1>4, <2>1 DEF DelayOver
  <2>2. ASSUME NEW side \in {"pref", "fall"}, NEW o, a = TcpTurn(k, side, o) PROVE Good(a)
    <3>1. a \in {Connected, [k EXCEPT ![side].left = Tail(@)],
                 RemoteFailed(k, side, IF side = "pref" THEN "fall" ELSE "pref")}
      BY <2>2 DEF TcpTurn
    <3>2. Good([k EXCEPT ![side].left = Tail(@)])
      BY <1>1, <1>4
    <3>3. Good(RemoteFailed(k, side, IF side = "pref" THEN "fall" ELSE "pref"))
      BY <1>1, <1>2, <1>4 DEF RemoteFailed
    <3> QED
      BY <1>2, <3>1, <3>2, <3>3
  <2>3. a = DelayOver(k) \/ \E side \in {"pref", "fall"} : \E o : a = TcpTurn(k, side, o)
    <3> DEFINE Turns == UNION {{TcpTurn(k, side, o) : o \in RemoteOutcomes(cfg, k[side])} :
                                  side \in {s \in {"pref", "fall"} : k[s].st = "running"}}
               Over == IF k.fall.st = "delayed" THEN {DelayOver(k)} ELSE {}
    <3>1. a \in Turns \cup Over
      BY <1>4, Zenon DEF TcpSteps
    <3>2. a \in Over => a = DelayOver(k)
      OBVIOUS
    <3>3. ASSUME a \in Turns PROVE \E side \in {"pref", "fall"} : \E o : a = TcpTurn(k, side, o)
      <4>1. PICK side \in {s \in {"pref", "fall"} : k[s].st = "running"} :
              a \in {TcpTurn(k, side, o) : o \in RemoteOutcomes(cfg, k[side])}
        BY <3>3
      <4> QED
        BY <4>1, Zenon
    <3> QED
      BY <3>1, <3>2, <3>3
  <2> HIDE DEF Good
  <2> QED
    BY <2>1, <2>2, <2>3
<1>5. \/ a \in {CallAsync(plan.cfg, plan.scheme, plan.lookup = "literal", plan.addrs,
                         plan.lookup # "unready")}
      \/ a \in {Resolved(plan.cfg, plan.addrs, plan.lookup # "fails")}
      \/ k.phase = "tcp" /\ a \in TcpSteps(plan.cfg, k)
  BY DEF ConnectorSteps, k
<1> QED
  BY <1>2, <1>3, <1>4, <1>5 DEF CallAsync, Resolved

\* Setting one attempt.
LEMMA SetAttempt ==
  ASSUME AttemptsOK, NEW t \in Connects, NEW a, DOMAIN a = {"phase", "pref", "fall"},
         NEW s \in Conns \cup {NoConn}, a.phase = "handshake" => s \in Conns,
         tcp' = [tcp EXCEPT ![t] = a], shake' = [shake EXCEPT ![t] = s]
  PROVE  AttemptsOK'
BY DEF AttemptsOK

\* An attempt is awaited by one request at most, and that one has not started.
LEMMA Awaits ==
  ASSUME CInv, NEW t \in Connects
  PROVE  \/ AwaitedBy(t) = {}
         \/ \E r \in Requests : AwaitedBy(t) = {r} /\ req[r].own = t
BY ClientAssumption DEF CInv, LinksOK, AwaitedBy, Owners

\* An attempt is over: whoever awaited it goes on, perhaps with its Pooled.
LEMMA AttemptOver ==
  ASSUME TypeOK, CInv, NEW t \in Connects, ct[t] # "none", ct' = [ct EXCEPT ![t] = "none"],
         plan' = plan, AttemptsOK', \A o \in Owners \ {t} : handle'[o] = handle[o],
         req' = [r \in Requests |-> req'[r]],
         \A r \in Requests \ AwaitedBy(t) : req'[r] = req[r],
         \A r \in AwaitedBy(t) :
             /\ req'[r] \in Reqs /\ RecOK(req'[r], plan.reqs[r])
             /\ req'[r].own = NoAttemptId /\ req'[r].pc \notin {"sending", "sent", "stuck", "started"}
             /\ req'[r].pc = "cancel" => r \in plan.droppable
             /\ \/ req'[r].via \in {req[r].via, NoAttemptId}
                \/ req'[r].via = t /\ handle'[t].st = "held"
  PROVE  CInv'
<1>1. ASSUME NEW p \in Requests, req[p].via # NoAttemptId
      PROVE  req[p].via \in Owners \ {t} /\ handle[req[p].via].st = "held"
             /\ (req[p].via \in Checkouts => req[p].via = p)
  <2>1. req[p].via \in Owners /\ handle[req[p].via].st = "held"
        /\ (req[p].via \in Checkouts => req[p].via = p)
    BY <1>1, Known DEF CInv, LinksOK, Reqs
  <2>2. handle[t] = NoHandle
    BY DEF CInv, LinksOK
  <2> QED
    BY <2>1, <2>2 DEF NoHandle
<1>2. /\ ct'[t] = "none" /\ \A u \in Connects \ {t} : ct'[u] = ct[u]
  BY DEF TypeOK
<1>3. \A u \in Connects : ct'[u] # "none" => handle'[u] = NoHandle
  BY <1>2 DEF CInv, LinksOK, Owners
<1>4. \A p \in Requests : req[p].via # NoAttemptId => handle'[req[p].via] = handle[req[p].via]
  BY <1>1
<1>5. CASE AwaitedBy(t) = {}
  <2>1. req' = req
    BY <1>5 DEF CInv
  <2>2. \A p \in Requests : req[p].own # NoAttemptId => ct'[req[p].own] # "none"
    <3>1. ASSUME NEW p \in Requests, req[p].own # NoAttemptId PROVE ct'[req[p].own] # "none"
      <4>1. req[p].own \in Connects \ {t} /\ ct[req[p].own] # "none"
        BY <1>5, <3>1, Known DEF AwaitedBy, CInv, LinksOK, Reqs
      <4> QED
        BY <1>2, <4>1
    <3> QED
      BY <3>1
  <2> QED
    BY <1>3, <1>4, <2>1, <2>2, NoChange
<1>6. ASSUME NEW r \in Requests, AwaitedBy(t) = {r}, req[r].own = t PROVE CInv'
  <2> DEFINE q == req'[r]
  <2>1. /\ q \in Reqs /\ RecOK(q, plan.reqs[r]) /\ q.own = NoAttemptId
        /\ q.pc \notin {"sending", "sent", "stuck", "started"} /\ (q.pc = "cancel" => r \in plan.droppable)
        /\ \/ q.via \in {req[r].via, NoAttemptId}
           \/ q.via = t /\ handle'[t].st = "held"
    BY <1>6
  <2>2. req' = [req EXCEPT ![r] = q]
    BY <1>6 DEF CInv
  <2> HIDE DEF q
  <2>3. ASSUME NEW p \in Requests \ {r}, req[p].own # NoAttemptId PROVE ct'[req[p].own] # "none"
    <3>1. req[p].own \in Connects \ {t} /\ ct[req[p].own] # "none"
      BY <1>6, <2>3, Known DEF AwaitedBy, CInv, LinksOK, Reqs
    <3> QED
      BY <1>2, <3>1
  <2>4. ASSUME q.via # NoAttemptId
        PROVE  handle'[q.via].st = "held" /\ (q.via \in Checkouts => q.via = r)
               /\ \A p \in Requests \ {r} : req[p].via # q.via
    <3>1. CASE q.via = req[r].via
      <4>1. handle'[q.via].st = "held" /\ (q.via \in Checkouts => q.via = r)
        BY <1>1, <1>4, <2>4, <3>1
      <4>2. \A p \in Requests \ {r} : req[p].via # q.via
        BY <2>4, <3>1 DEF CInv, LinksOK
      <4> QED
        BY <4>1, <4>2
    <3>2. CASE q.via = t /\ handle'[t].st = "held"
      BY <1>1, <2>4, <3>2, PoolAssumption
    <3> QED
      BY <2>1, <2>4, <3>1, <3>2
  <2>5. Fits(q, plan.reqs[r], handle'[q.via].conn)
    BY <2>1 DEF Fits
  <2>6. \A p \in Requests \ {r} : req[p].own # NoAttemptId => ct'[req[p].own] # "none"
    BY <2>3
  <2> QED
    BY <1>3, <1>4, <2>1, <2>2, <2>4, <2>5, <2>6, Change
<1> QED
  BY <1>5, <1>6, Awaits

\* NoAttempt is a state of an attempt.
LEMMA NoAttemptFacts ==
  DOMAIN NoAttempt = {"phase", "pref", "fall"} /\ NoAttempt.phase = "none"
BY DEF NoAttempt

\* A request starts its attempt, or is told that another one is under way.
LEMMA StartStep ==
  ASSUME TypeOK, CInv, NEW r \in Requests, StartConnect(r)
  PROVE  CInv'
<1>k. req[r] \in Reqs /\ RecOK(req[r], plan.reqs[r]) /\ req[r].pc = "start"
  BY Known DEF StartConnect, At
<1>p. {"wait", "race"} \subseteq PCs
  BY DEF PCs
<1>1. CASE Ver = "Http2" /\ Key \in connecting
  <2> DEFINE q == [req[r] EXCEPT !.pc = "wait"]
  <2>1. UNCHANGED <<plan, handle, ct, tcp, shake>> /\ req' = [req EXCEPT ![r] = q]
    BY <1>1 DEF StartConnect, vars, CInv
  <2>2. q \in Reqs /\ RecOK(q, plan.reqs[r]) /\ q.pc = "wait" /\ q.own = req[r].own /\ q.via = req[r].via
    BY <1>k, <1>p DEF Reqs, RecOK
  <2> HIDE DEF q
  <2> QED
    BY <2>1, <2>2, Still DEF Fits
<1>2. CASE ~(Ver = "Http2" /\ Key \in connecting)
  <2>1. PICK t \in Free :
          /\ IF Ver = "Auto" THEN ConnectAuto(t, Key) ELSE ConnectHttp2(t, Key)
          /\ req' = [req EXCEPT ![r].pc = "race", ![r].own = t]
          /\ tcp' = [tcp EXCEPT ![t] = NewAttempt]
          /\ UNCHANGED <<plan, shake>>
    <3>1. (CHOOSE u \in Free : TRUE) \in Free
      BY <1>2 DEF StartConnect
    <3> QED
      BY <1>2, <3>1 DEF StartConnect
  <2> DEFINE q == [req[r] EXCEPT !.pc = "race", !.own = t]
  <2>2. t \in Connects /\ ct[t] = "none" /\ handle[t] = NoHandle /\ t # NoAttemptId
    BY <2>1, ClientAssumption DEF Free, Owners
  <2>3. handle' = handle /\ ct'[t] # "none" /\ \A u \in Connects \ {t} : ct'[u] = ct[u]
    BY <2>1, <2>2 DEF ConnectAuto, ConnectHttp2, TypeOK
  <2>4. req' = [req EXCEPT ![r] = q]
    BY <2>1 DEF CInv
  <2>5. AttemptsOK'
    <3>1. DOMAIN NewAttempt = {"phase", "pref", "fall"} /\ NewAttempt.phase = "ready"
      BY DEF NewAttempt, NoAttempt
    <3>2. AttemptsOK /\ shake[t] \in Conns \cup {NoConn} /\ shake' = [shake EXCEPT ![t] = shake[t]]
      BY <2>1, <2>2 DEF CInv, AttemptsOK
    <3> QED
      BY <2>1, <2>2, <3>1, <3>2, SetAttempt
  <2>6. q \in Reqs /\ RecOK(q, plan.reqs[r]) /\ q.pc = "race" /\ q.own = t /\ q.via = req[r].via
    <3>1. q \in Reqs
      BY <1>k, <1>p, <2>2 DEF Reqs
    <3>2. /\ q.pc = "race" /\ q.own = t /\ q.via = req[r].via /\ q.starts = req[r].starts
          /\ q.out = req[r].out /\ q.uri = req[r].uri
      BY <1>k DEF Reqs
    <3> HIDE DEF q
    <3> QED
      BY <1>k, <3>1, <3>2 DEF RecOK
  <2> HIDE DEF q
  <2>7. \A u \in Connects : ct'[u] # "none" => handle'[u] = NoHandle
    BY <2>2, <2>3 DEF CInv, LinksOK
  <2>8. ASSUME NEW p \in Requests, req[p].own # NoAttemptId
        PROVE  ct'[req[p].own] # "none" /\ req[p].own # t
    <3>1. req[p].own \in Connects /\ ct[req[p].own] # "none"
      BY <2>8, Known DEF CInv, LinksOK, Reqs
    <3> QED
      BY <2>2, <2>3, <3>1
  <2>9. q.via # NoAttemptId => /\ handle'[q.via].st = "held"
                               /\ q.via \in Checkouts => q.via = r
                               /\ \A p \in Requests \ {r} : req[p].via # q.via
    BY <2>3, <2>6 DEF CInv, LinksOK
  <2>10. /\ Fits(q, plan.reqs[r], handle'[q.via].conn)
         /\ ct'[q.own] # "none" /\ \A p \in Requests \ {r} : req[p].own # q.own
    BY <2>2, <2>3, <2>6, <2>8 DEF Fits
  <2>11. \A p \in Requests \ {r} : req[p].own # NoAttemptId => ct'[req[p].own] # "none"
    BY <2>8
  <2> QED
    BY <2>1, <2>3, <2>4, <2>5, <2>6, <2>7, <2>9, <2>10, <2>11, Change
<1> QED
  BY <1>1, <1>2

\* The connector goes on, the transport is connected, the handshake ends, the
\* attempt fails.
LEMMA AttemptSteps ==
  ASSUME TypeOK, CInv, NEW t \in Connects, AttemptStep(t)
  PROVE  CInv'
<1>a. AttemptsOK /\ NoAttemptId \notin Owners /\ NoConn \in Conns \cup {NoConn}
  BY ClientAssumption DEF CInv
<1>w. ASSUME NEW r \in AwaitedBy(t)
      PROVE  /\ r \in Requests /\ req[r].own = t /\ req[r].pc \in {"race", "connecting"}
             /\ req[r] \in Reqs /\ RecOK(req[r], plan.reqs[r]) /\ req[r].starts = 0
  <2>1. r \in Requests /\ req[r].own = t /\ t # NoAttemptId /\ req[r].pc # "cancel"
    BY <1>a, <1>w DEF AwaitedBy, AttemptStep, At, Owners
  <2> QED
    BY <2>1, Known DEF RecOK
<1>1. CASE Connecting(t)
  <2>1. PICK a \in ConnectorSteps(t) : tcp' = [tcp EXCEPT ![t] = a] /\ UNCHANGED <<vars, plan, req, shake>>
    BY <1>1 DEF Connecting
  <2>2. DOMAIN a = {"phase", "pref", "fall"} /\ a.phase # "handshake"
    BY ConnectorFacts
  <2>3. AttemptsOK'
    <3>1. shake[t] \in Conns \cup {NoConn} /\ shake' = [shake EXCEPT ![t] = shake[t]]
      BY <1>a, <2>1 DEF AttemptsOK
    <3> QED
      BY <1>a, <2>1, <2>2, <3>1, SetAttempt
  <2> QED
    BY <2>1, <2>3, NoChange DEF vars, CInv, LinksOK
<1>2. ASSUME NEW c \in Conns, Established(t, c) PROVE CInv'
  <2>1. CASE Shared(c) /\ Ver = "Auto" /\ ctKey[t] \in connecting
    <3>1. /\ AlpnH2(t) /\ tcp' = [tcp EXCEPT ![t] = NoAttempt] /\ shake' = shake /\ plan' = plan
          /\ req' = [r \in Requests |-> IF r \in AwaitedBy(t) THEN AttemptCanceled(r) ELSE req[r]]
      BY <1>2, <2>1 DEF Established
    <3>2. AttemptsOK'
      <4>1. shake[t] \in Conns \cup {NoConn} /\ shake' = [shake EXCEPT ![t] = shake[t]]
        BY <1>a, <3>1 DEF AttemptsOK
      <4> QED
        BY <1>a, <3>1, <4>1, NoAttemptFacts, SetAttempt
    <3>3. ASSUME NEW r \in AwaitedBy(t)
          PROVE  /\ AttemptCanceled(r) \in Reqs /\ RecOK(AttemptCanceled(r), plan.reqs[r])
                 /\ AttemptCanceled(r).own = NoAttemptId
                 /\ AttemptCanceled(r).pc \in {"wait", "done"}
                 /\ AttemptCanceled(r).via \in {req[r].via, NoAttemptId}
      <4>1. CASE req[r].pc = "race"
        <5> DEFINE q == [req[r] EXCEPT !.pc = "wait", !.own = NoAttemptId]
        <5>1. AttemptCanceled(r) = q
          BY <4>1 DEF AttemptCanceled, At
        <5>2. q \in Reqs
          BY <1>w DEF Reqs, PCs
        <5>3. /\ q.pc = "wait" /\ q.own = NoAttemptId /\ q.via = req[r].via
              /\ q.starts = req[r].starts /\ q.out = req[r].out /\ q.uri = req[r].uri
          BY <1>w DEF Reqs
        <5> HIDE DEF q
        <5>4. RecOK(q, plan.reqs[r])
          BY <1>w, <4>1, <5>3 DEF RecOK
        <5> QED
          BY <5>1, <5>2, <5>3, <5>4
      <4>2. CASE req[r].pc # "race"
        <5>1. AttemptCanceled(r) = Ends(r, "canceled") /\ "canceled" \in Outs
          BY <4>2 DEF AttemptCanceled, At, Outs
        <5> QED
          BY <1>w, <5>1, EndsFacts
      <4> QED
        BY <4>1, <4>2
    <3>4. \A r \in Requests : req'[r] = IF r \in AwaitedBy(t) THEN AttemptCanceled(r) ELSE req[r]
      BY <3>1
    <3>5. req' = [r \in Requests |-> req'[r]]
      BY <3>1
    <3>6. ct[t] # "none" /\ ct' = [ct EXCEPT ![t] = "none"] /\ handle' = handle
      BY <2>1, <3>1 DEF AlpnH2
    <3>7. \A r \in Requests \ AwaitedBy(t) : req'[r] = req[r]
      BY <3>4
    <3>8. \A r \in AwaitedBy(t) :
             /\ req'[r] \in Reqs /\ RecOK(req'[r], plan.reqs[r])
             /\ req'[r].own = NoAttemptId /\ req'[r].pc \notin {"sending", "sent", "stuck", "started"}
             /\ req'[r].pc # "cancel" /\ req'[r].via \in {req[r].via, NoAttemptId}
      BY <3>3, <3>4, <1>w
    <3> QED
      BY <3>1, <3>2, <3>5, <3>6, <3>7, <3>8, AttemptOver
  <2>2. CASE ~(Shared(c) /\ Ver = "Auto" /\ ctKey[t] \in connecting)
    <3>1. /\ tcp' = [tcp EXCEPT ![t].phase = "handshake"] /\ shake' = [shake EXCEPT ![t] = c]
          /\ UNCHANGED <<plan, req>>
      BY <1>2, <2>2 DEF Established
    <3>2. handle' = handle /\ \A u \in Connects : ct'[u] = "none" <=> ct[u] = "none"
      BY <1>2, <2>2 DEF Established, AlpnH2, vars, TypeOK
    <3>3. AttemptsOK'
      <4> DEFINE a == [tcp[t] EXCEPT !.phase = "handshake"]
      <4>1. tcp' = [tcp EXCEPT ![t] = a] /\ DOMAIN a = {"phase", "pref", "fall"}
        BY <1>a, <3>1 DEF AttemptsOK
      <4> HIDE DEF a
      <4> QED
        BY <1>a, <3>1, <4>1, SetAttempt
    <3>4. \A p \in Requests : req[p].own # NoAttemptId => ct'[req[p].own] # "none"
      <4>1. ASSUME NEW p \in Requests, req[p].own # NoAttemptId PROVE ct'[req[p].own] # "none"
        <5>1. req[p].own \in Connects /\ ct[req[p].own] # "none"
          BY <4>1, Known DEF CInv, LinksOK, Reqs
        <5> QED
          BY <3>2, <5>1
      <4> QED
        BY <4>1
    <3>5. \A u \in Connects : ct'[u] # "none" => handle'[u] = NoHandle
      BY <3>2 DEF CInv, LinksOK
    <3> QED
      BY <3>1, <3>2, <3>3, <3>4, <3>5, NoChange
  <2> QED
    BY <2>1, <2>2
<1>3. ASSUME NEW s \in {"ready", "closed"}, Handshaken(t, s) PROVE CInv'
  <2>1. /\ tcp' = [tcp EXCEPT ![t] = NoAttempt] /\ shake' = [shake EXCEPT ![t] = NoConn] /\ plan' = plan
        /\ req' = [r \in Requests |->
                     IF r \notin AwaitedBy(t) THEN req[r]
                     ELSE IF req[r].pc = "race"
                     THEN [Has(r, t, FALSE) EXCEPT !.pc = "clean", !.next = "have"]
                     ELSE Has(r, t, FALSE)]
    BY <1>3 DEF Handshaken, At
  <2>2. /\ ct[t] # "none" /\ ct' = [ct EXCEPT ![t] = "none"] /\ t \in Owners
        /\ \E h : h.st = "held" /\ handle' = [handle EXCEPT ![t] = h]
    BY <1>3 DEF Handshaken, PooledShared, PooledUnique, Owners
  <2>3. handle'[t].st = "held" /\ \A o \in Owners \ {t} : handle'[o] = handle[o]
    BY <2>2 DEF TypeOK
  <2>4. AttemptsOK'
    BY <1>a, <2>1, NoAttemptFacts, SetAttempt
  <2>5. ASSUME NEW r \in AwaitedBy(t)
        PROVE  /\ req'[r] \in Reqs /\ RecOK(req'[r], plan.reqs[r]) /\ req'[r].own = NoAttemptId
               /\ req'[r].pc \in {"clean", "have"} /\ req'[r].via = t
    <3> DEFINE h == Has(r, t, FALSE)
               q == [h EXCEPT !.pc = "clean", !.next = "have"]
    <3>1. /\ h \in Reqs /\ RecOK(h, plan.reqs[r]) /\ h.pc = "have"
          /\ h.own = NoAttemptId /\ h.via = t
      BY <1>w, <2>2, HasFacts, ZenonT(40)
    <3>2. req'[r] = IF req[r].pc = "race" THEN q ELSE h
      BY <1>w, <2>1
    <3> HIDE DEF h
    <3>3. q \in Reqs
      BY <3>1 DEF Reqs, PCs
    <3>4. /\ q.pc = "clean" /\ q.next = "have" /\ q.own = NoAttemptId /\ q.via = t
          /\ q.starts = h.starts /\ q.out = h.out /\ q.uri = h.uri
      BY <3>1 DEF Reqs
    <3> HIDE DEF q
    <3>5. RecOK(q, plan.reqs[r])
      BY <2>2, <3>1, <3>4 DEF RecOK
    <3> QED
      BY <3>1, <3>2, <3>3, <3>4, <3>5
  <2>6. req' = [r \in Requests |-> req'[r]] /\ \A r \in Requests \ AwaitedBy(t) : req'[r] = req[r]
    BY <2>1
  <2> QED
    BY <2>1, <2>2, <2>3, <2>4, <2>5, <2>6, AttemptOver
<1>4. CASE ConnectFails(t)
  <2> DEFINE x == IF tcp[t].phase = "panicked" THEN "panic" ELSE "connect"
  <2>1. /\ tcp' = [tcp EXCEPT ![t] = NoAttempt] /\ shake' = [shake EXCEPT ![t] = NoConn] /\ plan' = plan
        /\ req' = [r \in Requests |-> IF r \in AwaitedBy(t) THEN AttemptFailed(r, x) ELSE req[r]]
    BY <1>4 DEF ConnectFails
  <2>2. ct[t] # "none" /\ ct' = [ct EXCEPT ![t] = "none"] /\ handle' = handle
    BY <1>4 DEF ConnectFails, DropConnecting
  <2>3. AttemptsOK'
    BY <1>a, <2>1, NoAttemptFacts, SetAttempt
  <2>4. x \in {"panic", "connect"} /\ x \in Outs
    BY DEF Outs
  <2> HIDE DEF x
  <2>5. ASSUME NEW r \in AwaitedBy(t)
        PROVE  /\ AttemptFailed(r, x) \in Reqs /\ RecOK(AttemptFailed(r, x), plan.reqs[r])
               /\ AttemptFailed(r, x).own = NoAttemptId
               /\ AttemptFailed(r, x).pc \in {"clean", "done"}
               /\ AttemptFailed(r, x).via \in {req[r].via, NoAttemptId}
    <3>1. CASE req[r].pc = "race"
      <4> DEFINE q == [req[r] EXCEPT !.pc = "clean", !.next = "done", !.own = NoAttemptId, !.out = x]
      <4>1. AttemptFailed(r, x) = q
        BY <3>1 DEF AttemptFailed, At
      <4>2. q \in Reqs
        BY <1>w, <2>4 DEF Reqs, PCs
      <4>3. /\ q.pc = "clean" /\ q.next = "done" /\ q.own = NoAttemptId /\ q.via = req[r].via
            /\ q.starts = req[r].starts /\ q.out = x /\ q.uri = req[r].uri
        BY <1>w DEF Reqs
      <4> HIDE DEF q
      <4>4. RecOK(q, plan.reqs[r])
        BY <1>w, <2>4, <3>1, <4>3 DEF RecOK
      <4> QED
        BY <4>1, <4>2, <4>3, <4>4
    <3>2. CASE req[r].pc # "race"
      <4>1. AttemptFailed(r, x) = Ends(r, x)
        BY <3>2 DEF AttemptFailed, At
      <4> QED
        BY <1>w, <2>4, <4>1, EndsFacts
    <3> QED
      BY <3>1, <3>2
  <2>6. /\ req' = [r \in Requests |-> req'[r]] /\ \A r \in Requests \ AwaitedBy(t) : req'[r] = req[r]
        /\ \A r \in AwaitedBy(t) : req'[r] = AttemptFailed(r, x)
    BY <1>w, <2>1
  <2> QED
    BY <2>1, <2>2, <2>3, <2>5, <2>6, AttemptOver
<1>5. CASE BackgroundDone(t)
  <2>1. /\ UNCHANGED <<plan, req, tcp, shake, ct>> /\ handle[t].st = "held" /\ t \in Owners
        /\ \A o \in Owners \ {t} : handle'[o] = handle[o]
        /\ \A r \in Requests : req[r].via # t
    BY <1>5 DEF BackgroundDone, DropPooled, TypeOK, Owners
  <2>2. \A p \in Requests : req[p].via # NoAttemptId => handle'[req[p].via] = handle[req[p].via]
    <3>1. \A p \in Requests : req[p].via # NoAttemptId => req[p].via \in Owners \ {t}
      BY <2>1, Known DEF Reqs
    <3> QED
      BY <2>1, <3>1
  <2>3. \A u \in Connects : ct'[u] # "none" => handle'[u] = NoHandle
    BY <2>1 DEF CInv, LinksOK, Owners, NoHandle
  <2>4. AttemptsOK'
    BY <1>a, <2>1 DEF AttemptsOK
  <2> QED
    BY <2>1, <2>2, <2>3, <2>4, NoChange DEF CInv, LinksOK
<1> QED
  BY <1>1, <1>2, <1>3, <1>4, <1>5 DEF AttemptStep

\* The user's drop of the future goes on by one of its parts.
LEMMA UnwindStep ==
  ASSUME TypeOK, CInv, NEW r \in Requests, Unwind(r)
  PROVE  CInv'
<1>1. /\ req[r] \in Reqs /\ RecOK(req[r], plan.reqs[r]) /\ req[r].pc = "cancel"
      /\ r \in plan.droppable /\ plan' = plan
  BY Known DEF Unwind, At
<1>2. CASE co[r] # "none"
  <2>1. UNCHANGED <<plan, handle, ct, tcp, shake, req>>
    BY <1>1, <1>2 DEF Unwind, DropCheckout, CleanWaiters
  <2>2. req' = [req EXCEPT ![r] = req[r]]
    BY <2>1 DEF CInv
  <2> QED
    BY <1>1, <2>1, <2>2, Known, Still
<1>3. CASE co[r] = "none" /\ req[r].own # NoAttemptId
  <2> DEFINE t == req[r].own
             q == [req[r] EXCEPT !.own = NoAttemptId]
  <2>1. /\ DropConnecting(t) /\ tcp' = [tcp EXCEPT ![t] = NoAttempt]
        /\ shake' = [shake EXCEPT ![t] = NoConn] /\ req' = [req EXCEPT ![r] = q]
    BY <1>3 DEF Unwind, CInv
  <2>2. t \in Connects /\ \A p \in AwaitedBy(t) : p = r
    BY <1>1, <1>3 DEF Reqs, CInv, LinksOK, AwaitedBy
  <2>3. q \in Reqs /\ q.own = NoAttemptId /\ q.pc = "cancel" /\ q.via = req[r].via
    BY <1>1 DEF Reqs
  <2>4. RecOK(q, plan.reqs[r])
    BY <1>1 DEF RecOK, Reqs
  <2> HIDE DEF q, t
  <2>5. ct[t] # "none" /\ ct' = [ct EXCEPT ![t] = "none"] /\ handle' = handle
    BY <2>1 DEF DropConnecting
  <2>6. AttemptsOK'
    <3>1. AttemptsOK /\ NoConn \in Conns \cup {NoConn}
      BY DEF CInv
    <3> QED
      BY <2>1, <2>2, <3>1, NoAttemptFacts, SetAttempt
  <2>7. /\ req' = [p \in Requests |-> req'[p]] /\ req'[r] = q
        /\ \A p \in Requests \ {r} : req'[p] = req[p]
    BY <2>1 DEF CInv
  <2>8. \A p \in Requests \ AwaitedBy(t) : req'[p] = req[p]
    <3>1. r \in AwaitedBy(t)
      BY DEF AwaitedBy, t
    <3> QED
      BY <2>7, <3>1
  <2>9. \A p \in AwaitedBy(t) :
           /\ req'[p] \in Reqs /\ RecOK(req'[p], plan.reqs[p])
           /\ req'[p].own = NoAttemptId /\ req'[p].pc \notin {"sending", "sent", "stuck", "started"}
           /\ p \in plan.droppable /\ req'[p].via \in {req[p].via, NoAttemptId}
    BY <1>1, <2>2, <2>3, <2>4, <2>7
  <2> QED
    BY <1>1, <2>2, <2>5, <2>6, <2>7, <2>8, <2>9, AttemptOver
<1>4. CASE co[r] = "none" /\ req[r].own = NoAttemptId /\ req[r].via # NoAttemptId
  <2> DEFINE q == [req[r] EXCEPT !.via = NoAttemptId]
  <2>1. /\ DropPooled(req[r].via) /\ UNCHANGED <<plan, tcp, shake>>
        /\ req' = [req EXCEPT ![r] = q] /\ req[r].via \in Owners
    BY <1>1, <1>4 DEF Unwind, CInv, Reqs
  <2>2. q \in Reqs /\ q.own = req[r].own /\ q.pc = "cancel" /\ q.via = NoAttemptId
    BY <1>1 DEF Reqs
  <2>3. RecOK(q, plan.reqs[r])
    BY <1>1 DEF RecOK, Reqs
  <2> HIDE DEF q
  <2> QED
    BY <1>1, <2>1, <2>2, <2>3, Releases
<1>5. CASE co[r] = "none" /\ req[r].own = NoAttemptId /\ req[r].via = NoAttemptId
  <2>1. UNCHANGED <<plan, handle, ct, tcp, shake>> /\ req' = [req EXCEPT ![r] = Ends(r, req[r].out)]
    BY <1>5 DEF Unwind, vars, CInv
  <2>2. req[r].out \in Outs /\ req[r].out \notin {"canceled", "unsent"}
    BY <1>1 DEF Reqs, RecOK
  <2> QED
    BY <2>1, <2>2, EndsFacts, Still DEF Fits
<1> QED
  BY <1>2, <1>3, <1>4, <1>5

\* Steps of the pool and the connections that are nobody's request.
LEMMA OtherSteps ==
  ASSUME TypeOK, CInv,
         \/ \E o \in Owners : PutsBack(o)
         \/ \E c \in Conns : ConnIdle(c) \/ ConnGone(c)
  PROVE  CInv'
<1>1. UNCHANGED <<plan, req, tcp, shake, ct>>
  BY DEF PutsBack, PutBack, ConnIdle, ConnReady, ConnGone, ConnClosed
<1>2. AttemptsOK'
  BY <1>1 DEF CInv, AttemptsOK
<1>3. \A p \in Requests : req[p].own # NoAttemptId => ct'[req[p].own] # "none"
  BY <1>1 DEF CInv, LinksOK
<1>4. CASE handle' = handle
  BY <1>1, <1>2, <1>3, <1>4, NoChange DEF CInv, LinksOK
<1>5. ASSUME NEW o \in Owners, PutBack(o) PROVE CInv'
  <2>1. handle[o].st = "dropping" /\ handle'[o] = NoHandle
        /\ \A u \in Owners \ {o} : handle'[u] = handle[u]
    BY <1>5 DEF PutBack, TypeOK
  <2>2. \A p \in Requests : req[p].via # NoAttemptId => handle'[req[p].via] = handle[req[p].via]
    <3>1. ASSUME NEW p \in Requests, req[p].via # NoAttemptId PROVE req[p].via \in Owners \ {o}
      <4>1. req[p].via \in Owners /\ handle[req[p].via].st = "held"
        BY <3>1, Known DEF CInv, LinksOK, Reqs
      <4> QED
        BY <2>1, <4>1
    <3> QED
      BY <2>1, <3>1
  <2>3. \A t \in Connects : ct'[t] # "none" => handle'[t] = NoHandle
    BY <1>1, <2>1 DEF CInv, LinksOK, Owners
  <2> QED
    BY <1>1, <1>2, <1>3, <2>2, <2>3, NoChange
<1> QED
  BY <1>4, <1>5 DEF PutsBack, ConnIdle, ConnReady, ConnGone, ConnClosed

-----------------------------------------------------------------------------
(* The client is a user of the pool.                                       *)

\* What the client's variables start with.
LEMMA ClientInit == CInit => CInv
<1> SUFFICES ASSUME CInit PROVE CInv
  OBVIOUS
<1>1. NewRequest \in Reqs
  BY DEF NewRequest, Reqs, PCs, Outs
<1>2. req \in [Requests -> Reqs] /\ \A r \in Requests : req[r] = NewRequest
  BY <1>1 DEF CInit
<1>3. AttemptsOK
  BY NoAttemptFacts DEF CInit, AttemptsOK
<1>4. LinksOK
  BY <1>2 DEF LinksOK, NewRequest, CInit, Init
<1>5. \A r \in Requests : RecOK(req[r], plan.reqs[r])
  BY <1>2 DEF RecOK, NewRequest
<1> QED
  BY <1>2, <1>3, <1>4, <1>5 DEF CInv, CInit, NewRequest, Fits

\* Every step of a client keeps the invariant.
LEMMA ClientStep ==
  ASSUME TypeOK, CInv, [CNext]_cvars
  PROVE  CInv'
<1>1. ASSUME NEW r \in Requests, RequestStep(r) \/ DropFuture(r) PROVE CInv'
  <2>1. \/ Refuse(r) \/ Request(r) \/ CheckoutMiss(r) \/ CheckoutFails(r) \/ DropLoser(r)
           \/ CleanLoser(r) \/ Retry(r) \/ DropFuture(r)
        \/ WrongVersion(r) \/ Send(r) \/ Push(r) \/ Start(r) \/ Respond(r) \/ Loses(r)
        \/ CheckoutHit(r) \/ CheckoutWins(r)
        \/ EndSend(r) \/ OnIdle(r)
        \/ StartConnect(r)
        \/ Unwind(r)
    BY <1>1 DEF RequestStep
  <2> QED
    BY <2>1, WaitingSteps, SendingSteps, ServedSteps, ReleaseSteps, StartStep, UnwindStep
<1>2. CASE UNCHANGED cvars
  BY <1>2, NoChange DEF cvars, vars, CInv, LinksOK, AttemptsOK
<1> QED
  BY <1>1, <1>2, AttemptSteps, OtherSteps DEF CNext

\* A step of a client is a step of the pool, or leaves the pool alone.
LEMMA PoolStep ==
  ASSUME TypeOK, CInv, [CNext]_cvars
  PROVE  [Next]_vars
<1>k. Key \in Keys
  BY PoolAssumption DEF Key
<1>1. ASSUME NEW r \in Requests, RequestStep(r) \/ DropFuture(r) PROVE [Next]_vars
  <2>v. /\ req[r].own \in Connects \cup {NoAttemptId} /\ req[r].via \in Owners \cup {NoAttemptId}
        /\ r \in Checkouts
        /\ req[r].pc \in {"have", "sending", "sent", "stuck", "started", "idle", "drop"} => req[r].via \in Owners
    BY Known DEF Reqs, RecOK, Requests
  <2>1. CASE Request(r) \/ Retry(r)
    BY <1>k, <2>1, <2>v DEF Request, Retry, Next
  <2>2. CASE CheckoutHit(r) \/ CheckoutMiss(r) \/ CheckoutWins(r) \/ CheckoutFails(r)
             \/ DropLoser(r) \/ CleanLoser(r)
    BY <2>2, <2>v DEF CheckoutHit, CheckoutMiss, CheckoutWins, CheckoutFails, DropLoser, CleanLoser, Next
  <2>3. CASE StartConnect(r)
    <3>1. CASE Ver = "Http2" /\ Key \in connecting
      BY <2>3, <3>1 DEF StartConnect
    <3>2. CASE ~(Ver = "Http2" /\ Key \in connecting)
      <4> DEFINE t == CHOOSE u \in Free : TRUE
      <4>1. t \in Connects /\ (ConnectAuto(t, Key) \/ ConnectHttp2(t, Key))
        BY <2>3, <3>2 DEF StartConnect, Free
      <4> HIDE DEF t
      <4> QED
        BY <1>k, <4>1 DEF Next
    <3> QED
      BY <3>1, <3>2
  <2>4. CASE Refuse(r) \/ WrongVersion(r) \/ Push(r) \/ Start(r) \/ Respond(r) \/ Loses(r) \/ DropFuture(r)
    BY <2>4 DEF Refuse, WrongVersion, Push, Start, Respond, Loses, DropFuture
  <2>5. CASE Send(r)
    BY <2>5, <2>v DEF Send, At, Next
  <2>6. CASE EndSend(r) \/ OnIdle(r)
    BY <2>6, <2>v DEF EndSend, OnIdle, At, Next
  <2>7. CASE Unwind(r)
    BY <2>7, <2>v DEF Unwind, Next
  <2> QED
    BY <1>1, <2>1, <2>2, <2>3, <2>4, <2>5, <2>6, <2>7 DEF RequestStep
<1>2. ASSUME NEW t \in Connects, AttemptStep(t) PROVE [Next]_vars
  <2>1. CASE Connecting(t)
    BY <2>1 DEF Connecting
  <2>2. ASSUME NEW c \in Conns, Established(t, c) PROVE [Next]_vars
    BY <2>2 DEF Established, Next
  <2>3. ASSUME NEW s \in {"ready", "closed"}, Handshaken(t, s) PROVE [Next]_vars
    <3>1. shake[t] \in Conns
      BY <2>3 DEF Handshaken, CInv, AttemptsOK
    <3>2. PooledShared(t, shake[t], s) \/ PooledUnique(t, shake[t], s)
      BY <2>3 DEF Handshaken
    <3> QED
      BY <3>1, <3>2 DEF Next
  <2>4. CASE ConnectFails(t) \/ BackgroundDone(t)
    BY <2>4 DEF ConnectFails, BackgroundDone, Next, Owners
  <2> QED
    BY <1>2, <2>1, <2>2, <2>3, <2>4 DEF AttemptStep
<1>3. ASSUME NEW o \in Owners, PutsBack(o) PROVE [Next]_vars
  BY <1>3 DEF PutsBack, Next
<1>4. ASSUME NEW c \in Conns, ConnIdle(c) \/ ConnGone(c) PROVE [Next]_vars
  BY <1>4 DEF ConnIdle, ConnGone, Next
<1>5. CASE UNCHANGED cvars
  BY <1>5 DEF cvars
<1> QED
  BY <1>1, <1>2, <1>3, <1>4, <1>5 DEF CNext

\* The invariants of the pool and of the client, together.
LEMMA BothAlways == CSpec => [](Inv /\ CInv)
<1>1. CInit => Inv /\ CInv
  BY ClientInit, TypeInit, ExclusionInit DEF CInit, Inv
<1>2. Inv /\ CInv /\ [CNext]_cvars => (Inv /\ CInv)'
  BY PoolStep, ClientStep, InvStep DEF Inv
<1> QED
  BY <1>1, <1>2, PTL DEF CSpec

\* A client that makes any number of requests uses the pool only as Pool says:
\* whatever order the select, the attempts, the retries and the drops of
\* client.rs come in, each of their steps is one operation of pool.rs or none.
\* So everything proved of Spec is true of the client.
THEOREM ImplementsPool == CSpec => Spec
<1>1. CInit => Init
  BY DEF CInit
<1>2. Inv /\ CInv /\ [CNext]_cvars => [Next]_vars
  BY PoolStep DEF Inv
<1> QED
  BY <1>1, <1>2, BothAlways, PTL DEF CSpec, Spec

\* Every variable keeps its type.
THEOREM ClientTypeCorrect == CSpec => []ClientTypeOK
<1>1. Inv /\ CInv => ClientTypeOK
  BY DEF Inv, CInv, ClientTypeOK, AttemptsOK, Reqs, PCs
<1> QED
  BY <1>1, BothAlways, PTL

\* However often retryably_send_request goes round, a connection starts on a
\* request at most once, and on one that fails as canceled never.
THEOREM StartedOnceCorrect == CSpec => []StartedOnce
<1>1. Inv /\ CInv => StartedOnce
  BY DEF CInv, StartedOnce, RecOK
<1> QED
  BY <1>1, BothAlways, PTL

\* The request target has the form its connection needs, after retries too.
THEOREM FormFitsCorrect == CSpec => []FormFits
<1>1. Inv /\ CInv => FormFits
  BY DEF CInv, FormFits, Fits, At, Conn
<1> QED
  BY <1>1, BothAlways, PTL

\* An HTTP/1 connection in a request's Pooled is nobody else's.
THEOREM OneExchangeCorrect == CSpec => []OneExchange
<1>1. ASSUME Inv, CInv, UniqueCustody PROVE OneExchange
  <2>1. ASSUME NEW r \in Requests, req[r].via # NoAttemptId
        PROVE  req[r].via \in Owners /\ Conn(r) = handle[req[r].via].conn /\ Conn(r) \in Conns
    <3>1. req[r].via \in Owners /\ handle[req[r].via].st = "held"
      BY <1>1, <2>1, Known DEF CInv, LinksOK, Reqs
    <3>2. handle[req[r].via] \in Handles
      BY <1>1, <3>1 DEF Inv, TypeOK, NoHandle
    <3> QED
      BY <3>1, <3>2 DEF Conn, Handles
  <2>2. ASSUME NEW r \in Requests, req[r].via # NoAttemptId, ~Shared(Conn(r)),
               NEW q \in Requests, req[q].via # NoAttemptId, q # r
        PROVE  Conn(q) # Conn(r)
    <3>1. req[q].via # req[r].via
      BY <1>1, <2>2 DEF CInv, LinksOK
    <3>2. Conn(r) \in Conns \ SharedConns
      BY <2>1, <2>2 DEF Shared
    <3> QED
      BY <1>1, <2>1, <2>2, <3>1, <3>2 DEF UniqueCustody
  <2>3. ASSUME NEW r \in Requests, req[r].via # NoAttemptId, ~Shared(Conn(r))
        PROVE  ~InIdle(Conn(r)) /\ ~InSlot(Conn(r))
    <3>1. Conn(r) \in Conns \ SharedConns /\ InHandle(Conn(r))
      BY <2>1, <2>3 DEF Shared, InHandle
    <3> QED
      BY <1>1, <3>1 DEF UniqueCustody
  <2> QED
    BY <2>2, <2>3 DEF OneExchange
<1> QED
  BY <1>1, BothAlways, ImplementsPool, UniqueCustodyCorrect, PTL

-----------------------------------------------------------------------------
(* Attempts that are not wasted.                                           *)

\* An attempt under way is given up only when it failed or was canceled, when
\* its connection is in a Pooled, or when the user dropped the request.
THEOREM NoWastedConnectCorrect == CSpec => NoWastedConnect
<1>1. ASSUME Inv, CInv, CNext PROVE GivenUpRightly
  <2> SUFFICES ASSUME NEW t \in Connects, tcp[t] # NoAttempt, tcp'[t] = NoAttempt
               PROVE  \/ handle'[t].st = "held"
                      \/ tcp[t].phase \in {"failed", "panicked", "handshake", "connected"}
                      \/ \E r \in AwaitedBy(t) : r \in plan.droppable /\ At(r, "cancel")
    BY DEF GivenUpRightly
  <2>t. TypeOK /\ tcp = [u \in Connects |-> tcp[u]]
    BY <1>1 DEF Inv, CInv, AttemptsOK
  <2>1. ASSUME NEW r \in Requests, StartConnect(r) PROVE FALSE
    <3>1. tcp' = tcp \/ \E u \in Free : tcp' = [tcp EXCEPT ![u] = NewAttempt]
      <4>1. Free # {} => (CHOOSE u \in Free : TRUE) \in Free
        OBVIOUS
      <4> QED
        BY <2>1, <4>1 DEF StartConnect, vars
    <3>2. NewAttempt # NoAttempt
      BY DEF NewAttempt, NoAttempt
    <3> QED
      BY <2>t, <3>1, <3>2
  <2>2. ASSUME NEW r \in Requests, Unwind(r)
        PROVE  \E p \in AwaitedBy(t) : p \in plan.droppable /\ At(p, "cancel")
    <3>1. tcp' = [tcp EXCEPT ![req[r].own] = NoAttempt] /\ At(r, "cancel")
      BY <2>2 DEF Unwind, vars
    <3>2. r \in AwaitedBy(t) /\ r \in plan.droppable
      BY <1>1, <2>t, <3>1, Known DEF AwaitedBy, At
    <3> QED
      BY <3>1, <3>2
  <2>3. ASSUME NEW r \in Requests, RequestStep(r) \/ DropFuture(r), tcp' # tcp
        PROVE  StartConnect(r) \/ Unwind(r)
    BY <2>3 DEF RequestStep, DropFuture, Refuse, Request, CheckoutHit, CheckoutMiss, CheckoutWins,
       CheckoutFails, DropLoser, CleanLoser, WrongVersion, Send, Push, Start, Respond, Loses, EndSend,
       OnIdle, Retry
  <2>4. ASSUME NEW u \in Connects, AttemptStep(u)
        PROVE  \/ handle'[t].st = "held"
               \/ tcp[t].phase \in {"failed", "panicked", "handshake", "connected"}
    <3>1. CASE Connecting(u)
      <4>1. PICK a \in ConnectorSteps(u) : tcp' = [tcp EXCEPT ![u] = a]
        BY <3>1 DEF Connecting
      <4>2. a # NoAttempt
        BY <1>1, ConnectorFacts, NoAttemptFacts
      <4> QED
        BY <2>t, <4>1, <4>2
    <3>2. ASSUME NEW c \in Conns, Established(u, c) PROVE tcp[t].phase = "connected"
      <4>1. CASE tcp' = [tcp EXCEPT ![u] = NoAttempt]
        BY <2>t, <3>2, <4>1 DEF Established
      <4>2. CASE tcp' = [tcp EXCEPT ![u].phase = "handshake"]
        <5>1. t = u => tcp'[t].phase = "handshake"
          BY <1>1, <2>t, <4>2 DEF CInv, AttemptsOK
        <5> QED
          BY <2>t, <4>2, <5>1, NoAttemptFacts
      <4> QED
        BY <3>2, <4>1, <4>2 DEF Established
    <3>3. ASSUME NEW s \in {"ready", "closed"}, Handshaken(u, s) PROVE tcp[t].phase = "handshake"
      BY <2>t, <3>3 DEF Handshaken
    <3>4. CASE ConnectFails(u)
      BY <2>t, <3>4 DEF ConnectFails
    <3>5. CASE BackgroundDone(u)
      BY <3>5 DEF BackgroundDone
    <3> QED
      BY <2>4, <3>1, <3>2, <3>3, <3>4, <3>5 DEF AttemptStep
  <2>5. CASE (\E o \in Owners : PutsBack(o)) \/ \E c \in Conns : ConnIdle(c) \/ ConnGone(c)
    BY <2>5 DEF PutsBack, ConnIdle, ConnGone
  <2> QED
    BY <1>1, <2>1, <2>2, <2>3, <2>4, <2>5 DEF CNext
<1>2. Inv /\ CInv /\ [CNext]_cvars => [GivenUpRightly]_cvars
  BY <1>1
<1> QED
  BY <1>2, BothAlways, PTL DEF CSpec, NoWastedConnect

\* Without HTTP/2 no attempt is canceled, so nobody waits for a checkout alone
\* and nobody fails as canceled.
NeverAlone ==
    plan.kinds \cap SharedConns = {} =>
        \A r \in Requests : req[r].pc # "wait" /\ req[r].out # "canceled"

\* A client not restricted to HTTP/2, whose hosts offer none, never fails a
\* request because its checkout was canceled or was sent a connection that
\* closed: the select always has the connect future to fall back on.
THEOREM CheckoutLossHarmlessCorrect ==
  ASSUME Ver = "Auto"
  PROVE  CSpec => []CheckoutLossHarmless
<1>1. CInit => NeverAlone
  BY DEF CInit, NeverAlone, NewRequest
<1>2. ASSUME Inv, CInv, NeverAlone, [CNext]_cvars PROVE NeverAlone'
  <2> SUFFICES ASSUME plan'.kinds \cap SharedConns = {}, NEW r \in Requests
               PROVE  req'[r].pc # "wait" /\ req'[r].out # "canceled"
    BY DEF NeverAlone, Requests
  <2>p. plan' = plan
    BY <1>2 DEF CNext, cvars, RequestStep, DropFuture, Refuse, Request, CheckoutHit, CheckoutMiss,
       StartConnect, CheckoutWins, CheckoutFails, DropLoser, CleanLoser, WrongVersion, Send, Push, Start,
       Respond, Loses, EndSend, OnIdle, Retry, Unwind, AttemptStep, Connecting, Established,
       Handshaken, ConnectFails, BackgroundDone, PutsBack, ConnIdle, ConnGone
  <2>r. /\ req \in [Requests -> Reqs] /\ req[r] \in Reqs
        /\ req[r].pc # "wait" /\ req[r].out # "canceled"
        /\ \A c \in plan.kinds : ~Shared(c)
    BY <1>2, <2>p DEF NeverAlone, CInv, Shared
  <2>1. ASSUME NEW p \in Requests, RequestStep(p) \/ DropFuture(p), p # r PROVE req'[r] = req[r]
    BY <2>1, <2>r DEF RequestStep, DropFuture, Refuse, Request, CheckoutHit, CheckoutMiss,
       StartConnect, CheckoutWins, CheckoutFails, DropLoser, CleanLoser, WrongVersion, Send, Push, Start,
       Respond, Loses, EndSend, OnIdle, Retry, Unwind
  <2>2. ASSUME RequestStep(r) \/ DropFuture(r)
        PROVE  req'[r].pc # "wait" /\ req'[r].out # "canceled"
    <3>e. \A x : Ends(r, x).pc = "done" /\ Ends(r, x).out = x
      BY <2>r DEF Ends, Reqs
    <3>d. \A n, x : Dropping(r, n, x).pc = "drop" /\ Dropping(r, n, x).out = x
      BY <2>r DEF Dropping, Reqs
    <3>g. GivenBack(r).pc = "drop" /\ GivenBack(r).out \in {"none", "unsent"}
      BY <3>d DEF GivenBack
    <3>u. ASSUME NEW u
          PROVE  LET q == [GivenBack(r) EXCEPT !.uri = u] IN q.pc = "drop" /\ q.out \in {"none", "unsent"}
      <4>1. CASE plan.retry /\ req[r].reused
        BY <2>r, <4>1 DEF GivenBack, Dropping, Reqs
      <4>2. CASE ~(plan.retry /\ req[r].reused)
        BY <2>r, <4>2 DEF GivenBack, Dropping, Reqs
      <4> QED
        BY <4>1, <4>2
    <3>1. CASE Request(r) \/ CheckoutMiss(r) \/ Retry(r)
      BY <2>r, <3>1 DEF Request, CheckoutMiss, Retry, Reqs
    <3>10. CASE Refuse(r)
      BY <2>r, <3>e, <3>10 DEF Refuse
    <3>11. CASE DropFuture(r)
      BY <2>r, <3>11 DEF DropFuture, Reqs
    <3>2. CASE CheckoutHit(r) \/ CheckoutWins(r)
      BY <2>r, <3>2, ZenonT(40) DEF CheckoutHit, CheckoutWins, Has, Reqs
    <3>3. CASE StartConnect(r)
      BY <2>r, <3>3 DEF StartConnect, Reqs
    <3>4. CASE CheckoutFails(r)
      BY <2>r, <3>4 DEF CheckoutFails, At, Reqs
    <3>5. CASE DropLoser(r) \/ CleanLoser(r)
      <4>1. \/ req' = req \/ req'[r] = [req[r] EXCEPT !.pc = "have"] \/ req'[r] = Ends(r, req[r].out)
        BY <2>r, <3>5 DEF DropLoser, CleanLoser
      <4> QED
        BY <2>r, <3>e, <4>1 DEF Reqs
    <3>6. CASE WrongVersion(r) \/ Loses(r)
      BY <2>r, <3>6, <3>d, <3>g DEF WrongVersion, Loses
    <3>12. CASE Send(r)
      <4>1. \/ \E u : req'[r] = [req[r] EXCEPT !.pc = "sending", !.uri = u]
            \/ \E u : req'[r] = [GivenBack(r) EXCEPT !.uri = u]
        BY <2>r, <3>12 DEF Send
      <4> QED
        BY <2>r, <3>u, <4>1 DEF Reqs
    <3>7. CASE Push(r) \/ Start(r) \/ Respond(r)
      BY <2>r, <3>7 DEF Push, Start, Respond, Reqs
    <3>8. CASE EndSend(r) \/ OnIdle(r)
      <4>1. \/ req'[r] = [req[r] EXCEPT !.pc = "retry", !.via = NoAttemptId]
            \/ req'[r] = Ends(r, req[r].out)
        BY <2>r, <3>8 DEF EndSend, OnIdle
      <4>2. CASE req'[r] = [req[r] EXCEPT !.pc = "retry", !.via = NoAttemptId]
        BY <2>r, <4>2 DEF Reqs
      <4>3. CASE req'[r] = Ends(r, req[r].out)
        BY <2>r, <3>e, <4>3
      <4> QED
        BY <4>1, <4>2, <4>3
    <3>9. CASE Unwind(r)
      <4>1. \/ req' = req \/ req'[r] = [req[r] EXCEPT !.own = NoAttemptId]
            \/ req'[r] = [req[r] EXCEPT !.via = NoAttemptId] \/ req'[r] = Ends(r, req[r].out)
        BY <2>r, <3>9 DEF Unwind
      <4> QED
        BY <2>r, <3>e, <4>1 DEF Reqs
    <3> QED
      BY <2>2, <3>1, <3>2, <3>3, <3>4, <3>5, <3>6, <3>7, <3>8, <3>9, <3>10, <3>11, <3>12
      DEF RequestStep
  <2>3. ASSUME NEW t \in Connects, AttemptStep(t)
        PROVE  req'[r].pc # "wait" /\ req'[r].out # "canceled"
    <3>1. CASE Connecting(t) \/ BackgroundDone(t)
      BY <2>r, <3>1 DEF Connecting, BackgroundDone
    <3>2. ASSUME NEW c \in Conns, Established(t, c) PROVE req' = req
      BY <2>r, <3>2 DEF Established, Unopened
    <3>3. ASSUME NEW s \in {"ready", "closed"}, Handshaken(t, s)
          PROVE  req'[r].pc # "wait" /\ req'[r].out # "canceled"
      BY <2>r, <3>3 DEF Handshaken, Has, Reqs
    <3>4. CASE ConnectFails(t)
      BY <2>r, <3>4 DEF ConnectFails, AttemptFailed, Ends, Reqs
    <3> QED
      BY <2>3, <2>r, <3>1, <3>2, <3>3, <3>4 DEF AttemptStep
  <2>4. CASE (\E o \in Owners : PutsBack(o)) \/ (\E c \in Conns : ConnIdle(c) \/ ConnGone(c))
             \/ UNCHANGED cvars
    BY <2>4, <2>r DEF PutsBack, ConnIdle, ConnGone, cvars
  <2> QED
    BY <1>2, <2>r, <2>1, <2>2, <2>3, <2>4 DEF CNext
<1>3. NeverAlone => CheckoutLossHarmless
  BY DEF NeverAlone, CheckoutLossHarmless
<1> HIDE DEF NeverAlone
<1> QED
  BY <1>1, <1>2, <1>3, BothAlways, PTL DEF CSpec

-----------------------------------------------------------------------------
(* The connector.                                                          *)

\* Going through s comes to an address that connects before one that ends the
\* loop.
Promise(s) ==
    \E i \in 1 .. Len(s) : s[i].does = "ok" /\ \A j \in 1 .. (i - 1) : s[j].does # "bind"

\* While the addresses are being tried, one that could be reached at the start
\* is still ahead, in a list that will be gone through.
Hopeful(a, p) ==
    a.phase = "tcp" =>
        /\ a.pref \in Remotes /\ a.fall \in Remotes
        /\ a.pref.st \in {"off", "failed"} => a.pref.left = <<>>
        /\ a.fall.st \in {"off", "failed"} => a.fall.left = <<>>
        /\ Reachable(p.cfg, p.addrs) => Promise(a.pref.left) \/ Promise(a.fall.left)

\* An address that does not connect is passed, one that cannot be tried ends it.
LEMMA PromiseFacts ==
  ASSUME NEW s \in Seq(Addresses)
  PROVE  /\ s = <<>> => ~Promise(s)
         /\ s # <<>> /\ s[1].does = "bind" => ~Promise(s)
         /\ Len(s) = 1 /\ s[1].does # "ok" => ~Promise(s)
         /\ s # <<>> /\ s[1].does # "ok" /\ Promise(s) => Promise(Tail(s))
<1>1. s = <<>> => ~Promise(s)
  BY DEF Promise
<1>2. ASSUME s # <<>>, s[1].does = "bind", Promise(s) PROVE FALSE
  <2>1. PICK i \in 1 .. Len(s) : s[i].does = "ok" /\ \A j \in 1 .. (i - 1) : s[j].does # "bind"
    BY <1>2 DEF Promise
  <2>2. i # 1 => 1 \in 1 .. (i - 1)
    OBVIOUS
  <2> QED
    BY <1>2, <2>1, <2>2
<1>3. Len(s) = 1 /\ s[1].does # "ok" => ~Promise(s)
  BY DEF Promise
<1>4. ASSUME s # <<>>, s[1].does # "ok", Promise(s) PROVE Promise(Tail(s))
  <2>1. PICK i \in 1 .. Len(s) : s[i].does = "ok" /\ \A j \in 1 .. (i - 1) : s[j].does # "bind"
    BY <1>4 DEF Promise
  <2>2. /\ Len(Tail(s)) = Len(s) - 1 /\ Len(s) \in Nat
        /\ \A k \in 1 .. (Len(s) - 1) : Tail(s)[k] = s[k + 1]
    BY <1>4
  <2>3. i # 1 /\ i - 1 \in 1 .. (Len(s) - 1) /\ (i - 1) + 1 = i
    BY <1>4, <2>1, <2>2
  <2>4. Tail(s)[i - 1].does = "ok"
    BY <2>1, <2>2, <2>3
  <2>5. ASSUME NEW j \in 1 .. ((i - 1) - 1) PROVE Tail(s)[j].does # "bind"
    <3>1. j \in 1 .. (Len(s) - 1) /\ j + 1 \in 1 .. (i - 1)
      BY <2>2, <2>3
    <3> QED
      BY <2>1, <2>2, <3>1
  <2> QED
    BY <2>2, <2>3, <2>4, <2>5 DEF Promise
<1> QED
  BY <1>1, <1>2, <1>3, <1>4

\* One turn of the loop of ConnectingTcpRemote::connect.
LEMMA TurnFacts ==
  ASSUME NEW cfg, NEW rem \in Remotes, NEW o \in RemoteOutcomes(cfg, rem)
  PROVE  /\ o \in {"connected", "failed", "next"}
         /\ o = "failed" => ~Promise(rem.left)
         /\ o = "next" => rem.left # <<>> /\ (Promise(rem.left) => Promise(Tail(rem.left)))
<1>1. rem.left \in Seq(Addresses)
  BY DEF Remotes
<1>2. CASE rem.left = <<>>
  BY <1>1, <1>2, PromiseFacts DEF RemoteOutcomes
<1>3. CASE rem.left # <<>>
  <2> DEFINE b == rem.left[1]
  <2>0. Len(rem.left) \in Nat /\ 1 \in 1 .. Len(rem.left)
    BY <1>1, <1>3
  <2>1. b.does \in Doings
    <3>1. b \in Addresses
      BY <1>1, <2>0
    <3> QED
      BY <3>1 DEF Addresses
  <2>2. PICK x \in Outcomes(cfg, b) :
          o = CASE x = "ok" -> "connected"
                [] x = "bind" -> "failed"
                [] x = "refuse" -> IF Len(rem.left) = 1 THEN "failed" ELSE "next"
    BY <1>3 DEF RemoteOutcomes
  <2>3. /\ x \in {"ok", "refuse", "bind"}
        /\ x = "bind" => b.does = "bind"
        /\ x = "refuse" => b.does # "ok"
    BY <2>1 DEF Outcomes, Doings
  <2> HIDE DEF b
  <2>4. \/ o = "connected"
        \/ o = "failed" /\ b.does = "bind"
        \/ o = "failed" /\ Len(rem.left) = 1 /\ b.does # "ok"
        \/ o = "next" /\ b.does # "ok"
    BY <2>2, <2>3
  <2> QED
    BY <1>1, <1>3, <2>4, PromiseFacts DEF b
<1> QED
  BY <1>2, <1>3

\* A step of ConnectingTcp::connect keeps the hope up; it fails only without.
LEMMA TcpStepFacts ==
  ASSUME NEW k, DOMAIN k = {"phase", "pref", "fall"}, NEW p, k.phase = "tcp", Hopeful(k, p),
         NEW a \in TcpSteps(p.cfg, k)
  PROVE  Hopeful(a, p) /\ (a.phase = "failed" => ~Reachable(p.cfg, p.addrs))
<1> DEFINE hope == Reachable(p.cfg, p.addrs)
<1>k. /\ k.pref \in Remotes /\ k.fall \in Remotes
      /\ k.pref.st \in {"off", "failed"} => k.pref.left = <<>>
      /\ k.fall.st \in {"off", "failed"} => k.fall.left = <<>>
      /\ hope => Promise(k.pref.left) \/ Promise(k.fall.left)
  BY DEF Hopeful
<1>n. ~Promise(<<>>)
  BY DEF Promise
<1>p. Failed.phase = "failed" /\ Connected.phase = "connected"
  BY DEF Failed, Connected, NoAttempt
<1> HIDE DEF hope
<1>1. ASSUME k.fall.st = "delayed", a = DelayOver(k) PROVE Hopeful(a, p) /\ a.phase = "tcp"
  <2>1. /\ a.phase = "tcp" /\ a.pref = k.pref
        /\ a.fall = [k.fall EXCEPT !.st = "running"]
    BY <1>1 DEF DelayOver
  <2>2. a.fall \in Remotes /\ a.fall.left = k.fall.left /\ a.fall.st = "running"
    BY <1>k, <2>1 DEF Remotes
  <2> QED
    BY <1>k, <2>1, <2>2 DEF Hopeful, hope
<1>2. ASSUME NEW o \in RemoteOutcomes(p.cfg, k.pref), a = TcpTurn(k, "pref", o)
      PROVE  Hopeful(a, p) /\ (a.phase = "failed" => ~hope)
  <2>o. /\ o \in {"connected", "failed", "next"}
        /\ o = "failed" => ~Promise(k.pref.left)
        /\ o = "next" => k.pref.left # <<>> /\ (Promise(k.pref.left) => Promise(Tail(k.pref.left)))
    BY <1>k, TurnFacts
  <2>1. CASE o = "connected"
    BY <1>2, <1>p, <2>1 DEF TcpTurn, Hopeful
  <2>2. CASE o = "next"
    <3>1. /\ a.phase = "tcp" /\ a.fall = k.fall
          /\ a.pref = [k.pref EXCEPT !.left = Tail(k.pref.left)]
      BY <1>2, <2>2 DEF TcpTurn
    <3>2. a.pref \in Remotes /\ a.pref.left = Tail(k.pref.left) /\ a.pref.st = k.pref.st
      <4>1. k.pref.left \in Seq(Addresses) /\ k.pref.left # <<>>
        BY <1>k, <2>o, <2>2 DEF Remotes
      <4>2. Tail(k.pref.left) \in Seq(Addresses)
        BY <4>1
      <4> QED
        BY <1>k, <3>1, <4>2 DEF Remotes
    <3> QED
      BY <1>k, <2>o, <2>2, <3>1, <3>2 DEF Hopeful, hope
  <2>3. CASE o = "failed"
    <3>1. a = RemoteFailed(k, "pref", "fall")
      BY <1>2, <2>3 DEF TcpTurn
    <3>2. CASE k.fall.st \in {"off", "failed"}
      BY <1>k, <1>n, <1>p, <2>o, <2>3, <3>1, <3>2 DEF RemoteFailed, Hopeful
    <3>3. CASE k.fall.st \notin {"off", "failed"}
      <4>1. /\ a.phase = "tcp" /\ a.pref = [left |-> <<>>, st |-> "failed"]
            /\ a.fall = [k.fall EXCEPT !.st = "running"]
        BY <3>1, <3>3 DEF RemoteFailed
      <4>2. a.fall \in Remotes /\ a.fall.left = k.fall.left /\ a.fall.st = "running"
        BY <1>k, <4>1 DEF Remotes
      <4>3. a.pref \in Remotes /\ a.pref.left = <<>>
        BY <4>1 DEF Remotes
      <4> QED
        BY <1>k, <2>o, <2>3, <4>1, <4>2, <4>3 DEF Hopeful, hope
    <3> QED
      BY <3>2, <3>3
  <2> QED
    BY <2>o, <2>1, <2>2, <2>3
<1>3. ASSUME NEW o \in RemoteOutcomes(p.cfg, k.fall), a = TcpTurn(k, "fall", o)
      PROVE  Hopeful(a, p) /\ (a.phase = "failed" => ~hope)
  <2>o. /\ o \in {"connected", "failed", "next"}
        /\ o = "failed" => ~Promise(k.fall.left)
        /\ o = "next" => k.fall.left # <<>> /\ (Promise(k.fall.left) => Promise(Tail(k.fall.left)))
    BY <1>k, TurnFacts
  <2>1. CASE o = "connected"
    BY <1>3, <1>p, <2>1 DEF TcpTurn, Hopeful
  <2>2. CASE o = "next"
    <3>1. /\ a.phase = "tcp" /\ a.pref = k.pref
          /\ a.fall = [k.fall EXCEPT !.left = Tail(k.fall.left)]
      BY <1>3, <2>2 DEF TcpTurn
    <3>2. a.fall \in Remotes /\ a.fall.left = Tail(k.fall.left) /\ a.fall.st = k.fall.st
      <4>1. k.fall.left \in Seq(Addresses) /\ k.fall.left # <<>>
        BY <1>k, <2>o, <2>2 DEF Remotes
      <4>2. Tail(k.fall.left) \in Seq(Addresses)
        BY <4>1
      <4> QED
        BY <1>k, <3>1, <4>2 DEF Remotes
    <3> QED
      BY <1>k, <2>o, <2>2, <3>1, <3>2 DEF Hopeful, hope
  <2>3. CASE o = "failed"
    <3>1. a = RemoteFailed(k, "fall", "pref")
      BY <1>3, <2>3 DEF TcpTurn
    <3>2. CASE k.pref.st \in {"off", "failed"}
      BY <1>k, <1>n, <1>p, <2>o, <2>3, <3>1, <3>2 DEF RemoteFailed, Hopeful
    <3>3. CASE k.pref.st \notin {"off", "failed"}
      <4>1. /\ a.phase = "tcp" /\ a.fall = [left |-> <<>>, st |-> "failed"]
            /\ a.pref = [k.pref EXCEPT !.st = "running"]
        BY <3>1, <3>3 DEF RemoteFailed
      <4>2. a.pref \in Remotes /\ a.pref.left = k.pref.left /\ a.pref.st = "running"
        BY <1>k, <4>1 DEF Remotes
      <4>3. a.fall \in Remotes /\ a.fall.left = <<>>
        BY <4>1 DEF Remotes
      <4> QED
        BY <1>k, <2>o, <2>3, <4>1, <4>2, <4>3 DEF Hopeful, hope
    <3> QED
      BY <3>2, <3>3
  <2> QED
    BY <2>o, <2>1, <2>2, <2>3
<1>4. \/ k.fall.st = "delayed" /\ a = DelayOver(k)
      \/ \E o \in RemoteOutcomes(p.cfg, k.pref) : a = TcpTurn(k, "pref", o)
      \/ \E o \in RemoteOutcomes(p.cfg, k.fall) : a = TcpTurn(k, "fall", o)
  <2> DEFINE Turns == UNION {{TcpTurn(k, side, o) : o \in RemoteOutcomes(p.cfg, k[side])} :
                                side \in {s \in {"pref", "fall"} : k[s].st = "running"}}
             Over == IF k.fall.st = "delayed" THEN {DelayOver(k)} ELSE {}
  <2>1. a \in Turns \cup Over
    BY Zenon DEF TcpSteps
  <2>2. a \in Over => k.fall.st = "delayed" /\ a = DelayOver(k)
    OBVIOUS
  <2>3. ASSUME a \in Turns
        PROVE  \E side \in {"pref", "fall"} :
                  \E o \in RemoteOutcomes(p.cfg, k[side]) : a = TcpTurn(k, side, o)
    <3>1. PICK side \in {s \in {"pref", "fall"} : k[s].st = "running"} :
            a \in {TcpTurn(k, side, o) : o \in RemoteOutcomes(p.cfg, k[side])}
      BY <2>3
    <3> QED
      BY <3>1, Zenon
  <2> QED
    BY <2>1, <2>2, <2>3
<1> QED
  BY <1>1, <1>2, <1>3, <1>4 DEF hope

\* ConnectingTcp::new starts on both lists.
LEMMA ConnectingTcpFacts ==
  ASSUME NEW p \in Plans
  PROVE  Hopeful(ConnectingTcp(p.cfg, p.addrs), p)
<1> DEFINE l == Lists(p.cfg, p.addrs)
           a == ConnectingTcp(p.cfg, p.addrs)
<1>1. l.pref \in Seq(Addresses) /\ l.fall \in Seq(Addresses)
  BY ListsAssumption
<1>2. Reachable(p.cfg, p.addrs) => Promise(l.pref) \/ Promise(l.fall)
  BY DEF Reachable, Promise
<1>3. a.phase = "tcp" => /\ a.pref = [left |-> l.pref, st |-> "running"]
                         /\ a.fall = IF l.fall = <<>> THEN Off
                                     ELSE [left |-> l.fall, st |-> "delayed"]
  BY DEF ConnectingTcp, DividesByZero, Panicked, NoAttempt
<1> HIDE DEF l, a
<1>4. a.phase = "tcp" => a.pref \in Remotes /\ a.pref.left = l.pref /\ a.pref.st = "running"
  BY <1>1, <1>3 DEF Remotes
<1>5. a.phase = "tcp" => /\ a.fall \in Remotes /\ a.fall.left = l.fall
                         /\ a.fall.st = "off" => l.fall = <<>>
                         /\ a.fall.st # "failed"
  BY <1>1, <1>3 DEF Remotes, Off
<1> QED
  BY <1>2, <1>4, <1>5 DEF Hopeful, a

\* What an attempt may become in one step.
LEMMA AttemptChange ==
  ASSUME Inv, CInv, [CNext]_cvars
  PROVE  /\ plan' = plan
         /\ \A t \in Connects : \/ tcp'[t] = tcp[t]
                                \/ tcp'[t].phase \in {"none", "ready", "handshake"}
                                \/ tcp'[t] \in ConnectorSteps(t)
<1>p. plan' = plan
  BY DEF CNext, cvars, RequestStep, DropFuture, Refuse, Request, CheckoutHit, CheckoutMiss,
     StartConnect, CheckoutWins, CheckoutFails, DropLoser, CleanLoser, WrongVersion, Send, Push, Start,
     Respond, Loses, EndSend, OnIdle, Retry, Unwind, AttemptStep, Connecting, Established,
     Handshaken, ConnectFails, BackgroundDone, PutsBack, ConnIdle, ConnGone
<1> SUFFICES ASSUME NEW t \in Connects, tcp'[t] # tcp[t]
             PROVE  tcp'[t].phase \in {"none", "ready", "handshake"} \/ tcp'[t] \in ConnectorSteps(t)
  BY <1>p
<1>t. tcp = [u \in Connects |-> tcp[u]]
  BY DEF CInv, AttemptsOK
<1>n. NoAttempt.phase = "none" /\ NewAttempt.phase = "ready"
  BY DEF NoAttempt, NewAttempt
<1>1. ASSUME NEW r \in Requests, StartConnect(r) PROVE tcp'[t].phase = "ready"
  <2>1. tcp' = tcp \/ \E u \in Free : tcp' = [tcp EXCEPT ![u] = NewAttempt]
    <3>1. Free # {} => (CHOOSE u \in Free : TRUE) \in Free
      OBVIOUS
    <3> QED
      BY <1>1, <3>1 DEF StartConnect, vars
  <2> QED
    BY <1>t, <1>n, <2>1
<1>2. ASSUME NEW r \in Requests, Unwind(r) PROVE tcp'[t].phase = "none"
  <2>1. tcp' = [tcp EXCEPT ![req[r].own] = NoAttempt]
    BY <1>2 DEF Unwind, vars
  <2> QED
    BY <1>t, <1>n, <2>1
<1>3. ASSUME NEW r \in Requests, RequestStep(r) \/ DropFuture(r)
      PROVE  StartConnect(r) \/ Unwind(r)
  BY <1>3 DEF RequestStep, DropFuture, Refuse, Request, CheckoutHit, CheckoutMiss, CheckoutWins,
     CheckoutFails, DropLoser, CleanLoser, WrongVersion, Send, Push, Start, Respond, Loses, EndSend,
     OnIdle, Retry
<1>4. ASSUME NEW u \in Connects, AttemptStep(u)
      PROVE  tcp'[t].phase \in {"none", "handshake"} \/ tcp'[t] \in ConnectorSteps(t)
  <2>1. CASE Connecting(u)
    BY <1>t, <2>1 DEF Connecting
  <2>2. ASSUME NEW c \in Conns, Established(u, c) PROVE tcp'[t].phase \in {"none", "handshake"}
    <3>1. CASE tcp' = [tcp EXCEPT ![u] = NoAttempt]
      BY <1>t, <1>n, <3>1
    <3>2. CASE tcp' = [tcp EXCEPT ![u].phase = "handshake"]
      BY <1>t, <3>2 DEF CInv, AttemptsOK
    <3> QED
      BY <2>2, <3>1, <3>2 DEF Established
  <2>3. ASSUME NEW s \in {"ready", "closed"}, Handshaken(u, s) PROVE tcp'[t].phase = "none"
    BY <1>t, <1>n, <2>3 DEF Handshaken
  <2>4. CASE ConnectFails(u)
    BY <1>t, <1>n, <2>4 DEF ConnectFails
  <2>5. CASE BackgroundDone(u)
    BY <2>5 DEF BackgroundDone
  <2> QED
    BY <1>4, <2>1, <2>2, <2>3, <2>4, <2>5 DEF AttemptStep
<1>5. CASE \/ \E o \in Owners : PutsBack(o)
           \/ \E c \in Conns : ConnIdle(c) \/ ConnGone(c)
           \/ UNCHANGED cvars
  BY <1>5 DEF PutsBack, ConnIdle, ConnGone, cvars
<1> QED
  BY <1>1, <1>2, <1>3, <1>4, <1>5 DEF CNext

\* So of every attempt.
HopeInv == \A t \in Connects : Hopeful(tcp[t], plan)

\* The connector fails only when no address of either family could be reached
\* in its turn, whatever the addresses, the delays and the timeouts.
THEOREM NoFalseConnectErrorCorrect == CSpec => NoFalseConnectError
<1> DEFINE Honest == \A t \in Connects : (tcp[t].phase = "tcp" /\ tcp'[t].phase = "failed")
                                         => ~Reachable(plan.cfg, plan.addrs)
<1>1. CInit => HopeInv
  <2>1. CInit => \A t \in Connects : tcp[t] = NoAttempt
    BY DEF CInit
  <2>2. NoAttempt.phase # "tcp"
    BY DEF NoAttempt
  <2> QED
    BY <2>1, <2>2 DEF HopeInv, Hopeful
<1>2. ASSUME Inv, CInv, HopeInv, [CNext]_cvars PROVE HopeInv' /\ Honest
  <2>p. plan \in Plans /\ plan' = plan
    BY <1>2, AttemptChange DEF CInv
  <2>1. SUFFICES ASSUME NEW t \in Connects
                 PROVE  /\ Hopeful(tcp'[t], plan)
                        /\ (tcp[t].phase = "tcp" /\ tcp'[t].phase = "failed")
                           => ~Reachable(plan.cfg, plan.addrs)
    BY <2>p DEF HopeInv
  <2>2. DOMAIN tcp[t] = {"phase", "pref", "fall"} /\ Hopeful(tcp[t], plan)
    BY <1>2 DEF HopeInv, CInv, AttemptsOK
  <2>3. CASE tcp'[t] = tcp[t]
    BY <2>2, <2>3
  <2>4. CASE tcp'[t].phase \in {"none", "ready", "handshake"}
    BY <2>4 DEF Hopeful
  <2>5. CASE tcp'[t] \in ConnectorSteps(t)
    <3> DEFINE a == tcp'[t]
    <3>1. CASE tcp[t].phase = "tcp"
      <4>1. a \in TcpSteps(plan.cfg, tcp[t])
        BY <2>5, <3>1 DEF ConnectorSteps
      <4> QED
        BY <2>2, <3>1, <4>1, TcpStepFacts
    <3>2. CASE tcp[t].phase # "tcp"
      <4>1. \/ a = CallAsync(plan.cfg, plan.scheme, plan.lookup = "literal", plan.addrs,
                             plan.lookup # "unready")
            \/ a = Resolved(plan.cfg, plan.addrs, plan.lookup # "fails")
        BY <2>5, <3>2 DEF ConnectorSteps
      <4>2. a.phase \in {"failed", "resolve"} \/ a = ConnectingTcp(plan.cfg, plan.addrs)
        BY <4>1 DEF CallAsync, Resolved, Failed, NoAttempt
      <4>3. Hopeful(a, plan)
        BY <2>p, <4>2, ConnectingTcpFacts DEF Hopeful
      <4> QED
        BY <3>2, <4>3
    <3> QED
      BY <3>1, <3>2
  <2> QED
    BY <1>2, <2>3, <2>4, <2>5, AttemptChange
<1>3. Inv /\ CInv /\ HopeInv /\ [CNext]_cvars => HopeInv' /\ [Honest]_cvars
  BY <1>2
<1> HIDE DEF HopeInv
<1> QED
  BY <1>1, <1>3, BothAlways, PTL DEF CSpec, NoFalseConnectError

=============================================================================
