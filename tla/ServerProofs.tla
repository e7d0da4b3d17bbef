---------------------------- MODULE ServerProofs -----------------------------
(***************************************************************************)
(* Proofs about Server, for any number of connections and whatever their   *)
(* clients send: a shutdown costs no request, and no byte is lost when a   *)
(* connection changes hands.                                               *)
(***************************************************************************)
EXTENDS Server, SequenceTheorems, TLAPS

Fields == {"task", "by", "script", "wire", "buf", "seen", "eof", "ver", "told", "ka",
           "open", "up", "goaway", "closing", "late", "why"}

\* A connection: its fields are of their types, and it has a request under way
\* only where it may have one.
ConnOK(k) ==
    /\ DOMAIN k = Fields
    /\ k = [f \in Fields |-> k[f]]
    /\ k.task \in Tasks /\ k.by \in {"Server", "user"}
    /\ k.ka \in {"Busy", "Idle", "Disabled"}
    /\ k.open \in Nat
    /\ k.up \in {"none", "pending", "fulfilled", "manual", "canceled"}
    /\ k.up = "pending" => k.task = "H1"
    /\ k.task \in {"none", "queued", "connecting", "Handshaking", "upgraded"} => k.open = 0
    /\ k.task = "H1" => k.open \in {0, 1}
    /\ k.task = "H1" /\ k.ka = "Idle" => k.open = 0
    /\ k.task = "closed" /\ k.open > 0 => k.why \in {"eof", "service", "connect", "timeout"}

------------------------------------------------------------------------------
(* What the operations of a connection make of it.                           *)

\* A connection that has not begun.
LEMMA NewConnFacts ==
  ASSUME NEW by \in {"Server", "user"}, NEW script
  PROVE  ConnOK(NewConn(by, script)) /\ NewConn(by, script).by = by
         /\ NewConn(by, script).task = "none" /\ NewConn(by, script).up = "none"
BY DEF ConnOK, NewConn, Fields, Tasks, Live

\* A connection may be closed with a request under way for four reasons only.
LEMMA CloseFacts ==
  ASSUME NEW k, ConnOK(k), NEW why,
         k.open > 0 => why \in {"eof", "service", "connect", "timeout"}
  PROVE  ConnOK(Close(k, why))
<1> DEFINE r == Close(k, why)
<1>1. DOMAIN r = Fields /\ r = [f \in Fields |-> r[f]]
  BY DEF Close, NewConn, Fields
<1>2. r.task = "closed" /\ r.why = why /\ r.open = k.open /\ r.by = k.by /\ r.ka = "Busy"
      /\ r.up = IF k.up = "pending" THEN "canceled" ELSE k.up
  BY DEF Close, NewConn
<1> HIDE DEF r
<1>3. ConnOK(r)
  BY <1>1, <1>2 DEF ConnOK, Tasks
<1> QED
  BY <1>3 DEF r

\* An HTTP/1 connection that is done has answered its request.
LEMMA H1DoneFacts ==
  ASSUME NEW k, ConnOK(k), k.task = "H1", k.open = 0, NEW why
  PROVE  ConnOK(H1Done(k, why))
<1>1. ConnOK(Close(k, why))
  BY CloseFacts
<1>2. ConnOK(Fulfill(k)) /\ ConnOK(Manual(k))
  BY DEF ConnOK, Fulfill, Manual, Fields, Tasks, Live
<1> QED
  BY <1>1, <1>2 DEF H1Done, ConnOK

\* A change to a connection that stays what it is.
LEMMA StaysFacts ==
  ASSUME NEW k, ConnOK(k), k.task \in Live, NEW r, DOMAIN r = Fields, r = [f \in Fields |-> r[f]],
         r.task = k.task, r.by = k.by, r.ka \in {k.ka, "Disabled"}, r.open = k.open, r.up = k.up
  PROVE  ConnOK(r)
BY DEF ConnOK, Live

\* Connection::graceful_shutdown ends a connection only where no request is under
\* way on it.
LEMMA GracefulShutdownFacts ==
  ASSUME NEW k, ConnOK(k), k.task \in Serving
  PROVE  ConnOK(GracefulShutdown(k))
<1>1. CASE k.task = "H1"
  <2> DEFINE l == [k EXCEPT !.told = TRUE, !.ka = "Disabled"]
  <2>1. ConnOK(l) /\ l.open = k.open /\ l.task = "H1" /\ l.by = k.by
    BY <1>1 DEF ConnOK, Fields, Live, Tasks
  <2> HIDE DEF l
  <2>2. CASE k.ka = "Idle"
    <3>1. ConnOK(H1Done(l, "drained"))
      BY <1>1, <2>1, <2>2, H1DoneFacts DEF ConnOK
    <3> QED
      BY <1>1, <2>2, <3>1 DEF GracefulShutdown, DisableKeepAlive, l
  <2>3. CASE k.ka # "Idle"
    BY <1>1, <2>1, <2>3 DEF GracefulShutdown, DisableKeepAlive, l
  <2> QED
    BY <2>2, <2>3
<1>2. CASE k.task = "Handshaking"
  <2>1. k.open = 0
    BY <1>2 DEF ConnOK
  <2>2. ConnOK(Close(k, "drained"))
    BY <2>1, CloseFacts
  <2> QED
    BY <1>2, <2>2 DEF GracefulShutdown, H2GracefulShutdown
<1>3. CASE k.task = "Serving"
  <2>1. ConnOK([k EXCEPT !.told = TRUE, !.goaway = TRUE])
    BY <1>3 DEF ConnOK, Fields, Live, Tasks
  <2> QED
    BY <1>3, <2>1 DEF GracefulShutdown, H2GracefulShutdown
<1> QED
  BY <1>1, <1>2, <1>3 DEF Serving, Live

------------------------------------------------------------------------------
(* The steps of one connection.                                              *)

\* The connection c, and no other, becomes a well-formed one.
Step(c) == \E r : ConnOK(r) /\ Set(c, r)

\* Accepting and making the service keep a connection well formed.
LEMMA AcceptingStep ==
  ASSUME NEW c \in Conns, ConnOK(conn[c]),
         AcceptReset(c) \/ ServiceMade(c) \/ ServiceRefused(c)
  PROVE  Step(c)
<1> DEFINE k == conn[c]
<1>1. k.task \in {"queued", "connecting"}
  BY DEF AcceptReset, ServiceMade, ServiceRefused
<1>2. k.open = 0
  BY <1>1 DEF ConnOK
<1>3. ConnOK(Close(k, "eof")) /\ ConnOK(Close(k, "service"))
  BY <1>2, CloseFacts
<1>4. k.task = "connecting" => ConnOK(Watch(k))
  BY <1>2 DEF ConnOK, Watch, FirstProto, Fields, Tasks, Live
<1> HIDE DEF k
<1> QED
  BY <1>3, <1>4 DEF Step, AcceptReset, ServiceMade, ServiceRefused, k

\* Telling a connection to shut down keeps it well formed.
LEMMA ShutdownStep ==
  ASSUME NEW c \in Conns, ConnOK(conn[c]), OnDrain(c) \/ UserShutdown(c)
  PROVE  Step(c)
<1>1. conn[c].task \in Serving /\ Set(c, GracefulShutdown(conn[c]))
  BY DEF OnDrain, UserShutdown
<1> QED
  BY <1>1, GracefulShutdownFacts DEF Step

\* Steps that only move bytes.
LEMMA ReadStep ==
  ASSUME NEW c \in Conns, ConnOK(conn[c]),
         ClientClose(c) \/ H1Read(c) \/ UpgradedRead(c) \/ Downcast(c) \/ IntoParts(c)
  PROVE  Step(c)
<1> DEFINE k == conn[c]
<1>1. \A w : k.task \in Live => ConnOK([k EXCEPT !.eof = TRUE, !.wire = w])
  BY DEF ConnOK, Fields, Tasks, Live
<1>2. ASSUME k.task = "H1", NEW b, NEW w
      PROVE  ConnOK([k EXCEPT !.buf = b, !.wire = w])
  BY <1>2 DEF ConnOK, Fields, Tasks, Live
<1>3. ASSUME k.task = "upgraded", NEW b, NEW z
      PROVE  ConnOK([k EXCEPT !.buf = b, !.seen = z]) /\ ConnOK([k EXCEPT !.wire = b, !.seen = z])
  BY <1>3 DEF ConnOK, Fields, Tasks, Live
<1> HIDE DEF k
<1>4. CASE ClientClose(c)
  BY <1>1, <1>4 DEF Step, ClientClose, k
<1>5. CASE H1Read(c)
  BY <1>2, <1>5 DEF Step, H1Read, k
<1>6. CASE UpgradedRead(c)
  <2>1. k.task = "upgraded"
    BY <1>6 DEF UpgradedRead, k
  <2>2. CASE k.buf # <<>>
    BY <1>3, <1>6, <2>1, <2>2 DEF Step, UpgradedRead, k
  <2>3. CASE k.buf = <<>>
    BY <1>3, <1>6, <2>1, <2>3 DEF Step, UpgradedRead, k
  <2> QED
    BY <2>2, <2>3
<1>7. CASE Downcast(c) \/ IntoParts(c)
  BY <1>3, <1>7 DEF Step, Downcast, IntoParts, TakeReadBuf, k
<1> QED
  BY <1>4, <1>5, <1>6, <1>7

\* A request read on HTTP/1 keeps a connection well formed.
LEMMA H1RequestStep ==
  ASSUME NEW c \in Conns, ConnOK(conn[c]), H1Request(c)
  PROVE  Step(c)
<1> DEFINE k == conn[c]
<1>1. ASSUME k.task = "H1", NEW last \in BOOLEAN
      PROVE  ConnOK([k EXCEPT !.open = 1, !.buf = Tail(k.buf), !.seen = Append(@, Head(k.buf)),
                        !.ka = IF @ = "Disabled" \/ last THEN "Disabled" ELSE "Busy",
                        !.up = IF Head(k.buf) = "U" THEN "pending" ELSE @])
  BY <1>1 DEF ConnOK, Fields, Tasks, Live
<1> HIDE DEF k
<1> QED
  BY <1>1 DEF Step, H1Request, k

\* Every step of an HTTP/1 connection keeps it well formed.
LEMMA H1Steps ==
  ASSUME NEW c \in Conns, ConnOK(conn[c]), H1Step(c)
  PROVE  Step(c)
<1> DEFINE k == conn[c]
<1>1. k.task = "H1" /\ k.open \in {0, 1}
  BY DEF H1Step, H1Read, H1Eof, H1Request, H1Refuse, H1Fallback, H1Respond, H1Switch,
         H1ServiceError, ConnOK
<1>2. CASE H1Read(c)
  BY <1>2, ReadStep
<1>3. CASE H1Request(c)
  BY <1>3, H1RequestStep
<1>4. CASE H1Eof(c)
  <2>1. ConnOK(Close(k, "eof")) /\ (k.open = 0 => ConnOK(H1Done(k, "eof")))
    BY <1>1, CloseFacts, H1DoneFacts
  <2> QED
    BY <1>1, <1>4, <2>1 DEF Step, H1Eof
<1>5. CASE H1Refuse(c)
  <2>1. ConnOK(Close(k, "refused"))
    BY <1>5, CloseFacts DEF H1Refuse
  <2> QED
    BY <1>5, <2>1 DEF Step, H1Refuse
<1>6. CASE H1Fallback(c)
  <2>1. k.open = 0
    BY <1>6 DEF H1Fallback
  <2>2. ConnOK(UpgradeH2(k))
    BY <1>1, <2>1 DEF ConnOK, UpgradeH2, Fields, Tasks, Live
  <2> QED
    BY <1>6, <2>2 DEF Step, H1Fallback
<1>7. CASE H1Respond(c) \/ H1Switch(c)
  <2> DEFINE a == [k EXCEPT !.open = 0]
             b == [k EXCEPT !.open = 0, !.ka = "Disabled"]
             d == [k EXCEPT !.open = 0, !.ka = "Idle"]
  <2>1. ConnOK(a) /\ a.open = 0 /\ a.task = "H1"
    BY <1>1 DEF ConnOK, Fields, Tasks, Live
  <2>2. ConnOK(b) /\ b.open = 0 /\ b.task = "H1"
    BY <1>1 DEF ConnOK, Fields, Tasks, Live
  <2>3. ConnOK(d)
    BY <1>1 DEF ConnOK, Fields, Tasks, Live
  <2> HIDE DEF a, b, d
  <2>4. ConnOK(H1Done(a, "last")) /\ ConnOK(H1Done(b, "last"))
    BY <2>1, <2>2, H1DoneFacts
  <2>6. CASE H1Respond(c)
    BY <2>3, <2>4, <2>6 DEF Step, H1Respond, a, d
  <2>7. CASE H1Switch(c)
    BY <2>4, <2>7 DEF Step, H1Switch, b
  <2> QED
    BY <1>7, <2>6, <2>7
<1>8. CASE H1ServiceError(c)
  <2>1. ConnOK(Close(k, "service"))
    BY CloseFacts
  <2> QED
    BY <1>8, <2>1 DEF Step, H1ServiceError
<1> QED
  BY <1>2, <1>3, <1>4, <1>5, <1>6, <1>7, <1>8 DEF H1Step

\* Rewind leaves everything but the bytes alone.
LEMMA RewindFacts ==
  ASSUME NEW k, ConnOK(k), k.task \in {"Handshaking", "Serving"}
  PROVE  ConnOK(Rewind(k).k) /\ Rewind(k).k.task = k.task /\ Rewind(k).k.open = k.open
<1> DEFINE a == [k EXCEPT !.buf = Tail(@), !.seen = Append(@, Head(k.buf))]
           b == [k EXCEPT !.wire = Tail(@), !.seen = Append(@, Head(k.wire))]
<1>1. ConnOK(a) /\ a.task = k.task /\ a.open = k.open
  BY DEF ConnOK, Fields, Tasks, Live
<1>2. ConnOK(b) /\ b.task = k.task /\ b.open = k.open
  BY DEF ConnOK, Fields, Tasks, Live
<1>3. Rewind(k).k = IF k.buf # <<>> THEN a ELSE b
  BY DEF Rewind
<1> HIDE DEF a, b
<1> QED
  BY <1>1, <1>2, <1>3

\* Every step of an HTTP/2 connection keeps it well formed.
LEMMA H2Steps ==
  ASSUME NEW c \in Conns, ConnOK(conn[c]), H2Step(c) \/ H2ServiceError(c) \/ H2KeepAliveTimedOut(c)
  PROVE  Step(c)
<1> DEFINE k == conn[c]
           r == Rewind(k).k
<1>1. k.task \in {"Handshaking", "Serving"}
  BY DEF H2Step, H2Handshake, H2HandshakeEof, H2Accept, H2RefuseConnect, H2Respond, H2Closed,
         H2ServiceError, H2KeepAliveTimedOut
<1>2. ConnOK(r) /\ r.task = k.task /\ r.open = k.open
  BY <1>1, RewindFacts
<1>3. \A why \in {"eof", "service", "connect", "timeout"} :
          ConnOK(Close(k, why)) /\ ConnOK(Close(r, why))
  BY <1>2, CloseFacts
<1>4. \A why : k.open = 0 => ConnOK(Close(k, why)) /\ ConnOK(Close(r, why))
  BY <1>2, CloseFacts
<1> HIDE DEF r, k
<1>6. CASE H2Handshake(c)
  <2>1. k.task = "Handshaking" /\ k.open = 0
    BY <1>6, <1>2 DEF H2Handshake, ConnOK, k
  <2>2. ConnOK([r EXCEPT !.task = "Serving"])
    BY <1>2, <2>1 DEF ConnOK, Fields, Tasks, Live
  <2>3. \E x \in {[r EXCEPT !.task = "Serving"], r, Close(r, "refused")} : Set(c, x)
    BY <1>6 DEF H2Handshake, r, k
  <2>4. \A x \in {[r EXCEPT !.task = "Serving"], r, Close(r, "refused")} : ConnOK(x)
    BY <1>2, <1>4, <2>1, <2>2
  <2> QED
    BY <2>3, <2>4 DEF Step, k
<1>7. CASE H2HandshakeEof(c)
  BY <1>3, <1>7 DEF Step, H2HandshakeEof, k
<1>8. CASE H2Accept(c)
  <2>1. k.task = "Serving"
    BY <1>8 DEF H2Accept, k
  <2>2. ConnOK([r EXCEPT !.open = @ + 1])
    BY <1>2, <2>1 DEF ConnOK, Fields, Tasks, Live
  <2>3. Set(c, [r EXCEPT !.open = @ + 1]) \/ Set(c, r)
    BY <1>8 DEF H2Accept, r, k
  <2> QED
    BY <1>2, <2>2, <2>3 DEF Step, k
<1>9. CASE H2RefuseConnect(c)
  <2>1. Set(c, Close(r, "connect"))
    BY <1>9 DEF H2RefuseConnect, r, k
  <2> QED
    BY <1>3, <2>1 DEF Step, k
<1>10. CASE H2Respond(c)
  <2>1. k.task = "Serving" /\ k.open > 0 /\ ConnOK(k)
    BY <1>10 DEF H2Respond, k
  <2>2. ConnOK([k EXCEPT !.open = @ - 1])
    BY <2>1 DEF ConnOK, Fields, Tasks, Live
  <2> QED
    BY <1>10, <2>2 DEF Step, H2Respond, k
<1>11. CASE H2Closed(c)
  BY <1>3, <1>4, <1>11 DEF Step, H2Closed, k
<1>12. CASE H2ServiceError(c)
  <2>1. k.task = "Serving" /\ ConnOK(k)
    BY <1>12 DEF H2ServiceError, k
  <2>2. ConnOK([k EXCEPT !.goaway = TRUE, !.closing = TRUE])
    BY <2>1 DEF ConnOK, Fields, Tasks, Live
  <2> QED
    BY <1>3, <1>12, <2>2 DEF Step, H2ServiceError, k
<1>13. CASE H2KeepAliveTimedOut(c)
  BY <1>3, <1>13 DEF Step, H2KeepAliveTimedOut, k
<1> QED
  BY <1>6, <1>7, <1>8, <1>9, <1>10, <1>11, <1>12, <1>13 DEF H2Step

------------------------------------------------------------------------------
(* The invariant.                                                            *)

\* Every connection is well formed, which says where a request may be under way and
\* why it may be left unanswered.
IInv ==
    /\ conn = [c \in Conns |-> conn[c]]
    /\ \A c \in Conns : ConnOK(conn[c])
    /\ graceful \in BOOLEAN
    /\ srv \in {"running", "draining", "done", "failed"}
    /\ timeout \in BOOLEAN /\ errors \in 0 .. MaxErrors

\* A new server satisfies the invariant.
LEMMA InitInv == Init => IInv
<1> SUFFICES ASSUME Init PROVE IInv
  OBVIOUS
<1>1. PICK plan \in [Conns -> UNION {Plans[c] : c \in Conns}] :
         /\ \A c \in Conns : plan[c] \in Plans[c]
         /\ conn = [c \in Conns |-> NewConn(plan[c].by, plan[c].script)]
  BY DEF Init
<1>2. \A c \in Conns : plan[c].by \in {"Server", "user"}
  BY <1>1, ServerAssumption DEF ServerAssumption
<1>3. \A c \in Conns : ConnOK(conn[c])
  BY <1>1, <1>2, NewConnFacts
<1>4. conn = [c \in Conns |-> conn[c]]
  BY <1>1
<1>5. MaxErrors \in Nat
  BY ServerAssumption DEF ServerAssumption
<1>6. graceful \in BOOLEAN /\ srv = "running" /\ timeout = FALSE /\ errors = 0
  BY Zenon DEF Init
<1>7. errors \in 0 .. MaxErrors
  BY <1>5, <1>6
<1> QED
  BY <1>3, <1>4, <1>6, <1>7, Zenon DEF IInv

\* A step of one connection preserves the invariant.
LEMMA StepKeeps ==
  ASSUME IInv, NEW c \in Conns, Step(c), World
  PROVE  IInv'
<1>1. PICK r : ConnOK(r) /\ conn' = [conn EXCEPT ![c] = r]
  BY DEF Step, Set
<1>2. conn' = [x \in Conns |-> IF x = c THEN r ELSE conn[x]]
  BY <1>1 DEF IInv
<1>3. \A x \in Conns : conn'[x] = IF x = c THEN r ELSE conn[x]
  BY <1>2
<1>4. conn' = [x \in Conns |-> conn'[x]]
  BY <1>2
<1> QED
  BY <1>1, <1>3, <1>4 DEF IInv, World

\* Every step preserves the invariant.
LEMMA StepInv == IInv /\ [Next]_vars => IInv'
<1> SUFFICES ASSUME IInv, [Next]_vars PROVE IInv'
  OBVIOUS
<1>1. CASE AcceptError \/ TimeoutOver \/ StopServing
  <2>1. MaxErrors \in Nat
    BY ServerAssumption DEF ServerAssumption
  <2>2. conn' = conn /\ graceful' = graceful /\ srv = "running" /\ srv' \in {"running", "failed", "done"}
    BY <1>1 DEF AcceptError, TimeoutOver, StopServing, Listening
  <2>3. timeout' \in BOOLEAN
    BY <1>1, Zenon DEF AcceptError, TimeoutOver, StopServing, IInv
  <2>4. errors' = errors \/ (errors < MaxErrors /\ errors' = errors + 1)
    BY <1>1, Zenon DEF AcceptError, TimeoutOver, StopServing
  <2>5. errors \in 0 .. MaxErrors
    BY DEF IInv
  <2>6. errors' \in 0 .. MaxErrors
    BY <2>1, <2>4, <2>5
  <2> QED
    BY <2>2, <2>3, <2>6 DEF IInv
<1>2. CASE SignalReady
  <2>1. \A c \in Conns : ConnOK(conn'[c])
    <3> TAKE c \in Conns
    <3>1. CASE conn[c].task = "queued"
      <4>1. ConnOK(conn[c]) /\ conn[c].open = 0
        BY <3>1 DEF IInv, ConnOK
      <4>2. ConnOK(Close(conn[c], "refused"))
        BY <4>1, CloseFacts
      <4> QED
        BY <1>2, <3>1, <4>2 DEF SignalReady
    <3>2. CASE conn[c].task # "queued"
      BY <1>2, <3>2 DEF SignalReady, IInv
    <3> QED
      BY <3>1, <3>2
  <2>2. conn' = [c \in Conns |-> conn'[c]]
    BY <1>2 DEF SignalReady
  <2> QED
    BY <1>2, <2>1, <2>2 DEF SignalReady, IInv
<1>3. CASE Drained
  BY <1>3 DEF Drained, IInv
<1>4. ASSUME NEW c \in Conns, Connect(c) \/ Accept(c) \/ ServeConnection(c) PROVE IInv'
  <2> DEFINE k == conn[c]
  <2>1. k.task \in {"none", "queued"} /\ ConnOK(k) /\ World
    BY <1>4 DEF Connect, Accept, ServeConnection, IInv
  <2>2. ASSUME NEW t \in {"queued", "connecting", "H1", "Handshaking"}, NEW w
        PROVE  ConnOK([k EXCEPT !.task = t]) /\ ConnOK([k EXCEPT !.task = t, !.wire = w])
    <3>1. k.open = 0 /\ k.up # "pending"
      BY <2>1 DEF ConnOK
    <3> QED
      BY <2>1, <3>1 DEF ConnOK, Fields, Tasks, Live
  <2>3. FirstProto \in {"H1", "Handshaking"}
    BY DEF FirstProto
  <2> HIDE DEF k
  <2>4. PICK q : conn' = [conn EXCEPT ![c] = q] /\ ConnOK(q)
    <3>1. CASE Connect(c)
      BY <2>2, <3>1 DEF Connect, Set, k
    <3>2. CASE Accept(c)
      BY <2>2, <3>2 DEF Accept, Set, Listening, k
    <3>3. CASE ServeConnection(c)
      BY <2>2, <2>3, <3>3 DEF ServeConnection, Set, k
    <3> QED
      BY <1>4, <3>1, <3>2, <3>3
  <2>5. \A x \in Conns : conn'[x] = IF x = c THEN q ELSE conn[x]
    BY <2>4 DEF IInv
  <2>6. conn' = [x \in Conns |-> conn'[x]]
    BY <2>4 DEF IInv
  <2> QED
    BY <2>1, <2>4, <2>5, <2>6 DEF IInv, World, k
<1>5. ASSUME NEW c \in Conns,
             AcceptReset(c) \/ ServiceMade(c) \/ ServiceRefused(c) \/ OnDrain(c) \/ UserShutdown(c)
             \/ ClientClose(c) \/ H1Step(c) \/ H2Step(c) \/ H2ServiceError(c) \/ H2KeepAliveTimedOut(c)
             \/ UpgradedRead(c) \/ Downcast(c) \/ IntoParts(c)
      PROVE  IInv'
  <2>1. ConnOK(conn[c])
    BY DEF IInv
  <2>2. Step(c)
    BY <1>5, <2>1, AcceptingStep, ShutdownStep, ReadStep, H1Steps, H2Steps, Zenon
  <2>3. World
    BY <1>5 DEF AcceptReset, ServiceMade, ServiceRefused, OnDrain, UserShutdown, ClientClose,
         H1Step, H1Read, H1Eof, H1Request, H1Refuse, H1Fallback, H1Respond, H1Switch, H1ServiceError,
         H2Step, H2Handshake, H2HandshakeEof, H2Accept, H2RefuseConnect, H2Respond, H2Closed,
         H2ServiceError, H2KeepAliveTimedOut, UpgradedRead, Downcast, IntoParts, TakeReadBuf
  <2> QED
    BY <2>2, <2>3, StepKeeps
<1>6. CASE UNCHANGED vars
  BY <1>6 DEF vars, IInv
<1> QED
  BY <1>1, <1>2, <1>3, <1>4, <1>5, <1>6 DEF Next, Accepting

\* The invariant holds in every reachable state.
LEMMA InvAlways == Spec => []IInv
BY InitInv, StepInv, PTL DEF Spec

\* The states of the server and its connections are those of the code.
THEOREM TypeCorrect == Spec => []TypeOK
<1>1. IInv => TypeOK
  BY DEF IInv, ConnOK, TypeOK
<1> QED
  BY <1>1, InvAlways, PTL

\* A shutdown, at whatever moment it comes, costs no request under way
\* (Connection::graceful_shutdown).
THEOREM KeepsRequestsCorrect == Spec => []KeepsRequests
<1>1. IInv => KeepsRequests
  BY DEF IInv, ConnOK, KeepsRequests
<1> QED
  BY <1>1, InvAlways, PTL

------------------------------------------------------------------------------
(* The bytes of a connection.                                                *)

\* What was used, what was read, and what was not, in the order the client sent it.
Flow(k) == k.seen \o k.buf \o k.wire

Bytes(k) ==
    /\ k.script \in Seq(Tokens)
    /\ k.wire \in Seq(Tokens) /\ k.buf \in Seq(Tokens) /\ k.seen \in Seq(Tokens)
    /\ k.task = "none" => k.wire = <<>> /\ k.buf = <<>> /\ k.seen = <<>>
    /\ k.task \notin {"none", "closed"} => IsPrefix(Flow(k), k.script)

\* A prefix agrees with the whole, element by element.
LEMMA PrefixElements ==
  ASSUME NEW s \in Seq(Tokens), NEW t \in Seq(Tokens)
  PROVE  IsPrefix(s, t) <=> Len(s) <= Len(t) /\ \A i \in 1 .. Len(s) : s[i] = t[i]
<1>1. SubSeq(s, 1, Len(s)) = s
  BY SubSeqFull
<1>2. ASSUME Len(s) <= Len(t)
      PROVE  s = SubSeq(t, 1, Len(s)) <=> \A i \in 1 .. Len(s) : s[i] = t[i]
  <2>1. Len(s) \in Nat /\ Len(t) \in Nat /\ \A i \in 1 .. Len(t) : t[i] \in Tokens
    BY LenProperties, ElementOfSeq
  <2>2. \A i \in 1 .. Len(s) : t[i] \in Tokens
    BY <1>2, <2>1
  <2>3. /\ SubSeq(t, 1, Len(s)) \in Seq(Tokens)
        /\ Len(SubSeq(t, 1, Len(s))) = IF 1 <= Len(s) THEN Len(s) - 1 + 1 ELSE 0
        /\ \A i \in 1 .. Len(s) - 1 + 1 : SubSeq(t, 1, Len(s))[i] = t[1 + i - 1]
    BY <2>1, <2>2, SubSeqProperties
  <2> DEFINE u == SubSeq(t, 1, Len(s))
  <2>4. u \in Seq(Tokens) /\ Len(u) = Len(s) /\ \A i \in 1 .. Len(s) : u[i] = t[i]
    BY <2>1, <2>3
  <2> HIDE DEF u
  <2>5. (\A i \in 1 .. Len(s) : s[i] = t[i]) => s = u
    BY <2>4, SeqEqual
  <2> QED
    BY <2>4, <2>5 DEF u
<1> QED
  BY <1>1, <1>2 DEF IsPrefix

\* Taking the first of the unread bytes leaves the whole as it was.
LEMMA TakeHead ==
  ASSUME NEW a \in Seq(Tokens), NEW b \in Seq(Tokens), b # <<>>
  PROVE  /\ Append(a, Head(b)) \in Seq(Tokens) /\ Tail(b) \in Seq(Tokens)
         /\ Append(a, Head(b)) \o Tail(b) = a \o b
<1>1. /\ Head(b) \in Tokens /\ Tail(b) \in Seq(Tokens) /\ Len(Tail(b)) = Len(b) - 1
      /\ \A i \in 1 .. Len(Tail(b)) : Tail(b)[i] = b[i + 1]
  BY HeadTailProperties
<1> DEFINE h == Append(a, Head(b))
           t == Tail(b)
<1>2. /\ h \in Seq(Tokens) /\ Len(h) = Len(a) + 1
      /\ \A i \in 1 .. Len(a) : h[i] = a[i]
      /\ h[Len(a) + 1] = Head(b)
  BY <1>1, AppendProperties
<1>3. Len(a) \in Nat /\ Len(b) \in Nat \ {0} /\ Head(b) = b[1]
  BY LenProperties, EmptySeq
<1> HIDE DEF h, t
<1>4. t \in Seq(Tokens) /\ Len(t) = Len(b) - 1 /\ \A i \in 1 .. Len(t) : t[i] = b[i + 1]
  BY <1>1 DEF t
<1>5. /\ h \o t \in Seq(Tokens) /\ Len(h \o t) = Len(h) + Len(t)
      /\ \A i \in 1 .. Len(h) + Len(t) : (h \o t)[i] = IF i <= Len(h) THEN h[i] ELSE t[i - Len(h)]
  BY <1>2, <1>4, ConcatProperties
<1>6. /\ a \o b \in Seq(Tokens) /\ Len(a \o b) = Len(a) + Len(b)
      /\ \A i \in 1 .. Len(a) + Len(b) : (a \o b)[i] = IF i <= Len(a) THEN a[i] ELSE b[i - Len(a)]
  BY ConcatProperties
<1>7. Len(h \o t) = Len(a \o b)
  BY <1>2, <1>3, <1>4, <1>5, <1>6
<1>8. ASSUME NEW i \in 1 .. Len(h \o t) PROVE (h \o t)[i] = (a \o b)[i]
  <2>1. i \in Nat /\ i >= 1 /\ i \in 1 .. Len(h) + Len(t) /\ i \in 1 .. Len(a) + Len(b)
    BY <1>2, <1>3, <1>4, <1>5
  <2>2. CASE i <= Len(a)
    BY <1>2, <1>3, <1>5, <1>6, <2>1, <2>2
  <2>3. CASE i = Len(a) + 1
    BY <1>2, <1>3, <1>5, <1>6, <2>1, <2>3
  <2>4. CASE i > Len(a) + 1
    <3>1. (h \o t)[i] = t[i - Len(h)] /\ (a \o b)[i] = b[i - Len(a)]
      BY <1>2, <1>3, <1>5, <1>6, <2>1, <2>4
    <3>2. i - Len(h) \in 1 .. Len(t) /\ (i - Len(h)) + 1 = i - Len(a)
      BY <1>2, <1>3, <1>4, <2>1, <2>4
    <3> QED
      BY <1>4, <3>1, <3>2
  <2> QED
    BY <1>3, <2>1, <2>2, <2>3, <2>4
<1>9. h \o t = a \o b
  BY <1>5, <1>6, <1>7, <1>8, SeqEqual
<1> QED
  BY <1>2, <1>4, <1>9 DEF h, t

\* A connection that was cut short has sent a prefix of what it would have sent.
LEMMA CutShort ==
  ASSUME NEW a \in Seq(Tokens), NEW w \in Seq(Tokens), NEW s \in Seq(Tokens),
         IsPrefix(a \o w, s), NEW n \in 0 .. Len(w)
  PROVE  SubSeq(w, 1, n) \in Seq(Tokens) /\ IsPrefix(a \o SubSeq(w, 1, n), s)
<1> DEFINE v == SubSeq(w, 1, n)
<1>1. Len(w) \in Nat /\ Len(a) \in Nat /\ Len(s) \in Nat /\ \A i \in 1 .. Len(w) : w[i] \in Tokens
  BY LenProperties, ElementOfSeq
<1>2. n \in Nat /\ n <= Len(w) /\ \A i \in 1 .. n : w[i] \in Tokens
  BY <1>1
<1>3. /\ v \in Seq(Tokens) /\ Len(v) = IF 1 <= n THEN n - 1 + 1 ELSE 0
      /\ \A i \in 1 .. n - 1 + 1 : v[i] = w[1 + i - 1]
  BY <1>2, SubSeqProperties
<1> HIDE DEF v
<1>4. v \in Seq(Tokens) /\ Len(v) = n /\ \A i \in 1 .. n : v[i] = w[i]
  BY <1>2, <1>3
<1>5. /\ a \o v \in Seq(Tokens) /\ Len(a \o v) = Len(a) + n
      /\ \A i \in 1 .. Len(a) + Len(v) : (a \o v)[i] = IF i <= Len(a) THEN a[i] ELSE v[i - Len(a)]
  BY <1>4, ConcatProperties
<1>6. /\ a \o w \in Seq(Tokens) /\ Len(a \o w) = Len(a) + Len(w)
      /\ \A i \in 1 .. Len(a) + Len(w) : (a \o w)[i] = IF i <= Len(a) THEN a[i] ELSE w[i - Len(a)]
  BY ConcatProperties
<1>7. Len(a \o w) <= Len(s) /\ \A i \in 1 .. Len(a \o w) : (a \o w)[i] = s[i]
  BY <1>6, PrefixElements
<1>8. ASSUME NEW i \in 1 .. Len(a \o v) PROVE (a \o v)[i] = s[i]
  <2>1. i \in 1 .. Len(a) + Len(v) /\ i \in 1 .. Len(a) + Len(w) /\ i \in 1 .. Len(a \o w)
    BY <1>1, <1>2, <1>4, <1>5, <1>6
  <2>2. CASE i <= Len(a)
    BY <1>5, <1>6, <1>7, <2>1, <2>2
  <2>3. CASE ~(i <= Len(a))
    <3>1. i - Len(a) \in 1 .. n
      BY <1>1, <1>2, <1>4, <2>1, <2>3
    <3>2. (a \o v)[i] = v[i - Len(a)] /\ (a \o w)[i] = w[i - Len(a)]
      BY <1>5, <1>6, <2>1, <2>3
    <3> QED
      BY <1>4, <1>7, <2>1, <3>1, <3>2
  <2> QED
    BY <2>2, <2>3
<1>9. Len(a \o v) <= Len(s)
  BY <1>1, <1>2, <1>5, <1>6, <1>7
<1>10. IsPrefix(a \o v, s)
  BY <1>5, <1>8, <1>9, PrefixElements
<1> QED
  BY <1>4, <1>10 DEF v

\* What is the same bytes in another place is still what the client sent.
LEMMA SameBytes ==
  ASSUME NEW k, Bytes(k), k.task \notin {"none", "closed"}, NEW r,
         r.script = k.script, r.task # "none",
         r.wire \in Seq(Tokens), r.buf \in Seq(Tokens), r.seen \in Seq(Tokens), Flow(r) = Flow(k)
  PROVE  Bytes(r)
BY DEF Bytes

\* A step that touches no byte.
LEMMA NoBytes ==
  ASSUME NEW k, Bytes(k), k.task \notin {"none", "closed"}, NEW r, r.script = k.script,
         r.task # "none", r.wire = k.wire, r.buf = k.buf, r.seen = k.seen
  PROVE  Bytes(r)
BY DEF Bytes, Flow

\* A closed connection has no bytes left.
LEMMA ClosedBytes ==
  ASSUME NEW k, Bytes(k), NEW why
  PROVE  Bytes(Close(k, why))
<1> DEFINE r == Close(k, why)
<1>1. r.task = "closed" /\ r.script = k.script /\ r.wire = <<>> /\ r.buf = <<>> /\ r.seen = <<>>
  BY DEF Close, NewConn
<1>2. <<>> \in Seq(Tokens)
  BY EmptySeq
<1> HIDE DEF r
<1>3. Bytes(r)
  BY <1>1, <1>2 DEF Bytes
<1> QED
  BY <1>3 DEF r

\* Taking a byte that was buffered, or one that was not when nothing is.
LEMMA TakeBytes ==
  ASSUME NEW k, Bytes(k)
  PROVE  /\ k.buf # <<>> =>
               /\ Tail(k.buf) \in Seq(Tokens) /\ Append(k.seen, Head(k.buf)) \in Seq(Tokens)
               /\ Append(k.seen, Head(k.buf)) \o Tail(k.buf) \o k.wire = Flow(k)
         /\ k.buf = <<>> /\ k.wire # <<>> =>
               /\ Tail(k.wire) \in Seq(Tokens) /\ Append(k.seen, Head(k.wire)) \in Seq(Tokens)
               /\ Append(k.seen, Head(k.wire)) \o k.buf \o Tail(k.wire) = Flow(k)
<1>1. k.wire \in Seq(Tokens) /\ k.buf \in Seq(Tokens) /\ k.seen \in Seq(Tokens)
  BY DEF Bytes
<1>2. ASSUME k.buf # <<>>
      PROVE  /\ Tail(k.buf) \in Seq(Tokens) /\ Append(k.seen, Head(k.buf)) \in Seq(Tokens)
             /\ Append(k.seen, Head(k.buf)) \o Tail(k.buf) \o k.wire = Flow(k)
  <2>1. /\ Tail(k.buf) \in Seq(Tokens) /\ Append(k.seen, Head(k.buf)) \in Seq(Tokens)
        /\ Append(k.seen, Head(k.buf)) \o Tail(k.buf) = k.seen \o k.buf
    BY <1>1, <1>2, TakeHead, Zenon
  <2> QED
    BY <2>1, Zenon DEF Flow
<1>3. ASSUME k.buf = <<>>, k.wire # <<>>
      PROVE  /\ Tail(k.wire) \in Seq(Tokens) /\ Append(k.seen, Head(k.wire)) \in Seq(Tokens)
             /\ Append(k.seen, Head(k.wire)) \o k.buf \o Tail(k.wire) = Flow(k)
  <2>1. /\ Tail(k.wire) \in Seq(Tokens) /\ Append(k.seen, Head(k.wire)) \in Seq(Tokens)
        /\ Append(k.seen, Head(k.wire)) \o Tail(k.wire) = k.seen \o k.wire
    BY <1>1, <1>3, TakeHead, Zenon
  <2>2. k.seen \o k.buf = k.seen
        /\ Append(k.seen, Head(k.wire)) \o k.buf = Append(k.seen, Head(k.wire))
    BY <1>1, <1>3, <2>1, ConcatEmptySeq, Zenon
  <2> QED
    BY <2>1, <2>2, Zenon DEF Flow
<1> QED
  BY <1>2, <1>3

\* Concatenation of byte sequences is associative.
LEMMA Assoc ==
  ASSUME NEW a \in Seq(Tokens), NEW b \in Seq(Tokens), NEW d \in Seq(Tokens)
  PROVE  (a \o b) \o d = a \o (b \o d)
BY ConcatAssociative

\* Reading n bytes of the connection into the buffer.
LEMMA FillBytes ==
  ASSUME NEW k, Bytes(k), NEW n \in 1 .. Len(k.wire)
  PROVE  LET b == k.buf \o SubSeq(k.wire, 1, n)
             w == SubSeq(k.wire, n + 1, Len(k.wire))
         IN  b \in Seq(Tokens) /\ w \in Seq(Tokens) /\ k.seen \o b \o w = Flow(k)
<1> DEFINE u == SubSeq(k.wire, 1, n)
           w == SubSeq(k.wire, n + 1, Len(k.wire))
<1>1. k.wire \in Seq(Tokens) /\ k.buf \in Seq(Tokens) /\ k.seen \in Seq(Tokens)
  BY DEF Bytes
<1>2. Len(k.wire) \in Nat /\ n \in Nat /\ n <= Len(k.wire) /\ 1 <= n
      /\ \A i \in 1 .. Len(k.wire) : k.wire[i] \in Tokens
  BY <1>1, LenProperties, ElementOfSeq
<1>3. (\A i \in 1 .. n : k.wire[i] \in Tokens)
      /\ (\A i \in n + 1 .. Len(k.wire) : k.wire[i] \in Tokens)
  BY <1>2
<1>4. u \in Seq(Tokens) /\ w \in Seq(Tokens)
  BY <1>2, <1>3, SubSeqProperties
<1>5. 1 \in 1 .. Len(k.wire) + 1 /\ n \in 1 - 1 .. Len(k.wire) /\ Len(k.wire) \in n .. Len(k.wire)
  BY <1>2
<1>6. u \o w = SubSeq(k.wire, 1, Len(k.wire))
  BY <1>1, <1>5, ConcatAdjacentSubSeq
<1>7. u \o w = k.wire
  BY <1>1, <1>6, SubSeqFull
<1> HIDE DEF u, w
<1>8. k.buf \o u \in Seq(Tokens) /\ k.seen \o k.buf \in Seq(Tokens)
  BY <1>1, <1>4, ConcatProperties, Zenon
<1>9. k.seen \o (k.buf \o u) = (k.seen \o k.buf) \o u
  BY <1>1, <1>4, Assoc
<1>10. ((k.seen \o k.buf) \o u) \o w = (k.seen \o k.buf) \o (u \o w)
  BY <1>4, <1>8, Assoc
<1>11. k.seen \o (k.buf \o u) \o w = Flow(k)
  BY <1>7, <1>9, <1>10 DEF Flow
<1> QED
  BY <1>4, <1>8, <1>11 DEF u, w

\* A step that keeps the bytes of c.
BytesStep(c) == \E r : Bytes(r) /\ Set(c, r)

\* Ending HTTP/1 keeps the bytes for the one who upgrades.
LEMMA H1DoneBytes ==
  ASSUME NEW k, DOMAIN k = Fields, Bytes(k), k.task \notin {"none", "closed"}, NEW why
  PROVE  Bytes(H1Done(k, why))
<1>1. Bytes(Close(k, why))
  BY ClosedBytes
<1>2. Bytes(Fulfill(k))
  <2> DEFINE r == Fulfill(k)
  <2>1. r.script = k.script /\ r.task # "none" /\ r.wire = k.wire /\ r.buf = k.buf /\ r.seen = k.seen
    BY DEF Fulfill, Fields
  <2> HIDE DEF r
  <2>2. Bytes(r)
    BY <2>1, NoBytes
  <2> QED
    BY <2>2 DEF r
<1>3. Bytes(Manual(k))
  <2> DEFINE r == Manual(k)
  <2>1. r.script = k.script /\ r.task # "none" /\ r.wire = k.wire /\ r.buf = k.buf /\ r.seen = k.seen
    BY DEF Manual, Fields
  <2> HIDE DEF r
  <2>2. Bytes(r)
    BY <2>1, NoBytes
  <2> QED
    BY <2>2 DEF r
<1> QED
  BY <1>1, <1>2, <1>3 DEF H1Done

\* Accepting and making the service lose no byte.
LEMMA AcceptingBytes ==
  ASSUME NEW c \in Conns, DOMAIN conn[c] = Fields, Bytes(conn[c]),
         Accept(c) \/ AcceptReset(c) \/ ServiceMade(c) \/ ServiceRefused(c)
  PROVE  BytesStep(c)
<1> DEFINE k == conn[c]
           q == [k EXCEPT !.task = "connecting"]
           w == Watch(k)
<1>1. k.task \in {"queued", "connecting"}
  BY DEF Accept, AcceptReset, ServiceMade, ServiceRefused
<1>2. q.script = k.script /\ q.task # "none" /\ q.wire = k.wire /\ q.buf = k.buf /\ q.seen = k.seen
  BY DEF Fields
<1>3. w.script = k.script /\ w.task # "none" /\ w.wire = k.wire /\ w.buf = k.buf /\ w.seen = k.seen
  BY DEF Watch, FirstProto, Fields
<1>4. \A why : Bytes(Close(k, why))
  BY ClosedBytes
<1> HIDE DEF q, w
<1>5. Bytes(q) /\ Bytes(w)
  BY <1>1, <1>2, <1>3, NoBytes
<1> QED
  BY <1>4, <1>5 DEF BytesStep, Accept, AcceptReset, ServiceMade, ServiceRefused, q, w

\* A client that connects sends its script.
LEMMA ConnectBytes ==
  ASSUME NEW c \in Conns, DOMAIN conn[c] = Fields, Bytes(conn[c]), Connect(c) \/ ServeConnection(c)
  PROVE  BytesStep(c)
<1> DEFINE k == conn[c]
<1>1. k.task = "none" /\ k.script \in Seq(Tokens) /\ k.buf = <<>> /\ k.seen = <<>>
  BY DEF Connect, ServeConnection, Bytes
<1>2. /\ <<>> \o <<>> = <<>> /\ <<>> \o k.script = k.script
      /\ <<>> \in Seq(Tokens)
  BY <1>1, ConcatEmptySeq, EmptySeq
<1>3. IsPrefix(k.script, k.script)
  BY <1>1 DEF IsPrefix
<1>4. ASSUME NEW t \in {"queued", "H1", "Handshaking"}
      PROVE  Bytes([k EXCEPT !.task = t, !.wire = k.script])
  <2> DEFINE r == [k EXCEPT !.task = t, !.wire = k.script]
  <2>1. r.task = t /\ r.script = k.script /\ r.wire = k.script /\ r.buf = <<>> /\ r.seen = <<>>
    BY <1>1 DEF Fields
  <2> HIDE DEF r
  <2>2. IsPrefix(Flow(r), r.script)
    BY <1>2, <1>3, <2>1 DEF Flow
  <2>3. Bytes(r)
    BY <1>1, <1>2, <2>1, <2>2 DEF Bytes
  <2> QED
    BY <2>3 DEF r
<1>5. FirstProto \in {"H1", "Handshaking"}
  BY DEF FirstProto
<1> HIDE DEF k
<1> QED
  BY <1>4, <1>5 DEF BytesStep, Connect, ServeConnection, k

\* Telling a connection to shut down loses no byte.
LEMMA ShutdownBytes ==
  ASSUME NEW c \in Conns, DOMAIN conn[c] = Fields, Bytes(conn[c]), OnDrain(c) \/ UserShutdown(c)
  PROVE  BytesStep(c)
<1> DEFINE k == conn[c]
           l == [k EXCEPT !.told = TRUE, !.ka = "Disabled"]
           g == [k EXCEPT !.told = TRUE, !.goaway = TRUE]
<1>1. k.task \in Serving /\ Set(c, GracefulShutdown(k))
  BY DEF OnDrain, UserShutdown
<1>2. k.task \notin {"none", "closed"}
  BY <1>1 DEF Serving, Live
<1>3. /\ DOMAIN l = Fields /\ l.script = k.script /\ l.task = k.task
      /\ l.wire = k.wire /\ l.buf = k.buf /\ l.seen = k.seen
  BY DEF Fields
<1>4. g.script = k.script /\ g.task = k.task /\ g.wire = k.wire /\ g.buf = k.buf /\ g.seen = k.seen
  BY DEF Fields
<1> HIDE DEF l, g
<1>5. Bytes(l) /\ Bytes(g)
  BY <1>2, <1>3, <1>4, NoBytes
<1>6. Bytes(H1Done(l, "drained")) /\ Bytes(Close(k, "drained"))
  BY <1>2, <1>3, <1>5, H1DoneBytes, ClosedBytes
<1>7. GracefulShutdown(k) \in {l, g, H1Done(l, "drained"), Close(k, "drained")}
  BY DEF GracefulShutdown, DisableKeepAlive, H2GracefulShutdown, l, g
<1> QED
  BY <1>1, <1>5, <1>6, <1>7 DEF BytesStep

\* A client that stops sending cuts only what it had not yet sent.
LEMMA ClientCloseBytes ==
  ASSUME NEW c \in Conns, DOMAIN conn[c] = Fields, Bytes(conn[c]), ClientClose(c)
  PROVE  BytesStep(c)
<1> DEFINE k == conn[c]
<1>1. PICK n \in 0 .. Len(k.wire) : Set(c, [k EXCEPT !.eof = TRUE, !.wire = SubSeq(k.wire, 1, n)])
  BY DEF ClientClose
<1> DEFINE r == [k EXCEPT !.eof = TRUE, !.wire = SubSeq(k.wire, 1, n)]
<1>2. /\ r.script = k.script /\ r.task = k.task /\ r.buf = k.buf /\ r.seen = k.seen
      /\ r.wire = SubSeq(k.wire, 1, n)
  BY DEF Fields
<1>3. k.task \notin {"none", "closed"}
  BY DEF ClientClose, Live
<1>4. /\ k.wire \in Seq(Tokens) /\ k.script \in Seq(Tokens) /\ k.buf \in Seq(Tokens)
      /\ k.seen \in Seq(Tokens) /\ IsPrefix((k.seen \o k.buf) \o k.wire, k.script)
  BY <1>3 DEF Bytes, Flow
<1>5. k.seen \o k.buf \in Seq(Tokens)
  BY <1>4, ConcatProperties, Zenon
<1> HIDE DEF r, k
<1>6. /\ SubSeq(k.wire, 1, n) \in Seq(Tokens)
      /\ IsPrefix((k.seen \o k.buf) \o SubSeq(k.wire, 1, n), k.script)
  BY <1>4, <1>5, CutShort
<1>7. Bytes(r)
  BY <1>2, <1>3, <1>4, <1>6 DEF Bytes, Flow
<1> QED
  BY <1>1, <1>7 DEF BytesStep, r

\* Reading moves bytes from the wire to the buffer in their order.
LEMMA H1ReadBytes ==
  ASSUME NEW c \in Conns, DOMAIN conn[c] = Fields, Bytes(conn[c]), H1Read(c)
  PROVE  BytesStep(c)
<1> DEFINE k == conn[c]
<1>1. PICK n \in 1 .. Len(k.wire) :
         Set(c, [k EXCEPT !.buf = k.buf \o SubSeq(k.wire, 1, n),
                          !.wire = SubSeq(k.wire, n + 1, Len(k.wire))])
  BY DEF H1Read
<1> DEFINE b == k.buf \o SubSeq(k.wire, 1, n)
           w == SubSeq(k.wire, n + 1, Len(k.wire))
           r == [k EXCEPT !.buf = b, !.wire = w]
<1>2. k.task = "H1"
  BY DEF H1Read
<1>3. b \in Seq(Tokens) /\ w \in Seq(Tokens) /\ k.seen \o b \o w = Flow(k)
  BY FillBytes
<1>4. k.seen \in Seq(Tokens)
  BY DEF Bytes
<1>5. Set(c, r)
  BY <1>1
<1> HIDE DEF b, w
<1>6. r.script = k.script /\ r.task = "H1" /\ r.buf = b /\ r.wire = w /\ r.seen = k.seen
  BY <1>2 DEF Fields
<1> HIDE DEF r
<1>7. Bytes(r)
  BY <1>2, <1>3, <1>4, <1>6, SameBytes DEF Flow
<1> QED
  BY <1>5, <1>7 DEF BytesStep

\* What is the same as k but for the bytes that are used, and what is not of bytes.
Used(k, r) ==
    /\ r.script = k.script /\ r.task # "none"
    /\ \/ /\ k.buf # <<>> /\ r.wire = k.wire
          /\ r.buf = Tail(k.buf) /\ r.seen = Append(k.seen, Head(k.buf))
       \/ /\ k.buf = <<>> /\ k.wire # <<>> /\ r.buf = k.buf
          /\ r.wire = Tail(k.wire) /\ r.seen = Append(k.seen, Head(k.wire))

\* What takes the first byte of the buffer, or of the wire behind an empty one, keeps the order.
LEMMA UsedBytes ==
  ASSUME NEW k, Bytes(k), k.task \notin {"none", "closed"}, NEW r, Used(k, r)
  PROVE  Bytes(r)
<1>1. CASE k.buf # <<>>
  <2>1. /\ Tail(k.buf) \in Seq(Tokens) /\ Append(k.seen, Head(k.buf)) \in Seq(Tokens)
        /\ Append(k.seen, Head(k.buf)) \o Tail(k.buf) \o k.wire = Flow(k)
    BY <1>1, TakeBytes
  <2>2. /\ r.wire = k.wire /\ r.buf = Tail(k.buf) /\ r.seen = Append(k.seen, Head(k.buf))
        /\ r.script = k.script /\ r.task # "none" /\ k.wire \in Seq(Tokens)
    BY <1>1 DEF Used, Bytes
  <2>3. Flow(r) = Flow(k)
    BY <2>1, <2>2, Zenon DEF Flow
  <2> QED
    BY <2>1, <2>2, <2>3, SameBytes
<1>2. CASE k.buf = <<>>
  <2>1. r.buf = k.buf /\ k.wire # <<>> /\ r.wire = Tail(k.wire) /\ r.seen = Append(k.seen, Head(k.wire))
        /\ r.script = k.script /\ r.task # "none" /\ k.buf \in Seq(Tokens)
    BY <1>2 DEF Used, Bytes
  <2>2. /\ Tail(k.wire) \in Seq(Tokens) /\ Append(k.seen, Head(k.wire)) \in Seq(Tokens)
        /\ Append(k.seen, Head(k.wire)) \o k.buf \o Tail(k.wire) = Flow(k)
    BY <1>2, <2>1, TakeBytes
  <2>3. Flow(r) = Flow(k)
    BY <2>1, <2>2, Zenon DEF Flow
  <2> QED
    BY <2>1, <2>2, <2>3, SameBytes
<1> QED
  BY <1>1, <1>2

\* Reading the upgraded stream, downcast and into_parts lose no byte.
LEMMA UpgradedBytes ==
  ASSUME NEW c \in Conns, DOMAIN conn[c] = Fields, Bytes(conn[c]),
         UpgradedRead(c) \/ Downcast(c) \/ IntoParts(c)
  PROVE  BytesStep(c)
<1> DEFINE k == conn[c]
<1>1. k.task = "upgraded" /\ k.wire \in Seq(Tokens) /\ k.buf \in Seq(Tokens) /\ k.seen \in Seq(Tokens)
  BY DEF UpgradedRead, Downcast, IntoParts, Bytes
<1>2. CASE UpgradedRead(c)
  <2> DEFINE a == [k EXCEPT !.buf = Tail(@), !.seen = Append(@, Head(k.buf))]
             b == [k EXCEPT !.wire = Tail(@), !.seen = Append(@, Head(k.wire))]
  <2>1. <<>> \o <<>> = <<>>
    BY EmptySeq, ConcatEmptySeq
  <2>2. k.buf = <<>> => k.wire # <<>>
    BY <1>2, <2>1 DEF UpgradedRead
  <2>3. k.buf # <<>> => Used(k, a)
    BY <1>1 DEF Used, Fields
  <2>4. k.buf = <<>> => Used(k, b)
    BY <1>1, <2>2 DEF Used, Fields
  <2>5. Set(c, IF k.buf # <<>> THEN a ELSE b)
    BY <1>2 DEF UpgradedRead
  <2> HIDE DEF a, b
  <2>6. (k.buf # <<>> => Bytes(a)) /\ (k.buf = <<>> => Bytes(b))
    BY <1>1, <2>3, <2>4, UsedBytes
  <2> QED
    BY <2>5, <2>6 DEF BytesStep
<1>3. CASE Downcast(c) \/ IntoParts(c)
  <2> DEFINE r == [k EXCEPT !.buf = <<>>, !.seen = @ \o k.buf]
  <2>1. Set(c, r)
    BY <1>3 DEF Downcast, IntoParts, TakeReadBuf
  <2>2. /\ r.script = k.script /\ r.task = k.task /\ r.wire = k.wire
        /\ r.buf = <<>> /\ r.seen = k.seen \o k.buf
    BY DEF Fields
  <2>3. <<>> \in Seq(Tokens) /\ k.seen \o k.buf \in Seq(Tokens)
    BY <1>1, EmptySeq, ConcatProperties, Zenon
  <2>4. (k.seen \o k.buf) \o <<>> = k.seen \o k.buf
    BY <2>3, ConcatEmptySeq, Zenon
  <2> HIDE DEF r
  <2>5. Flow(r) = Flow(k)
    BY <2>2, <2>4, Zenon DEF Flow
  <2>6. Bytes(r)
    BY <1>1, <2>2, <2>3, <2>5, SameBytes
  <2> QED
    BY <2>1, <2>6 DEF BytesStep
<1> QED
  BY <1>2, <1>3

\* No step of an HTTP/1 connection loses a byte.
LEMMA H1StepBytes ==
  ASSUME NEW c \in Conns, DOMAIN conn[c] = Fields, Bytes(conn[c]), H1Step(c)
  PROVE  BytesStep(c)
<1> DEFINE k == conn[c]
<1>1. k.task = "H1"
  BY DEF H1Step, H1Read, H1Eof, H1Request, H1Refuse, H1Fallback, H1Respond, H1Switch, H1ServiceError
<1>2. \A why : Bytes(Close(k, why)) /\ Bytes(H1Done(k, why))
  BY <1>1, ClosedBytes, H1DoneBytes
<1>3. CASE H1Read(c)
  BY <1>3, H1ReadBytes
<1>4. CASE H1Request(c)
  <2>1. PICK last \in BOOLEAN :
          Set(c, [k EXCEPT !.open = 1, !.buf = Tail(k.buf), !.seen = Append(@, Head(k.buf)),
                           !.ka = IF @ = "Disabled" \/ last THEN "Disabled" ELSE "Busy",
                           !.up = IF Head(k.buf) = "U" THEN "pending" ELSE @])
    BY <1>4 DEF H1Request
  <2> DEFINE r == [k EXCEPT !.open = 1, !.buf = Tail(k.buf), !.seen = Append(@, Head(k.buf)),
                           !.ka = IF @ = "Disabled" \/ last THEN "Disabled" ELSE "Busy",
                           !.up = IF Head(k.buf) = "U" THEN "pending" ELSE @]
  <2>2. k.buf # <<>>
    BY <1>4 DEF H1Request
  <2>3. Used(k, r)
    BY <1>1, <2>2 DEF Used, Fields
  <2> HIDE DEF r
  <2>4. Bytes(r)
    BY <1>1, <2>3, UsedBytes
  <2> QED
    BY <2>1, <2>4 DEF BytesStep, r
<1>5. CASE H1Eof(c) \/ H1Refuse(c) \/ H1ServiceError(c)
  BY <1>2, <1>5 DEF BytesStep, H1Eof, H1Refuse, H1ServiceError
<1>6. CASE H1Fallback(c)
  <2> DEFINE r == UpgradeH2(k)
  <2>1. Set(c, r)
    BY <1>6 DEF H1Fallback
  <2>2. r.script = k.script /\ r.task # "none" /\ r.wire = k.wire /\ r.buf = k.buf /\ r.seen = k.seen
    BY DEF UpgradeH2, Fields
  <2> HIDE DEF r
  <2>3. Bytes(r)
    BY <1>1, <2>2, NoBytes
  <2> QED
    BY <2>1, <2>3 DEF BytesStep
<1>7. CASE H1Respond(c) \/ H1Switch(c)
  <2> DEFINE a == [k EXCEPT !.open = 0]
             b == [k EXCEPT !.open = 0, !.ka = "Disabled"]
             d == [k EXCEPT !.open = 0, !.ka = "Idle"]
  <2>1. /\ DOMAIN a = Fields /\ a.script = k.script /\ a.task = "H1"
        /\ a.wire = k.wire /\ a.buf = k.buf /\ a.seen = k.seen
    BY <1>1 DEF Fields
  <2>2. /\ DOMAIN b = Fields /\ b.script = k.script /\ b.task = "H1"
        /\ b.wire = k.wire /\ b.buf = k.buf /\ b.seen = k.seen
    BY <1>1 DEF Fields
  <2>3. d.script = k.script /\ d.task = "H1" /\ d.wire = k.wire /\ d.buf = k.buf /\ d.seen = k.seen
    BY <1>1 DEF Fields
  <2> HIDE DEF a, b, d
  <2>4. Bytes(a) /\ Bytes(b) /\ Bytes(d)
    BY <1>1, <2>1, <2>2, <2>3, NoBytes
  <2>5. Bytes(H1Done(a, "last")) /\ Bytes(H1Done(b, "last"))
    BY <2>1, <2>2, <2>4, H1DoneBytes
  <2>6. CASE H1Respond(c)
    BY <2>4, <2>5, <2>6 DEF BytesStep, H1Respond, a, d
  <2>7. CASE H1Switch(c)
    BY <2>5, <2>7 DEF BytesStep, H1Switch, b
  <2> QED
    BY <1>7, <2>6, <2>7
<1> QED
  BY <1>3, <1>4, <1>5, <1>6, <1>7 DEF H1Step

\* Rewind gives the bytes in the order they came.
LEMMA RewindBytes ==
  ASSUME NEW k, DOMAIN k = Fields, Bytes(k), k.task \notin {"none", "closed"}, Unread(k)
  PROVE  LET r == Rewind(k).k
         IN  DOMAIN r = Fields /\ Bytes(r) /\ r.task = k.task
<1> DEFINE a == [k EXCEPT !.buf = Tail(@), !.seen = Append(@, Head(k.buf))]
           b == [k EXCEPT !.wire = Tail(@), !.seen = Append(@, Head(k.wire))]
<1>1. <<>> \o <<>> = <<>>
  BY EmptySeq, ConcatEmptySeq
<1>2. k.buf = <<>> => k.wire # <<>>
  BY <1>1 DEF Unread
<1>3. DOMAIN a = Fields /\ a.task = k.task /\ (k.buf # <<>> => Used(k, a))
  BY DEF Used, Fields
<1>4. DOMAIN b = Fields /\ b.task = k.task /\ (k.buf = <<>> => Used(k, b))
  BY <1>2 DEF Used, Fields
<1>5. Rewind(k).k = IF k.buf # <<>> THEN a ELSE b
  BY DEF Rewind
<1> HIDE DEF a, b
<1>6. (k.buf # <<>> => Bytes(a)) /\ (k.buf = <<>> => Bytes(b))
  BY <1>3, <1>4, UsedBytes
<1> QED
  BY <1>3, <1>4, <1>5, <1>6

\* No step of an HTTP/2 connection loses a byte: the rewound preface is read first.
LEMMA H2StepBytes ==
  ASSUME NEW c \in Conns, DOMAIN conn[c] = Fields, Bytes(conn[c]),
         H2Step(c) \/ H2ServiceError(c) \/ H2KeepAliveTimedOut(c)
  PROVE  BytesStep(c)
<1> DEFINE k == conn[c]
           r == Rewind(k).k
<1>1. k.task \in {"Handshaking", "Serving"}
  BY DEF H2Step, H2Handshake, H2HandshakeEof, H2Accept, H2RefuseConnect, H2Respond, H2Closed,
         H2ServiceError, H2KeepAliveTimedOut
<1>2. Unread(k) => DOMAIN r = Fields /\ Bytes(r) /\ r.task = k.task
  BY <1>1, RewindBytes
<1>3. \A why : Bytes(Close(k, why)) /\ (Unread(k) => Bytes(Close(r, why)))
  BY <1>2, ClosedBytes
<1> HIDE DEF r
<1>4. CASE H2Handshake(c)
  <2> DEFINE s == [r EXCEPT !.task = "Serving"]
  <2>1. Unread(k)
    BY <1>4 DEF H2Handshake
  <2>2. s.script = r.script /\ s.task # "none" /\ s.wire = r.wire /\ s.buf = r.buf /\ s.seen = r.seen
    BY <1>2, <2>1 DEF Fields
  <2>3. \E x \in {s, r, Close(r, "refused")} : Set(c, x)
    BY <1>4 DEF H2Handshake, r
  <2> HIDE DEF s
  <2>4. Bytes(s)
    BY <1>1, <1>2, <2>1, <2>2, NoBytes
  <2> QED
    BY <1>2, <1>3, <2>1, <2>3, <2>4 DEF BytesStep
<1>5. CASE H2HandshakeEof(c) \/ H2Closed(c)
  BY <1>3, <1>5 DEF BytesStep, H2HandshakeEof, H2Closed
<1>6. CASE H2Accept(c)
  <2> DEFINE s == [r EXCEPT !.open = @ + 1]
  <2>1. Unread(k)
    BY <1>6 DEF H2Accept
  <2>2. s.script = r.script /\ s.task = r.task /\ s.wire = r.wire /\ s.buf = r.buf /\ s.seen = r.seen
    BY <1>2, <2>1 DEF Fields
  <2>3. Set(c, s) \/ Set(c, r)
    BY <1>6 DEF H2Accept, r
  <2> HIDE DEF s
  <2>4. Bytes(s)
    BY <1>1, <1>2, <2>1, <2>2, NoBytes
  <2> QED
    BY <1>2, <2>1, <2>3, <2>4 DEF BytesStep
<1>7. CASE H2RefuseConnect(c)
  BY <1>3, <1>7 DEF BytesStep, H2RefuseConnect, r
<1>8. CASE H2Respond(c)
  <2> DEFINE s == [k EXCEPT !.open = @ - 1]
  <2>1. s.script = k.script /\ s.task = k.task /\ s.wire = k.wire /\ s.buf = k.buf /\ s.seen = k.seen
    BY DEF Fields
  <2> HIDE DEF s
  <2>2. Bytes(s)
    BY <1>1, <2>1, NoBytes
  <2> QED
    BY <1>8, <2>2 DEF BytesStep, H2Respond, s
<1>9. CASE H2ServiceError(c)
  <2> DEFINE s == [k EXCEPT !.goaway = TRUE, !.closing = TRUE]
  <2>1. s.script = k.script /\ s.task = k.task /\ s.wire = k.wire /\ s.buf = k.buf /\ s.seen = k.seen
    BY DEF Fields
  <2> HIDE DEF s
  <2>2. Bytes(s)
    BY <1>1, <2>1, NoBytes
  <2> QED
    BY <1>3, <1>9, <2>2 DEF BytesStep, H2ServiceError, s
<1>10. CASE H2KeepAliveTimedOut(c)
  BY <1>3, <1>10 DEF BytesStep, H2KeepAliveTimedOut
<1> QED
  BY <1>4, <1>5, <1>6, <1>7, <1>8, <1>9, <1>10 DEF H2Step

\* Every connection's bytes are what its client sent.
BytesInv == IInv /\ \A c \in Conns : Bytes(conn[c])

\* Before anything is accepted no byte was read.
LEMMA BytesInit == Init => BytesInv
<1> SUFFICES ASSUME Init PROVE BytesInv
  OBVIOUS
<1>1. PICK plan \in [Conns -> UNION {Plans[c] : c \in Conns}] :
         /\ \A c \in Conns : plan[c] \in Plans[c]
         /\ conn = [c \in Conns |-> NewConn(plan[c].by, plan[c].script)]
  BY DEF Init
<1>2. \A c \in Conns : plan[c].script \in Seq(Tokens)
  BY <1>1, ServerAssumption DEF ServerAssumption
<1>3. ASSUME NEW c \in Conns PROVE Bytes(conn[c])
  <2>1. /\ conn[c].task = "none" /\ conn[c].script = plan[c].script
        /\ conn[c].wire = <<>> /\ conn[c].buf = <<>> /\ conn[c].seen = <<>>
    BY <1>1 DEF NewConn
  <2>2. <<>> \in Seq(Tokens)
    BY EmptySeq
  <2> QED
    BY <1>2, <2>1, <2>2 DEF Bytes
<1> QED
  BY <1>3, InitInv DEF BytesInv

\* Every step keeps the bytes read, buffered and in flight in the order sent.
LEMMA BytesNext == BytesInv /\ [Next]_vars => BytesInv'
<1> SUFFICES ASSUME BytesInv, [Next]_vars PROVE BytesInv'
  OBVIOUS
<1>1. IInv'
  BY StepInv DEF BytesInv
<1>2. \A c \in Conns : DOMAIN conn[c] = Fields /\ Bytes(conn[c])
  BY DEF BytesInv, IInv, ConnOK
<1>3. ASSUME NEW c \in Conns, BytesStep(c) PROVE \A x \in Conns : Bytes(conn'[x])
  <2>1. PICK r : Bytes(r) /\ conn' = [conn EXCEPT ![c] = r]
    BY <1>3 DEF BytesStep, Set
  <2>2. \A x \in Conns : conn'[x] = IF x = c THEN r ELSE conn[x]
    BY <2>1 DEF BytesInv, IInv
  <2> QED
    BY <1>2, <2>1, <2>2
<1>4. CASE AcceptError \/ TimeoutOver \/ StopServing \/ Drained \/ UNCHANGED vars
  <2>1. conn' = conn
    BY <1>4 DEF AcceptError, TimeoutOver, StopServing, Drained, vars
  <2> QED
    BY <1>1, <1>2, <2>1 DEF BytesInv
<1>5. CASE SignalReady
  <2>1. \A c \in Conns : conn'[c] = IF conn[c].task = "queued" THEN Close(conn[c], "refused") ELSE conn[c]
    BY <1>5 DEF SignalReady
  <2>2. \A c \in Conns : Bytes(conn'[c])
    BY <1>2, <2>1, ClosedBytes
  <2> QED
    BY <1>1, <2>2 DEF BytesInv
<1>6. ASSUME NEW c \in Conns,
             \/ Connect(c) \/ ServeConnection(c) \/ Accepting(c)
             \/ OnDrain(c) \/ UserShutdown(c) \/ ClientClose(c)
             \/ H1Step(c) \/ H2Step(c) \/ H2ServiceError(c) \/ H2KeepAliveTimedOut(c)
             \/ UpgradedRead(c) \/ Downcast(c) \/ IntoParts(c)
      PROVE  BytesInv'
  <2>1. BytesStep(c)
    BY <1>2, <1>6, ConnectBytes, AcceptingBytes, ShutdownBytes, ClientCloseBytes, H1StepBytes,
       H2StepBytes, UpgradedBytes, Zenon DEF Accepting
  <2> QED
    BY <1>1, <1>3, <2>1 DEF BytesInv
<1> QED
  BY <1>4, <1>5, <1>6 DEF Next

\* No byte is lost, repeated or reordered when a connection goes from HTTP/1 to
\* HTTP/2 or to the user of an upgrade (upgrade_h2, Rewind, Upgraded, into_parts).
THEOREM RewoundCorrect == Spec => []Rewound
<1>1. BytesInv => Rewound
  BY DEF BytesInv, Bytes, Flow, Rewound
<1> QED
  BY <1>1, BytesInit, BytesNext, PTL DEF Spec

==============================================================================
