------------------------------ MODULE H2Proofs -------------------------------
(***************************************************************************)
(* Proofs about H2Conn: for any number of requests, any sizes and windows, *)
(* the connection is kept while a request's body is sent, a body is never  *)
(* seen to end before it does, and the window estimate only grows.         *)
(***************************************************************************)
EXTENDS H2Conn, FiniteSetTheorems, TLAPS

-----------------------------------------------------------------------------
(* The pings.                                                              *)

Pings == [bdpOn : BOOLEAN, whileIdle : BOOLEAN,
          state : {"none", "Init", "Scheduled", "PingSent"}, timer : {"set", "elapsed"},
          armed : BOOLEAN, read : BOOLEAN, sent : BOOLEAN, next : {"none", "later", "due"},
          bytes : 0 .. BdpLimit, bdp : 2 .. BdpLimit, timedOut : BOOLEAN]

\* The state ping::channel starts with.
LEMMA ChannelFacts ==
  ASSUME NEW b \in BOOLEAN, NEW k \in BOOLEAN, NEW w \in BOOLEAN
  PROVE  /\ Channel(b, k, w) \in Pings /\ ~Channel(b, k, w).sent
         /\ ~Channel(b, k, w).timedOut /\ Channel(b, k, w).bdp = FirstWindow
BY PingAssumption DEF Channel, Pings

\* What a Recorder does leaves the estimate alone, and times nothing out.
LEMMA RecordFacts ==
  ASSUME NEW p \in Pings, NEW n \in Nat,
         NEW q \in {RecordNonData(p), RecordData(p, n)}
  PROVE  q \in Pings /\ q.bdp = p.bdp /\ q.timedOut = p.timedOut /\ (p.sent => q.sent)
<1> DEFINE u == UpdateLastReadAt(p)
<1>1. u \in Pings /\ u.bdp = p.bdp /\ u.timedOut = p.timedOut /\ u.sent = p.sent
  BY Zenon DEF UpdateLastReadAt, Pings
<1> DEFINE c == IF u.bytes + n > BdpLimit THEN BdpLimit ELSE u.bytes + n
           s == [u EXCEPT !.next = "none", !.bytes = c]
<1>2. c \in 0 .. BdpLimit
  BY <1>1, PingAssumption DEF Pings
<1> HIDE DEF c, u
<1>3. s \in Pings /\ s.bdp = p.bdp /\ s.timedOut = p.timedOut /\ s.sent = p.sent
  BY <1>1, <1>2, Zenon DEF Pings
<1> HIDE DEF s
<1>4. SendPing(s) \in Pings /\ SendPing(s).bdp = p.bdp /\ SendPing(s).timedOut = p.timedOut
      /\ SendPing(s).sent
  BY <1>3, Zenon DEF SendPing, Pings
<1>5. [u EXCEPT !.next = "none"] \in Pings /\ [u EXCEPT !.next = "none"].bdp = p.bdp
      /\ [u EXCEPT !.next = "none"].timedOut = p.timedOut /\ [u EXCEPT !.next = "none"].sent = p.sent
  BY <1>1 DEF Pings
<1>6. q \in {u, s, SendPing(s), [u EXCEPT !.next = "none"]}
  BY DEF RecordNonData, RecordData, u, s, c
<1> QED
  BY <1>1, <1>3, <1>4, <1>5, <1>6, Zenon

\* schedule and maybe_ping: nothing times out in them, and a ping that is under
\* way stays so.
LEMMA KeepAliveFacts ==
  ASSUME NEW p \in Pings, NEW idle \in BOOLEAN
  PROVE  /\ Schedule(p, idle) \in Pings /\ Schedule(p, idle).sent = p.sent
         /\ Schedule(p, idle).bdp = p.bdp /\ Schedule(p, idle).timedOut = p.timedOut
         /\ Schedule(p, idle).bdpOn = p.bdpOn /\ Schedule(p, idle).bytes = p.bytes
         /\ KeepAlivePoll(p, idle) \in Pings /\ (p.sent => KeepAlivePoll(p, idle).sent)
         /\ KeepAlivePoll(p, idle).bdp = p.bdp /\ KeepAlivePoll(p, idle).timedOut = p.timedOut
<1> DEFINE s == Schedule(p, idle)
<1>1. s \in Pings /\ s.sent = p.sent /\ s.bdp = p.bdp /\ s.timedOut = p.timedOut
      /\ s.bdpOn = p.bdpOn /\ s.bytes = p.bytes
  BY ZenonT(40) DEF Schedule, SetTimer, Pings
<1> HIDE DEF s
<1>2. MaybePing(s) \in Pings /\ (s.sent => MaybePing(s).sent) /\ MaybePing(s).bdp = s.bdp
      /\ MaybePing(s).timedOut = s.timedOut
  <2>1. CASE s.state # "Scheduled"
    BY <1>1, <2>1 DEF MaybePing
  <2>2. CASE s.state = "Scheduled" /\ s.timer = "set"
    BY <1>1, <2>2, Zenon DEF MaybePing, PollTimer, Pings
  <2>3. CASE s.state = "Scheduled" /\ s.timer = "elapsed" /\ s.read
    BY <1>1, <2>3, Zenon DEF MaybePing, Pings
  <2>4. CASE s.state = "Scheduled" /\ s.timer = "elapsed" /\ ~s.read
    BY <1>1, <2>4, Zenon DEF MaybePing, SetTimer, SendPing, Pings
  <2> QED
    BY <1>1, <2>1, <2>2, <2>3, <2>4 DEF Pings
<1>3. KeepAlivePoll(p, idle) \in {p, MaybePing(s)}
  BY DEF KeepAlivePoll, s
<1> QED
  BY <1>1, <1>2, <1>3 DEF s

\* Bdp::calculate never lowers the estimate: at least two thirds of it were read,
\* and the new one is twice what was read.
LEMMA CalculateFacts ==
  ASSUME NEW p \in Pings, NEW faster \in BOOLEAN
  PROVE  LET c == Calculate(p, p.bytes, faster)
         IN c \in Pings /\ c.bdp >= p.bdp /\ c.timedOut = p.timedOut
<1> DEFINE b == IF 2 * p.bytes > BdpLimit THEN BdpLimit ELSE 2 * p.bytes
<1>1. p.bytes \in 0 .. BdpLimit /\ p.bdp \in 2 .. BdpLimit
  BY DEF Pings
<1>2. p.bytes >= (p.bdp * 2) \div 3 => b \in 2 .. BdpLimit /\ b >= p.bdp
  BY <1>1, PingAssumption
<1> HIDE DEF b
<1>3. CASE p.bytes >= (p.bdp * 2) \div 3
  <2>1. Calculate(p, p.bytes, faster) \in {p, [p EXCEPT !.bdp = b]}
    BY DEF Calculate, b
  <2>2. [p EXCEPT !.bdp = b] \in Pings /\ [p EXCEPT !.bdp = b].bdp = b
        /\ [p EXCEPT !.bdp = b].timedOut = p.timedOut
    BY <1>2, <1>3 DEF Pings
  <2>3. p.bdp >= p.bdp
    BY <1>1
  <2>4. CASE Calculate(p, p.bytes, faster) = p
    BY <2>3, <2>4
  <2>5. CASE Calculate(p, p.bytes, faster) = [p EXCEPT !.bdp = b]
    BY <1>2, <1>3, <2>2, <2>5
  <2> QED
    BY <2>1, <2>4, <2>5
<1>4. CASE ~(p.bytes >= (p.bdp * 2) \div 3)
  BY <1>1, <1>4 DEF Calculate
<1> QED
  BY <1>3, <1>4

\* Ponger::poll: the estimate does not shrink.
LEMMA PongerFacts ==
  ASSUME NEW p \in Pings, NEW idle \in BOOLEAN, NEW here \in BOOLEAN, NEW faster \in BOOLEAN
  PROVE  LET q == PongerPoll(p, idle, here, faster)
         IN q \in Pings /\ q.bdp >= p.bdp
<1> DEFINE k == KeepAlivePoll(p, idle)
<1>1. k \in Pings /\ (p.sent => k.sent) /\ k.bdp = p.bdp /\ k.timedOut = p.timedOut
  BY KeepAliveFacts
<1>2. p.bdp >= p.bdp /\ k.bdp >= p.bdp
  BY <1>1 DEF Pings
<1> HIDE DEF k
<1>3. CASE ~k.sent
  <2>1. PongerPoll(p, idle, here, faster) = k
    BY <1>3 DEF PongerPoll, k
  <2> QED
    BY <1>1, <1>2, <1>3, <2>1
<1>4. CASE k.sent /\ here
  <2> DEFINE d == [k EXCEPT !.sent = FALSE]
             u == UpdateLastReadAt(d)
             m == IF d.state = "none" THEN d ELSE Schedule(u, idle)
             c == Calculate(m, m.bytes, faster)
             z == [c EXCEPT !.bytes = 0, !.next = "later"]
  <2>1. d \in Pings /\ d.bdp = k.bdp /\ d.timedOut = k.timedOut
    BY <1>1, Zenon DEF Pings
  <2> HIDE DEF d
  <2>2. u \in Pings /\ u.bdp = d.bdp /\ u.timedOut = d.timedOut
    BY <2>1, Zenon DEF UpdateLastReadAt, Pings
  <2> HIDE DEF u
  <2>3. m \in Pings /\ m.bdp = k.bdp /\ m.timedOut = k.timedOut
    BY <2>1, <2>2, KeepAliveFacts, Zenon
  <2> HIDE DEF m
  <2>4. c \in Pings /\ c.bdp >= m.bdp /\ c.timedOut = k.timedOut
    BY <2>3, CalculateFacts
  <2> HIDE DEF c
  <2>5. z \in Pings /\ z.bdp = c.bdp /\ z.timedOut = c.timedOut
    <3>1. 0 \in 0 .. BdpLimit
      BY PingAssumption
    <3>2. z \in Pings
      BY <2>4, <3>1, Zenon DEF Pings
    <3>3. z.bdp = c.bdp /\ z.timedOut = c.timedOut
      BY <2>4 DEF Pings
    <3> QED
      BY <3>2, <3>3
  <2> HIDE DEF z
  <2>6. PongerPoll(p, idle, here, faster) \in {z, m}
    BY <1>4 DEF PongerPoll, Ponged, k, d, u, m, c, z
  <2>7. m.bdp >= p.bdp /\ z.bdp >= p.bdp
    BY <1>1, <1>2, <2>3, <2>4, <2>5
  <2>8. CASE PongerPoll(p, idle, here, faster) = z
    BY <1>1, <2>4, <2>5, <2>7, <2>8
  <2>9. CASE PongerPoll(p, idle, here, faster) = m
    BY <1>1, <2>3, <2>7, <2>9
  <2> QED
    BY <2>6, <2>8, <2>9
<1>5. CASE k.sent /\ ~here
  <2>1. PongerPoll(p, idle, here, faster) = MaybeTimeout(k)
    BY <1>5 DEF PongerPoll, k
  <2>2. MaybeTimeout(k) \in Pings /\ MaybeTimeout(k).bdp = k.bdp
    <3>1. CASE IsTimeout(k)
      BY <1>1, <3>1, Zenon DEF MaybeTimeout, Pings
    <3>2. CASE ~IsTimeout(k)
      BY <1>1, <3>2, ZenonT(40) DEF MaybeTimeout, PollTimer, Pings
    <3> QED
      BY <3>1, <3>2
  <2> QED
    BY <1>2, <1>1, <1>5, <2>1, <2>2
<1> QED
  BY <1>1, <1>3, <1>4, <1>5 DEF Pings

-----------------------------------------------------------------------------
(* The streams.                                                            *)

Frames == {<<"head">>, <<"eos">>, <<"trailers">>, <<"head", "plain">>, <<"head", "upgrade">>,
           <<"reset", "error">>, <<"reset", "CANCEL">>} \cup {<<"data", n>> : n \in Nat}

Dirs == [pipe : {"none", "data", "trailers", "raw", "done"}, left : Int, win : Int,
         wire : Seq(Frames), sent : Int, fate : {"open", "end", "error", "gone"},
         rd : {"none", "open", "end", "error", "gone"}, buf : Int, got : Int]

Streams == [kind : {"plain", "CONNECT"},
            req : {"new", "sending", "queued", "stuck", "waiting", "answered", "error", "dropped"},
            canceled : BOOLEAN, spawned : BOOLEAN, raw : BOOLEAN,
            srv : {"none", "Service", "Body", "upgraded", "done"},
            cRst : BOOLEAN, sRst : BOOLEAN, shut : BOOLEAN, up : Dirs, down : Dirs]

\* The frames there are, and that data has a length.
LEMMA FrameFacts ==
  /\ {<<"head">>, <<"eos">>, <<"trailers">>, <<"head", "plain">>, <<"head", "upgrade">>,
      <<"reset", "error">>, <<"reset", "CANCEL">>} \subseteq Frames
  /\ \A n \in Nat : <<"data", n>> \in Frames
  /\ \A f \in Frames : IsData(f) => f[2] \in Nat
BY DEF Frames, IsData

\* What the sending end makes of a direction.
LEMMA SendFacts ==
  ASSUME NEW d \in Dirs, NEW f \in Frames, NEW x \in {"end", "error", "gone"}
  PROVE  /\ Put(d, f) \in Dirs /\ Ended(d, x) \in Dirs /\ Ended(d, x).pipe = "done"
         /\ Put(d, f).pipe = d.pipe /\ Put(d, f).fate = d.fate
<1>1. Append(d.wire, f) \in Seq(Frames)
  BY DEF Dirs
<1>2. Put(d, f) \in Dirs /\ Put(d, f).pipe = d.pipe /\ Put(d, f).fate = d.fate
  BY <1>1, Zenon DEF Put, Dirs
<1>3. Ended(d, x) \in Dirs /\ Ended(d, x).pipe = "done"
  BY Zenon DEF Ended, Dirs
<1> QED
  BY <1>2, <1>3

\* The same for the operators that send.
LEMMA SendFacts2 ==
  ASSUME NEW d \in Dirs, NEW n \in Nat
  PROVE  /\ OnUserErr(d) \in Dirs /\ SendEosFrame(d) \in Dirs /\ SendData(d, n) \in Dirs
         /\ \A f \in Frames, x \in {"end", "error", "gone"} : Ended(Put(d, f), x) \in Dirs
<1>1. \A f \in Frames, x \in {"end", "error", "gone"} : Ended(Put(d, f), x) \in Dirs
  BY SendFacts, Zenon
<1>2. SendData(d, n) \in Dirs
  <2> DEFINE e == Put(d, <<"data", n>>)
  <2>1. e \in Dirs
    BY FrameFacts, SendFacts
  <2>2. SendData(d, n) = [e EXCEPT !.left = e.left - 1, !.win = e.win - n, !.sent = e.sent + n]
    BY DEF SendData
  <2> HIDE DEF e
  <2>3. e.left - 1 \in Int /\ e.win - n \in Int /\ e.sent + n \in Int
    BY <2>1 DEF Dirs
  <2> QED
    BY <2>1, <2>2, <2>3, Zenon DEF Dirs
<1> QED
  BY <1>1, <1>2, FrameFacts DEF OnUserErr, SendEosFrame

\* The head of what is under way is a frame.
LEMMA WireFacts ==
  ASSUME NEW d \in Dirs, d.wire # <<>>
  PROVE  /\ Head(d.wire) \in Frames /\ Tail(d.wire) \in Seq(Frames)
         /\ IsData(Head(d.wire)) => Head(d.wire)[2] \in Nat
<1>1. Head(d.wire) \in Frames /\ Tail(d.wire) \in Seq(Frames)
  BY DEF Dirs
<1> QED
  BY <1>1, FrameFacts

\* What the receiving end makes of a direction.
LEMMA ReadFacts ==
  ASSUME NEW d \in Dirs, d.wire # <<>>
  PROVE  /\ BodyRead(d) \in Dirs /\ Discard(d) \in Dirs /\ UpgradedEnd(d) \in Dirs
         /\ BodyRead(d).pipe = d.pipe /\ Discard(d).pipe = d.pipe /\ UpgradedEnd(d).pipe = d.pipe
<1> DEFINE w == Tail(d.wire)
           n == Head(d.wire)[2]
<1>1. w \in Seq(Frames) /\ (IsData(Head(d.wire)) => n \in Nat)
  BY WireFacts
<1>2. ASSUME IsData(Head(d.wire))
      PROVE  ReadData(d) \in Dirs /\ ReadData(d).pipe = d.pipe
             /\ Discard(d) \in Dirs /\ Discard(d).pipe = d.pipe
  <2>1. /\ ReadData(d) = [d EXCEPT !.wire = w, !.got = d.got + n, !.win = d.win + n]
        /\ Discard(d) = [d EXCEPT !.wire = w, !.win = d.win + n]
    BY <1>2 DEF ReadData, Discard, Dirs
  <2>2. w \in Seq(Frames) /\ d.got + n \in Int /\ d.win + n \in Int
    BY <1>1, <1>2 DEF Dirs
  <2> HIDE DEF w, n
  <2> QED
    BY <2>1, <2>2, Zenon DEF Dirs
<1>3. ASSUME ~IsData(Head(d.wire)) PROVE Discard(d) \in Dirs /\ Discard(d).pipe = d.pipe
  BY <1>1, <1>3, Zenon DEF Discard, Dirs
<1>4. ReadEnd(d) \in Dirs /\ ReadEnd(d).pipe = d.pipe
  BY <1>1, Zenon DEF ReadEnd, Dirs
<1>5. UpgradedEnd(d) \in Dirs /\ UpgradedEnd(d).pipe = d.pipe
  BY <1>1, Zenon DEF UpgradedEnd, Dirs
<1> QED
  BY <1>2, <1>3, <1>4, <1>5 DEF BodyRead

\* An upgraded stream hands out part of a frame.
LEMMA UpgradedFacts ==
  ASSUME NEW d \in Dirs, NEW n \in Nat, d.buf > 0 \/ (d.wire # <<>> /\ IsData(Head(d.wire)))
  PROVE  UpgradedRead(d, n) \in Dirs /\ UpgradedRead(d, n).pipe = d.pipe
<1>1. CASE d.buf > 0
  <2>1. d.buf - n \in Int /\ d.got + n \in Int /\ d.win + n \in Int
    BY DEF Dirs
  <2> QED
    BY <1>1, <2>1, Zenon DEF UpgradedRead, Dirs
<1>2. CASE ~(d.buf > 0)
  <2> DEFINE w == Tail(d.wire)
             b == Head(d.wire)[2] - n
  <2>1. UpgradedRead(d, n) = [d EXCEPT !.wire = w, !.buf = b, !.got = d.got + n, !.win = d.win + n]
    BY <1>2 DEF UpgradedRead
  <2>2. w \in Seq(Frames) /\ b \in Int /\ d.got + n \in Int /\ d.win + n \in Int
    BY <1>2, WireFacts, SMTT(30) DEF Dirs
  <2> HIDE DEF w, b
  <2> QED
    BY <2>1, <2>2, Zenon DEF Dirs
<1> QED
  BY <1>1, <1>2

\* The pipe goes on, or ends.
LEMMA PipeFacts ==
  ASSUME NEW d \in Dirs, NEW e \in PipePoll(d)
  PROVE  e \in Dirs /\ d.pipe \in {"data", "trailers"}
<1>0. Size \in Nat
  BY ConnAssumption
<1>1. SendData(d, Size) \in Dirs
  BY <1>0, SendFacts2
<1>2. SendEosFrame(SendData(d, Size)) \in Dirs /\ SendEosFrame(d) \in Dirs /\ OnUserErr(d) \in Dirs
      /\ Ended(Put(d, <<"trailers">>), "end") \in Dirs
  BY <1>0, <1>1, SendFacts2, FrameFacts
<1>3. [d EXCEPT !.pipe = "trailers"] \in Dirs
  BY Zenon DEF Dirs
<1>4. e \in {SendData(d, Size), SendEosFrame(SendData(d, Size)), SendEosFrame(d), OnUserErr(d),
             [d EXCEPT !.pipe = "trailers"], Ended(Put(d, <<"trailers">>), "end")}
      /\ d.pipe \in {"data", "trailers"}
  BY DEF PipePoll
<1> QED
  BY <1>1, <1>2, <1>3, <1>4

\* A request whose body is piped has a task that holds the connection.
Piped(s) == s.up.pipe \in {"data", "trailers"} => s.spawned

\* A stream that may follow s.
After(s) == {z \in Streams : Piped(z) /\ (z.spawned => s.spawned)}

Known == st \in [Requests -> Streams] /\ \A r \in Requests : Piped(st[r])

\* A stream of its own, and its two directions.
LEMMA StreamFacts ==
  ASSUME Known, NEW r \in Requests
  PROVE  /\ st[r] \in Streams /\ Piped(st[r]) /\ st[r].up \in Dirs /\ st[r].down \in Dirs
         /\ st[r].spawned \in BOOLEAN /\ st[r] \in After(st[r])
BY DEF Known, Streams, After

\* Setting the direction to the client.
LEMMA SetDown ==
  ASSUME NEW s \in Streams, Piped(s), NEW d \in Dirs
  PROVE  [s EXCEPT !.down = d] \in After(s)
BY DEF After, Streams, Piped

\* Setting the direction to the server.
LEMMA SetUp ==
  ASSUME NEW s \in Streams, Piped(s), NEW d \in Dirs, d.pipe \in {s.up.pipe, "done", "raw"}
  PROVE  [s EXCEPT !.up = d] \in After(s)
BY DEF After, Streams, Piped

\* The receiving end is dropped.
LEMMA GoneFacts ==
  ASSUME NEW d \in Dirs
  PROVE  LET z == [d EXCEPT !.rd = "gone", !.buf = 0] IN z \in Dirs /\ z.pipe = d.pipe
<1>1. ASSUME NEW b \in Int
      PROVE  LET z == [d EXCEPT !.rd = "gone", !.buf = b] IN z \in Dirs /\ z.pipe = d.pipe
  BY Zenon DEF Dirs
<1>2. 0 \in Int
  OBVIOUS
<1> QED
  BY <1>1, <1>2, Zenon

\* The steps of the user.
LEMMA UserSteps ==
  ASSUME Known, NEW r \in Requests, UserStep(r)
  PROVE  \E z \in After(st[r]) : st' = [st EXCEPT ![r] = z]
<1> DEFINE s == st[r]
<1>k. s \in Streams /\ Piped(s) /\ s.up \in Dirs /\ s.down \in Dirs
  BY StreamFacts
<1>1. CASE Submit(r) \/ TrySend(r)
  <2>1. \E x \in {"sending", "queued", "stuck", "error"} : st' = [st EXCEPT ![r] = [s EXCEPT !.req = x]]
    BY <1>1 DEF Submit, TrySend, Set
  <2> HIDE DEF s
  <2>2. \A x \in {"sending", "queued", "stuck", "error"} : [s EXCEPT !.req = x] \in After(s)
    BY <1>k DEF After, Streams, Piped
  <2> QED
    BY <2>1, <2>2, Zenon DEF s
<1>2. CASE Cancel(r)
  <2>1. st' = [st EXCEPT ![r] = [s EXCEPT !.canceled = TRUE]]
    BY <1>2 DEF Cancel, Set
  <2> HIDE DEF s
  <2>2. [s EXCEPT !.canceled = TRUE] \in After(s)
    BY <1>k, Zenon DEF After, Streams, Piped
  <2> QED
    BY <2>1, <2>2, Zenon DEF s
<1>3. CASE DropBody(r)
  <2> DEFINE d == [s.down EXCEPT !.rd = "gone", !.buf = 0]
  <2>1. st' = [st EXCEPT ![r] = [s EXCEPT !.down = d]]
    BY <1>3, <1>k, Zenon DEF DropBody, Set
  <2>2. d \in Dirs
    BY <1>k, GoneFacts, Zenon
  <2> HIDE DEF d
  <2> QED
    BY <1>k, <2>1, <2>2, SetDown, Zenon
<1>4. CASE ServerDropBody(r)
  <2> DEFINE d == [s.up EXCEPT !.rd = "gone", !.buf = 0]
             x == IF s.srv = "upgraded" THEN "done" ELSE s.srv
             z == [s EXCEPT !.up = d]
  <2>1. st' = [st EXCEPT ![r] = [z EXCEPT !.srv = x]]
    BY <1>4, <1>k, Zenon DEF ServerDropBody, Set, Streams
  <2>2. d \in Dirs /\ d.pipe = s.up.pipe
    BY <1>k, GoneFacts, Zenon
  <2> HIDE DEF d
  <2>3. z \in After(s) /\ x \in {"none", "Service", "Body", "upgraded", "done"}
    BY <1>k, <2>2, SetUp DEF Streams
  <2> HIDE DEF z, x, s
  <2>4. [z EXCEPT !.srv = x] \in After(s)
    BY <2>3 DEF After, Streams, Piped
  <2> QED
    BY <2>1, <2>4, Zenon DEF s
<1> QED
  BY <1>1, <1>2, <1>3, <1>4 DEF UserStep

\* The steps of the client's tasks.
LEMMA ClientSteps ==
  ASSUME Known, NEW r \in Requests, ClientStep(r)
  PROVE  \E z \in After(st[r]) : st' = [st EXCEPT ![r] = z]
<1> DEFINE s == st[r]
<1>k. s \in Streams /\ Piped(s) /\ s.up \in Dirs /\ s.down \in Dirs
  BY StreamFacts
<1>1. CASE ClientPipe(r)
  <2>1. PICK d \in PipePoll(s.up) :
          st' = [st EXCEPT ![r] = [s EXCEPT !.up = d, !.spawned = (d.pipe # "done"),
                                            !.cRst = (d.fate = "error")]]
    BY <1>1, Zenon DEF ClientPipe, Set
  <2>2. d \in Dirs /\ s.spawned
    BY <1>k, PipeFacts DEF Piped
  <2> HIDE DEF s
  <2>3. [s EXCEPT !.up = d, !.spawned = (d.pipe # "done"), !.cRst = (d.fate = "error")] \in After(s)
    BY <1>k, <2>2, Zenon DEF After, Streams, Piped
  <2> QED
    BY <2>1, <2>3, Zenon DEF s
<1>2. CASE ClientPipeReset(r)
  <2> DEFINE d == Ended(s.up, "error")
  <2>1. st' = [st EXCEPT ![r] = [s EXCEPT !.up = d, !.spawned = FALSE]]
    BY <1>2 DEF ClientPipeReset, Set
  <2>2. d \in Dirs /\ d.pipe = "done"
    BY <1>k, FrameFacts, SendFacts
  <2> HIDE DEF s, d
  <2>3. [s EXCEPT !.up = d, !.spawned = FALSE] \in After(s)
    BY <1>k, <2>2, Zenon DEF After, Streams, Piped
  <2> QED
    BY <2>1, <2>3, Zenon DEF s
<1>3. CASE Respond(r)
  <2>1. PICK x \in {"dropped", "answered"}, w \in {<<>>, Tail(s.down.wire)}, y \in {"gone", "open"},
             u \in BOOLEAN, m \in {"raw", s.up.pipe} :
          st' = [st EXCEPT ![r] = [s EXCEPT !.req = x, !.down.wire = w, !.down.rd = y,
                                            !.raw = u, !.up.pipe = m]]
    BY <1>3, Zenon DEF Respond, Set
  <2>2. w \in Seq(Frames)
    <3>1. s.down.wire # <<>>
      BY <1>3 DEF Respond, AtHead
    <3>2. Tail(s.down.wire) \in Seq(Frames)
      BY <1>k, <3>1, WireFacts
    <3>3. <<>> \in Seq(Frames)
      OBVIOUS
    <3> QED
      BY <3>2, <3>3, Zenon
  <2> DEFINE d == [s.down EXCEPT !.wire = w, !.rd = y]
             e == [s.up EXCEPT !.pipe = m]
  <2>3. d \in Dirs /\ e \in Dirs /\ e.pipe = m
    BY <1>k, <2>2, Zenon DEF Dirs
  <2>4. st' = [st EXCEPT ![r] = [s EXCEPT !.req = x, !.down = d, !.raw = u, !.up = e]]
    BY <1>k, <2>1, Zenon DEF Streams
  <2> HIDE DEF s, d, e
  <2>5. [s EXCEPT !.req = x, !.down = d, !.raw = u, !.up = e] \in After(s)
    BY <1>k, <2>3, Zenon DEF After, Streams, Piped
  <2> QED
    BY <2>4, <2>5, Zenon DEF s
<1>4. CASE ClientReset(r) \/ ResponseError(r)
  <2>1. \/ st' = [st EXCEPT ![r] = [s EXCEPT !.cRst = TRUE]]
        \/ \E x \in {"dropped", "error"} : st' = [st EXCEPT ![r] = [s EXCEPT !.req = x]]
    BY <1>4 DEF ClientReset, ResponseError, Set
  <2> HIDE DEF s
  <2>2. /\ [s EXCEPT !.cRst = TRUE] \in After(s)
        /\ \A x \in {"dropped", "error"} : [s EXCEPT !.req = x] \in After(s)
    BY <1>k, Zenon DEF After, Streams, Piped
  <2> QED
    BY <2>1, <2>2, Zenon DEF s
<1>5. CASE SendWhenCanceled(r)
  <2> DEFINE w == IF AtHead(s.down) THEN Tail(s.down.wire) ELSE s.down.wire
             d == [s.down EXCEPT !.rd = "gone", !.wire = w]
             z == [s EXCEPT !.down = d]
  <2>1. st' = [st EXCEPT ![r] = [z EXCEPT !.req = "dropped"]]
    BY <1>5, <1>k, Zenon DEF SendWhenCanceled, Set, Streams
  <2>2. w \in Seq(Frames)
    BY <1>k, WireFacts DEF AtHead, Dirs
  <2> HIDE DEF w
  <2>3. d \in Dirs
    BY <1>k, <2>2, Zenon DEF Dirs
  <2> HIDE DEF d
  <2>4. z \in After(s)
    BY <1>k, <2>3, SetDown
  <2> HIDE DEF z, s
  <2>5. [z EXCEPT !.req = "dropped"] \in After(s)
    BY <2>4 DEF After, Streams, Piped
  <2> QED
    BY <2>1, <2>5, Zenon DEF s
<1>6. CASE ClientRead(r)
  <2>1. st' = [st EXCEPT ![r] = [s EXCEPT !.down = BodyRead(s.down)]] /\ s.down.wire # <<>>
    BY <1>6 DEF ClientRead, Set, Readable
  <2> QED
    BY <1>k, <2>1, ReadFacts, SetDown, Zenon
<1>7. CASE ClientReadError(r)
  <2> DEFINE d == [s.down EXCEPT !.rd = "error"]
  <2>1. st' = [st EXCEPT ![r] = [s EXCEPT !.down = d]]
    BY <1>7, <1>k DEF ClientReadError, Set
  <2>2. d \in Dirs
    BY <1>k, Zenon DEF Dirs
  <2> HIDE DEF d
  <2> QED
    BY <1>k, <2>1, <2>2, SetDown, Zenon
<1> QED
  BY <1>1, <1>2, <1>3, <1>4, <1>5, <1>6, <1>7 DEF ClientStep

\* The steps of the server's task of a stream.
LEMMA ServerSteps ==
  ASSUME Known, NEW r \in Requests, ServerStep(r)
  PROVE  \E z \in After(st[r]) : st' = [st EXCEPT ![r] = z]
<1> DEFINE s == st[r]
<1>k. s \in Streams /\ Piped(s) /\ s.up \in Dirs /\ s.down \in Dirs
  BY StreamFacts
<1>d. ASSUME NEW d \in Dirs, NEW x \in {"none", "Service", "Body", "upgraded", "done"}, NEW b \in BOOLEAN
      PROVE  /\ [s EXCEPT !.srv = x, !.down = d] \in After(s)
             /\ [s EXCEPT !.srv = x, !.down = d, !.sRst = b] \in After(s)
  <2> HIDE DEF s
  <2> QED
    BY <1>k, Zenon DEF After, Streams, Piped
<1>1. CASE ServerAccept(r)
  <2> DEFINE d == [s.up EXCEPT !.wire = Tail(s.up.wire), !.rd = "open"]
  <2>1. st' = [st EXCEPT ![r] = [s EXCEPT !.srv = "Service", !.up = d]] /\ s.up.wire # <<>>
    BY <1>1, <1>k, Zenon DEF ServerAccept, Set, Streams
  <2>2. Tail(s.up.wire) \in Seq(Frames)
    BY <1>k, <2>1, WireFacts
  <2>3. d \in Dirs /\ d.pipe = s.up.pipe
    BY <1>k, <2>2, Zenon DEF Dirs
  <2> HIDE DEF s, d
  <2>4. [s EXCEPT !.srv = "Service", !.up = d] \in After(s)
    BY <1>k, <2>3, Zenon DEF After, Streams, Piped
  <2> QED
    BY <2>1, <2>4, Zenon DEF s
<1>2. CASE ServerReply(r)
  <2> DEFINE p == Put(s.down, <<"head", "plain">>)
             u == Put(s.down, <<"head", "upgrade">>)
             up(d) == [s EXCEPT !.srv = "upgraded", !.down = [d EXCEPT !.pipe = "raw"]]
  <2>1. p \in Dirs /\ u \in Dirs
    BY <1>k, FrameFacts, SendFacts, Zenon
  <2>2. \/ st' = [st EXCEPT ![r] = [s EXCEPT !.srv = "done", !.down = SendEosFrame(p)]]
        \/ st' = [st EXCEPT ![r] = [s EXCEPT !.srv = "Body", !.down = [p EXCEPT !.pipe = "data"]]]
        \/ st' = [st EXCEPT ![r] = up(u)] \/ st' = [st EXCEPT ![r] = up(p)]
    BY <1>2, <1>k DEF ServerReply, Set, Streams
  <2> HIDE DEF p, u, s
  <2>3. \A x \in {"data", "raw"} : [p EXCEPT !.pipe = x] \in Dirs /\ [u EXCEPT !.pipe = x] \in Dirs
    BY <2>1 DEF Dirs
  <2>4. SendEosFrame(p) \in Dirs
    BY <2>1, SendFacts2, ConnAssumption
  <2> QED
    BY <1>d, <2>2, <2>3, <2>4, Zenon DEF s
<1>3. CASE ServerFail(r)
  <2>1. st' = [st EXCEPT ![r] = [s EXCEPT !.srv = "done", !.down = OnUserErr(s.down), !.sRst = TRUE]]
    BY <1>3, <1>k DEF ServerFail, Set, Streams
  <2>2. OnUserErr(s.down) \in Dirs
    BY <1>k, SendFacts2, ConnAssumption
  <2> HIDE DEF s
  <2> QED
    BY <1>d, <2>1, <2>2, Zenon DEF s
<1>4. CASE ServerPipe(r)
  <2>1. PICK d \in PipePoll(s.down) :
          st' = [st EXCEPT ![r] = [s EXCEPT !.down = d, !.srv = IF d.pipe = "done" THEN "done" ELSE @,
                                            !.sRst = (d.fate = "error")]]
    BY <1>4, Zenon DEF ServerPipe, Set
  <2>2. d \in Dirs
    BY <1>k, PipeFacts
  <2> DEFINE x == IF d.pipe = "done" THEN "done" ELSE s.srv
             b == (d.fate = "error")
  <2>3. x \in {"none", "Service", "Body", "upgraded", "done"} /\ b \in BOOLEAN
    BY <1>k DEF Streams
  <2>4. st' = [st EXCEPT ![r] = [s EXCEPT !.srv = x, !.down = d, !.sRst = b]]
    BY <1>k, <2>1, Zenon DEF Streams
  <2> HIDE DEF s, x, b
  <2> QED
    BY <1>d, <2>2, <2>3, <2>4, Zenon DEF s
<1>5. CASE ServerReset(r)
  <2> DEFINE x == IF s.srv = "upgraded" THEN s.srv ELSE "done"
             d == IF s.raw \/ s.down.pipe = "done" THEN s.down ELSE Ended(s.down, "error")
  <2>1. st' = [st EXCEPT ![r] = [s EXCEPT !.srv = x, !.down = d, !.sRst = TRUE]]
    BY <1>5, <1>k, Zenon DEF ServerReset, Set, Streams
  <2>2. d \in Dirs
    BY <1>k, FrameFacts, SendFacts
  <2>3. x \in {"none", "Service", "Body", "upgraded", "done"}
    OBVIOUS
  <2> HIDE DEF s, d, x
  <2> QED
    BY <1>d, <2>1, <2>2, <2>3, Zenon DEF s
<1>6. CASE ServerRead(r)
  <2>1. st' = [st EXCEPT ![r] = [s EXCEPT !.up = BodyRead(s.up)]] /\ s.up.wire # <<>>
    BY <1>6 DEF ServerRead, Set, Readable
  <2> QED
    BY <1>k, <2>1, ReadFacts, SetUp, Zenon
<1>7. CASE ServerReadError(r)
  <2> DEFINE x == IF s.shut THEN "end" ELSE "error"
             d == [s.up EXCEPT !.rd = x]
  <2>1. st' = [st EXCEPT ![r] = [s EXCEPT !.up = d]] /\ x \in {"end", "error"}
    BY <1>7, <1>k DEF ServerReadError, Set
  <2> HIDE DEF x
  <2>2. d \in Dirs /\ d.pipe = s.up.pipe
    BY <1>k, <2>1, Zenon DEF Dirs
  <2> HIDE DEF d
  <2> QED
    BY <1>k, <2>1, <2>2, SetUp, Zenon
<1> QED
  BY <1>1, <1>2, <1>3, <1>4, <1>5, <1>6, <1>7 DEF ServerStep

\* The steps of an upgraded stream.
LEMMA RawSteps ==
  ASSUME Known, NEW r \in Requests, RawStep(r)
  PROVE  \E z \in After(st[r]) : st' = [st EXCEPT ![r] = z]
<1> DEFINE s == st[r]
<1>k. s \in Streams /\ Piped(s) /\ s.up \in Dirs /\ s.down \in Dirs
  BY StreamFacts
<1>d. ASSUME NEW e \in Ends, NEW d \in Dirs, d.pipe \in {s[e].pipe, "done"},
             st' = [st EXCEPT ![r] = [s EXCEPT ![e] = d]]
      PROVE  \E z \in After(s) : st' = [st EXCEPT ![r] = z]
  BY <1>k, <1>d, SetUp, SetDown, Zenon DEF Ends
<1>1. PICK e \in Ends : RawWrite(r, e) \/ RawShutdown(r, e) \/ RawRead(r, e)
  BY DEF RawStep
<1>2. s[e] \in Dirs
  BY <1>k DEF Ends
<1>3. CASE RawWrite(r, e)
  <2> DEFINE n == IF s[e].win < Size THEN s[e].win ELSE Size
  <2>1. st' = [st EXCEPT ![r] = [s EXCEPT ![e] = SendData(s[e], n)]] /\ s[e].win > 0
    BY <1>3, <1>k DEF RawWrite, Set, Streams, Ends
  <2>2. n \in Nat
    BY <1>2, <2>1, ConnAssumption DEF Dirs
  <2> HIDE DEF n
  <2>3. SendData(s[e], n) \in Dirs
    BY <1>2, <2>2, SendFacts2
  <2>4. SendData(s[e], n).pipe = s[e].pipe
    BY <1>2 DEF SendData, Put, Dirs
  <2> QED
    BY <1>d, <2>1, <2>3, <2>4, Zenon
<1>4. CASE RawShutdown(r, e)
  <2>1. st' = [st EXCEPT ![r] = [s EXCEPT ![e] = SendEosFrame(s[e])]]
    BY <1>4, <1>k DEF RawShutdown, Set, Streams, Ends
  <2>2. SendEosFrame(s[e]) \in Dirs /\ SendEosFrame(s[e]).pipe = "done"
    BY <1>2, FrameFacts, SendFacts DEF SendEosFrame
  <2> QED
    BY <1>d, <2>1, <2>2, Zenon
<1>5. CASE RawRead(r, e)
  <2> DEFINE d == s[e]
             frame == IF d.buf > 0 THEN <<"data", d.buf>> ELSE Head(d.wire)
  <2>1. /\ d.buf > 0 \/ d.wire # <<>>
        /\ \/ IsData(frame) /\ \E n \in 1 .. frame[2] :
                st' = [st EXCEPT ![r] = [s EXCEPT ![e] = UpgradedRead(d, n)]]
           \/ ~IsData(frame) /\ st' = [st EXCEPT ![r] = [s EXCEPT ![e] = UpgradedEnd(d)]]
    BY <1>5 DEF RawRead, Set
  <2>2. CASE IsData(frame)
    <3>1. frame[2] \in Int
      BY <1>2, <2>1, <2>2, WireFacts DEF Dirs
    <3>2. PICK n \in 1 .. frame[2] : st' = [st EXCEPT ![r] = [s EXCEPT ![e] = UpgradedRead(d, n)]]
      BY <2>1, <2>2
    <3>3. n \in Nat /\ (d.buf > 0 \/ (d.wire # <<>> /\ IsData(Head(d.wire))))
      BY <2>1, <2>2, <3>1
    <3> QED
      BY <1>d, <1>2, <3>2, <3>3, UpgradedFacts, Zenon
  <2>3. CASE ~IsData(frame)
    <3>1. d.wire # <<>> /\ st' = [st EXCEPT ![r] = [s EXCEPT ![e] = UpgradedEnd(d)]]
      BY <2>1, <2>3 DEF IsData
    <3> QED
      BY <1>d, <1>2, <3>1, ReadFacts, Zenon
  <2> QED
    BY <2>2, <2>3
<1> QED
  BY <1>1, <1>3, <1>4, <1>5

\* What h2 does with a stream nobody holds.
LEMMA UnheldSteps ==
  ASSUME Known, NEW r \in Requests, ImplicitReset(r) \/ Discarded(r)
  PROVE  \E z \in After(st[r]) : st' = [st EXCEPT ![r] = z]
<1> DEFINE s == st[r]
<1>k. s \in Streams /\ Piped(s) /\ s.up \in Dirs /\ s.down \in Dirs
  BY StreamFacts
<1>1. CASE ImplicitReset(r)
  <2> DEFINE u == Ended(Put(s.up, <<"reset", "CANCEL">>), "gone")
             d == Ended(Put(s.down, <<"reset", "CANCEL">>), "gone")
  <2>1. \/ st' = [st EXCEPT ![r] = [s EXCEPT !.cRst = TRUE, !.up = u]]
        \/ st' = [st EXCEPT ![r] = [s EXCEPT !.sRst = TRUE, !.down = d]]
    BY <1>1, <1>k DEF ImplicitReset, Set, Streams
  <2>2. u \in Dirs /\ d \in Dirs /\ u.pipe = "done"
    BY <1>k, FrameFacts, SendFacts, Zenon
  <2> HIDE DEF u, d, s
  <2>3. /\ [s EXCEPT !.cRst = TRUE, !.up = u] \in After(s)
        /\ [s EXCEPT !.sRst = TRUE, !.down = d] \in After(s)
    BY <1>k, <2>2, Zenon DEF After, Streams, Piped
  <2> QED
    BY <2>1, <2>3 DEF s
<1>2. CASE Discarded(r)
  <2>1. PICK e \in Ends : s[e].wire # <<>> /\ st' = [st EXCEPT ![r] = [s EXCEPT ![e] = Discard(s[e])]]
    BY <1>2, Zenon DEF Discarded, Set
  <2>2. s[e] \in Dirs
    BY <1>k DEF Ends
  <2>3. Discard(s[e]) \in Dirs /\ Discard(s[e]).pipe = s[e].pipe
    BY <2>1, <2>2, ReadFacts
  <2> QED
    BY <1>k, <2>1, <2>3, SetUp, SetDown, Zenon DEF Ends
<1> QED
  BY <1>1, <1>2

-----------------------------------------------------------------------------
(* The invariant.                                                          *)

HInv ==
    /\ Known /\ queue \in Seq(Requests)
    /\ ping \in Pings /\ (pong # "none" <=> ping.sent)
    /\ conn = "closing" => dispatch # "running" /\ \A r \in Requests : ~st[r].spawned

\* What a step may do to the pings.
PingStep ==
    /\ ping' \in Pings /\ (pong' # "none" <=> ping'.sent)
    /\ ping'.bdp >= ping.bdp

\* A step that leaves the pings alone, or in which a pong arrives.
LEMMA SamePings ==
  ASSUME HInv, ping' = ping, pong' = pong \/ (pong # "none" /\ pong' # "none")
  PROVE  PingStep
BY DEF HInv, PingStep, Pings

\* A Recorder records what was read; the first read of a sample sends a ping.
LEMMA RecordSteps ==
  ASSUME HInv, NEW n \in Nat, ping' \in {ping, RecordNonData(ping), RecordData(ping, n)},
         pong' = IF ~ping.sent /\ ping'.sent THEN "flying" ELSE pong
  PROVE  PingStep
<1>1. ping' \in Pings /\ ping'.bdp = ping.bdp /\ ping'.timedOut = ping.timedOut
      /\ (ping.sent => ping'.sent)
  BY RecordFacts, Zenon DEF HInv
<1>2. ping'.sent \in BOOLEAN /\ ping.sent \in BOOLEAN /\ ping.bdp >= ping.bdp
  BY <1>1 DEF HInv, Pings
<1>3. pong' # "none" <=> ping'.sent
  BY <1>1, <1>2 DEF HInv
<1> QED
  BY <1>1, <1>2, <1>3 DEF PingStep

\* The steps of a stream, seen from the pings.
LEMMA StreamPings ==
  ASSUME HInv, NEW r \in Requests,
         UserStep(r) \/ ClientStep(r) \/ ServerStep(r) \/ RawStep(r)
         \/ ImplicitReset(r) \/ Discarded(r)
  PROVE  PingStep /\ UNCHANGED <<conn, dispatch>> /\ (queue' = queue \/ queue' = Append(queue, r))
<1>1. CASE UserStep(r) \/ ServerStep(r) \/ ImplicitReset(r) \/ Discarded(r)
  <2>1. UNCHANGED <<ping, pong, conn, dispatch>> /\ (queue' = queue \/ queue' = Append(queue, r))
    BY <1>1, Zenon DEF UserStep, Submit, TrySend, Cancel, DropBody, ServerDropBody, ServerStep, ServerAccept,
       ServerReply, ServerFail, ServerPipe, ServerReset, ServerRead, ServerReadError, ImplicitReset,
       Discarded, pings, tasks
  <2> QED
    BY <2>1, SamePings
<1>2. CASE ClientPipe(r) \/ ClientPipeReset(r) \/ ClientReset(r) \/ ResponseError(r)
           \/ SendWhenCanceled(r) \/ ClientReadError(r)
  <2>1. UNCHANGED <<ping, pong, conn, dispatch, queue>>
    BY <1>2, Zenon DEF ClientPipe, ClientPipeReset, ClientReset, ResponseError, SendWhenCanceled,
       ClientReadError, pings, tasks
  <2> QED
    BY <2>1, SamePings
<1>3. CASE Respond(r)
  <2>1. UNCHANGED <<pong, conn, dispatch, queue>> /\ ping' = RecordNonData(ping)
    BY <1>3 DEF Respond, tasks
  <2>2. ping'.sent = ping.sent
    BY <2>1 DEF RecordNonData, UpdateLastReadAt, HInv, Pings
  <2> QED
    BY <2>1, <2>2, RecordSteps
<1>4. CASE ClientRead(r)
  <2> DEFINE d == st[r].down
  <2>1. d \in Dirs /\ d.wire # <<>> /\ UNCHANGED <<conn, dispatch, queue>>
    BY <1>4, StreamFacts DEF ClientRead, HInv, Readable, tasks
  <2>2. /\ \/ /\ IsData(Head(d.wire))
              /\ ping' = RecordData(ping, Head(d.wire)[2])
           \/ ping' = RecordNonData(ping)
        /\ pong' = IF ~ping.sent /\ ping'.sent THEN "flying" ELSE pong
    BY <1>4 DEF ClientRead
  <2> QED
    BY <2>1, <2>2, WireFacts, RecordSteps
<1>5. CASE RawStep(r)
  <2>1. PICK e \in Ends : RawWrite(r, e) \/ RawShutdown(r, e) \/ RawRead(r, e)
    BY <1>5 DEF RawStep
  <2>2. CASE RawWrite(r, e) \/ RawShutdown(r, e)
    <3>1. UNCHANGED <<ping, pong, conn, dispatch, queue>>
      BY <2>2 DEF RawWrite, RawShutdown, tasks
    <3> QED
      BY <3>1, SamePings
  <2>3. CASE RawRead(r, e)
    <3> DEFINE d == st[r][e]
    <3>1. /\ UNCHANGED <<conn, dispatch, queue>>
          /\ \/ ping' = ping
             \/ /\ d.buf = 0 /\ d.wire # <<>> /\ IsData(Head(d.wire))
                /\ ping' = RecordData(ping, Head(d.wire)[2])
          /\ pong' = IF ~ping.sent /\ ping'.sent THEN "flying" ELSE pong
      BY <2>3 DEF RawRead, tasks
    <3>2. d \in Dirs
      BY StreamFacts DEF HInv, Ends
    <3> HIDE DEF d
    <3> QED
      BY <3>1, <3>2, WireFacts, RecordSteps
  <2> QED
    BY <2>1, <2>2, <2>3
<1> QED
  BY <1>1, <1>2, <1>3, <1>4, <1>5 DEF ClientStep

\* The connection's task, its timer, and the end of the connection.
LEMMA ConnPings ==
  ASSUME HInv, ConnPoll \/ TimerElapses \/ BdpDue \/ PongArrives \/ ConnDone \/ ConnLost
               \/ ServerTimesOut
  PROVE  PingStep
<1>p. ping \in Pings /\ (pong # "none" <=> ping.sent) /\ ping.sent \in BOOLEAN /\ ping.bdp >= ping.bdp
  BY DEF HInv, Pings
<1>1. CASE ConnPoll
  <2>1. PICK faster \in BOOLEAN :
          LET p == PongerPoll(ping, IsIdle, pong = "read", faster) IN
          \/ /\ p.timedOut
             /\ ping' = [ping EXCEPT !.state = "none", !.timedOut = TRUE, !.sent = FALSE]
             /\ pong' = "none"
          \/ /\ ~p.timedOut /\ ping' = p
             /\ pong' = CASE ping.sent /\ ~p.sent -> "none"
                          [] ~ping.sent /\ p.sent -> "flying"
                          [] OTHER -> IF pong = "arrived" THEN "read" ELSE pong
    BY <1>1, Zenon DEF ConnPoll, Close
  <2> DEFINE here == pong = "read"
             p == PongerPoll(ping, IsIdle, here, faster)
  <2>2. IsIdle \in BOOLEAN /\ here \in BOOLEAN
    BY DEF IsIdle
  <2>3. p \in Pings /\ p.bdp >= ping.bdp
    BY <1>p, <2>2, PongerFacts, Zenon
  <2>4. CASE p.timedOut /\ ping' = [ping EXCEPT !.state = "none", !.timedOut = TRUE, !.sent = FALSE]
             /\ pong' = "none"
    <3> HIDE DEF p
    <3>1. ping' \in Pings /\ ~ping'.sent /\ ping'.bdp = ping.bdp
      BY <1>p, <2>4, Zenon DEF Pings
    <3> QED
      BY <1>p, <2>4, <3>1 DEF PingStep
  <2>5. CASE ~p.timedOut /\ ping' = p
             /\ pong' = CASE ping.sent /\ ~p.sent -> "none"
                          [] ~ping.sent /\ p.sent -> "flying"
                          [] OTHER -> IF pong = "arrived" THEN "read" ELSE pong
    <3> HIDE DEF p
    <3>1. p.sent \in BOOLEAN
      BY <2>3 DEF Pings
    <3>2. pong' # "none" <=> p.sent
      BY <1>p, <2>5, <3>1
    <3> QED
      BY <2>3, <2>5, <3>2 DEF PingStep
  <2> QED
    BY <2>1, <2>4, <2>5
<1>2. CASE TimerElapses
  <2>1. ping' = [ping EXCEPT !.timer = "elapsed", !.armed = FALSE] /\ pong' = pong
    BY <1>2 DEF TimerElapses
  <2>2. ping' \in Pings /\ ping'.sent = ping.sent /\ ping'.bdp = ping.bdp
        /\ ping'.timedOut = ping.timedOut
    BY <1>p, <2>1, Zenon DEF Pings
  <2> QED
    BY <1>p, <2>1, <2>2 DEF PingStep
<1>3. CASE BdpDue
  <2>1. ping' = [ping EXCEPT !.next = "due"] /\ pong' = pong
    BY <1>3 DEF BdpDue
  <2>2. ping' \in Pings /\ ping'.sent = ping.sent /\ ping'.bdp = ping.bdp
        /\ ping'.timedOut = ping.timedOut
    BY <1>p, <2>1 DEF Pings
  <2> QED
    BY <1>p, <2>1, <2>2 DEF PingStep
<1>4. CASE PongArrives
  BY <1>4, SamePings DEF PongArrives
<1>6. CASE ServerTimesOut /\ net = "silent"
  BY <1>6, SamePings DEF ServerTimesOut, pings
<1>5. CASE ConnDone \/ ConnLost \/ (ServerTimesOut /\ net # "silent")
  <2> DEFINE c == Channel(FALSE, FALSE, FALSE)
  <2>1. ping' = [c EXCEPT !.bdp = ping.bdp] /\ pong' = "none"
    BY <1>5, Zenon DEF ConnDone, ConnLost, ServerTimesOut, Close
  <2>2. c \in Pings /\ ~c.sent /\ ~c.timedOut
    BY ChannelFacts, Zenon
  <2> HIDE DEF c
  <2>3. ping' \in Pings /\ ~ping'.sent /\ ~ping'.timedOut /\ ping'.bdp = ping.bdp
    BY <1>p, <2>1, <2>2 DEF Pings
  <2> QED
    BY <1>p, <2>1, <2>3 DEF PingStep
<1> QED
  BY <1>1, <1>2, <1>3, <1>4, <1>5, <1>6

\* The streams the connection starts with.
LEMMA HInit == Init => HInv
<1> SUFFICES ASSUME Init PROVE HInv
  OBVIOUS
<1>1. PICK plan \in Plans :
        /\ ping = Channel(plan.bdp, plan.keepAlive, plan.whileIdle)
        /\ st = [r \in Requests |->
                  [kind |-> IF r \in plan.connect THEN "CONNECT" ELSE "plain",
                   req |-> "new", canceled |-> FALSE, spawned |-> FALSE, raw |-> FALSE,
                   srv |-> "none", cRst |-> FALSE, sRst |-> FALSE, shut |-> FALSE,
                   up |-> Direction(plan.up), down |-> Direction(plan.down)]]
  BY Zenon DEF Init
<1>2. /\ plan.bdp \in BOOLEAN /\ plan.keepAlive \in BOOLEAN /\ plan.whileIdle \in BOOLEAN
      /\ plan.up \in Int /\ plan.down \in Int /\ Window \in Int
  BY ConnAssumption
<1>3. ping \in Pings /\ ~ping.sent
  BY <1>1, <1>2, ChannelFacts
<1>4. ASSUME NEW n \in Int PROVE Direction(n) \in Dirs /\ Direction(n).pipe = "none"
  <2>1. <<>> \in Seq(Frames) /\ 0 \in Int
    OBVIOUS
  <2> QED
    BY <1>2, <2>1 DEF Direction, Dirs
<1>5. Direction(plan.up) \in Dirs /\ Direction(plan.down) \in Dirs /\ Direction(plan.up).pipe = "none"
  BY <1>2, <1>4
<1>6. ASSUME NEW r \in Requests PROVE st[r] \in Streams /\ Piped(st[r])
  BY <1>1, <1>5 DEF Streams, Piped
<1>7. Known
  BY <1>1, <1>6 DEF Known
<1> QED
  BY <1>3, <1>7 DEF HInv, Init

\* A step of one stream after which it holds the connection only if it did.
LEMMA OneStream ==
  ASSUME HInv, PingStep, NEW r \in Requests, NEW z \in After(st[r]), st' = [st EXCEPT ![r] = z],
         UNCHANGED <<conn, dispatch>>, queue' \in Seq(Requests)
  PROVE  HInv'
<1>1. st' \in [Requests -> Streams] /\ st'[r] = z /\ \A q \in Requests \ {r} : st'[q] = st[q]
  BY DEF HInv, Known, After
<1>2. Known'
  BY <1>1 DEF HInv, Known, After, Piped
<1>3. \A q \in Requests : st'[q].spawned => st[q].spawned
  BY <1>1 DEF After
<1> QED
  BY <1>2, <1>3 DEF HInv, PingStep

\* A step of every stream after which each holds the connection only if it did.
LEMMA EachStream ==
  ASSUME HInv, PingStep, UNCHANGED <<conn, dispatch, queue>>, st' = [r \in Requests |-> st'[r]],
         \A r \in Requests : st'[r] \in After(st[r])
  PROVE  HInv'
<1>1. Known'
  BY DEF Known, After
<1> QED
  BY <1>1 DEF HInv, PingStep, After

\* What dropping the last SendRequest, and a shutdown, make of a stream.
LEMMA MarkedStream ==
  ASSUME NEW s \in Streams, Piped(s), NEW b \in BOOLEAN
  PROVE  [s EXCEPT !.req = "error"] \in After(s) /\ [s EXCEPT !.shut = b] \in After(s)
BY DEF After, Streams, Piped

\* The connection is gone: every stream loses what was under way.
LEMMA CloseStep ==
  ASSUME HInv, PingStep, NEW shut, Close(shut), queue' = queue
  PROVE  HInv'
<1>1. ASSUME NEW r \in Requests PROVE st'[r] \in Streams /\ Piped(st'[r])
  <2> DEFINE s == st[r]
             u == [s.up EXCEPT !.wire = <<>>]
             d == [s.down EXCEPT !.wire = <<>>]
  <2>1. s \in Streams /\ Piped(s) /\ s.up \in Dirs /\ s.down \in Dirs
    BY StreamFacts DEF HInv
  <2>2. PICK b \in BOOLEAN :
          st'[r] = [s EXCEPT !.up = u, !.down = d, !.cRst = FALSE, !.sRst = FALSE, !.shut = b]
    BY <2>1, Zenon DEF Close, Streams
  <2>3. <<>> \in Seq(Frames)
    OBVIOUS
  <2>4. u \in Dirs /\ d \in Dirs /\ u.pipe = s.up.pipe
    BY <2>1, <2>3, Zenon DEF Dirs
  <2> HIDE DEF s, u, d
  <2> QED
    BY <2>1, <2>2, <2>4, Zenon DEF Streams, Piped
<1>2. st' = [r \in Requests |-> st'[r]] /\ conn' = "closed"
  BY Zenon DEF Close
<1>3. Known'
  BY <1>1, <1>2 DEF Known
<1> QED
  BY <1>2, <1>3 DEF HInv, PingStep

\* The ClientTask takes a request, or ends.
LEMMA DispatchSteps ==
  ASSUME HInv, DispatchRecv \/ DispatchEnd
  PROVE  PingStep /\ HInv'
<1>1. PingStep
  BY SamePings DEF DispatchRecv, DispatchEnd
<1>2. CASE DispatchRecv
  <2> DEFINE r == Head(queue)
             s == st[r]
             u == Put(s.up, <<"head">>)
             w == [s EXCEPT !.req = "waiting"]
  <2>1. r \in Requests /\ queue' \in Seq(Requests) /\ dispatch = "running" /\ conn' = conn
        /\ dispatch' = dispatch
    BY <1>2 DEF DispatchRecv, HInv
  <2>2. s \in Streams /\ Piped(s) /\ s.up \in Dirs
    BY <2>1, StreamFacts DEF HInv
  <2>3. \/ \E x \in {"dropped", "error"} : st' = [st EXCEPT ![r] = [s EXCEPT !.req = x]]
        \/ st' = [st EXCEPT ![r] = [w EXCEPT !.up = SendEosFrame(u)]]
        \/ st' = [st EXCEPT ![r] = [w EXCEPT !.up = [u EXCEPT !.pipe = "data"], !.spawned = TRUE]]
        \/ st' = [st EXCEPT ![r] = [w EXCEPT !.up = u]]
    BY <1>2, <2>2, ZenonT(40) DEF DispatchRecv, Set, Streams
  <2>4. u \in Dirs /\ u.pipe = s.up.pipe
    BY <2>2, FrameFacts, SendFacts, Zenon
  <2>5. SendEosFrame(u) \in Dirs /\ SendEosFrame(u).pipe = "done"
    BY <2>4, FrameFacts, SendFacts DEF SendEosFrame
  <2> HIDE DEF u, s
  <2>6. [u EXCEPT !.pipe = "data"] \in Dirs
    BY <2>4 DEF Dirs
  <2>7. /\ \A x \in {"dropped", "error"} : [s EXCEPT !.req = x] \in Streams /\ Piped([s EXCEPT !.req = x])
        /\ [w EXCEPT !.up = SendEosFrame(u)] \in Streams /\ Piped([w EXCEPT !.up = SendEosFrame(u)])
        /\ [w EXCEPT !.up = u] \in Streams /\ Piped([w EXCEPT !.up = u])
    BY <2>2, <2>4, <2>5, Zenon DEF Streams, Piped
  <2>8. LET z == [w EXCEPT !.up = [u EXCEPT !.pipe = "data"], !.spawned = TRUE]
        IN z \in Streams /\ Piped(z)
    BY <2>2, <2>6, Zenon DEF Streams, Piped
  <2>9. \E z : z \in Streams /\ Piped(z) /\ st' = [st EXCEPT ![r] = z]
    BY <2>3, <2>7, <2>8
  <2>10. Known'
    BY <2>1, <2>9 DEF HInv, Known, Piped
  <2> QED
    BY <1>1, <2>1, <2>10 DEF HInv, PingStep
<1>3. CASE DispatchEnd
  <2>1. st' = CancelQueued /\ queue' = <<>> /\ conn' = conn /\ dispatch' = "done"
    BY <1>3 DEF DispatchEnd
  <2>2. ASSUME NEW r \in Requests
        PROVE  st'[r] \in Streams /\ Piped(st'[r]) /\ st'[r].spawned = st[r].spawned
    <3> DEFINE s == st[r]
    <3>1. s \in Streams /\ Piped(s)
      BY StreamFacts DEF HInv
    <3>2. st'[r] \in {s, [s EXCEPT !.req = "error"]}
      BY <2>1 DEF CancelQueued
    <3> HIDE DEF s
    <3>3. [s EXCEPT !.req = "error"] \in Streams /\ Piped([s EXCEPT !.req = "error"])
          /\ [s EXCEPT !.req = "error"].spawned = s.spawned
      BY <3>1 DEF Streams, Piped
    <3> QED
      BY <3>1, <3>2, <3>3, Zenon DEF s
  <2>3. st' = [r \in Requests |-> st'[r]]
    BY <2>1 DEF CancelQueued
  <2>4. Known'
    BY <2>2, <2>3 DEF Known
  <2>5. queue' \in Seq(Requests)
    BY <2>1
  <2> QED
    BY <1>1, <2>1, <2>2, <2>4, <2>5 DEF HInv, PingStep
<1> QED
  BY <1>1, <1>2, <1>3

\* conn_task sees the last hold on the connection dropped.
LEMMA DropRxStep ==
  ASSUME HInv, ConnDropRx
  PROVE  PingStep /\ HInv'
<1>1. PingStep
  BY SamePings DEF ConnDropRx, pings
<1>2. IsFiniteSet(Pipes)
  BY ConnAssumption, FS_Subset DEF Pipes
<1>3. Cardinality(Pipes) \in Nat /\ (Cardinality(Pipes) = 0 => Pipes = {})
  BY <1>2, FS_CardinalityType, FS_EmptySet
<1>4. dispatch # "running" /\ Pipes = {}
  BY <1>3 DEF ConnDropRx, ConnDropRefs
<1>5. UNCHANGED <<ping, pong, dispatch, queue, st>>
  BY DEF ConnDropRx, pings
<1> QED
  BY <1>1, <1>4, <1>5 DEF HInv, PingStep, Known, Piped, Pipes

\* Every step keeps the invariant, and does to the pings what it may.
LEMMA HStep ==
  ASSUME HInv, [Next]_vars
  PROVE  PingStep /\ HInv'
<1>1. ASSUME NEW r \in Requests,
             UserStep(r) \/ ClientStep(r) \/ ServerStep(r) \/ RawStep(r)
             \/ ImplicitReset(r) \/ Discarded(r)
      PROVE  PingStep /\ HInv'
  <2>1. PingStep /\ UNCHANGED <<conn, dispatch>> /\ (queue' = queue \/ queue' = Append(queue, r))
    BY <1>1, StreamPings
  <2>2. \E z \in After(st[r]) : st' = [st EXCEPT ![r] = z]
    BY <1>1, UserSteps, ClientSteps, ServerSteps, RawSteps, UnheldSteps DEF HInv
  <2>3. queue' \in Seq(Requests)
    BY <2>1 DEF HInv
  <2> QED
    BY <2>1, <2>2, <2>3, OneStream, Zenon
<1>2. CASE DispatchRecv \/ DispatchEnd
  BY <1>2, DispatchSteps
<1>3. CASE ConnDropRx
  BY <1>3, DropRxStep
<1>4. CASE ConnDone \/ ConnLost \/ (ServerTimesOut /\ net # "silent")
  <2>1. (Close({}) \/ Close(ServerUpgraded)) /\ queue' = queue
    BY <1>4, Zenon DEF ConnDone, ConnLost, ServerTimesOut
  <2> QED
    BY <1>4, <2>1, ConnPings, CloseStep
<1>8. CASE ServerTimesOut /\ net = "silent"
  <2>1. /\ UNCHANGED <<conn, dispatch, queue>>
        /\ st' = [r \in Requests |-> [st[r] EXCEPT !.shut = @ \/ r \in ServerUpgraded]]
    BY <1>8 DEF ServerTimesOut
  <2>2. ASSUME NEW r \in Requests PROVE st'[r] \in After(st[r])
    <3>1. st'[r] = [st[r] EXCEPT !.shut = @ \/ r \in ServerUpgraded]
      BY <2>1
    <3>2. (st[r].shut \/ r \in ServerUpgraded) \in BOOLEAN
      OBVIOUS
    <3> QED
      BY <3>1, <3>2, StreamFacts, MarkedStream, Zenon DEF HInv
  <2>3. st' = [r \in Requests |-> st'[r]]
    BY <2>1
  <2> QED
    BY <1>8, <2>1, <2>2, <2>3, ConnPings, EachStream
<1>9. CASE DropSender
  <2>1. /\ UNCHANGED <<ping, pong, conn, dispatch, queue>>
        /\ st' = [r \in Requests |->
                    IF st[r].req = "stuck" THEN [st[r] EXCEPT !.req = "error"] ELSE st[r]]
    BY <1>9 DEF DropSender, pings
  <2>2. ASSUME NEW r \in Requests PROVE st'[r] \in After(st[r])
    BY <2>1, StreamFacts, MarkedStream, Zenon DEF HInv
  <2>3. st' = [r \in Requests |-> st'[r]]
    BY <2>1
  <2> QED
    BY <2>1, <2>2, <2>3, SamePings, EachStream
<1>5. CASE ConnPoll
  <2>1. PingStep /\ UNCHANGED <<queue, dispatch>> /\ (Close({}) \/ UNCHANGED <<conn, st>>)
    BY <1>5, ConnPings DEF ConnPoll
  <2> QED
    BY <2>1, CloseStep DEF HInv, PingStep, Known, Piped
<1>6. CASE TimerElapses \/ BdpDue \/ PongArrives
  <2>1. PingStep /\ UNCHANGED <<queue, dispatch, conn, st>>
    BY <1>6, ConnPings, Zenon DEF TimerElapses, BdpDue, PongArrives, tasks
  <2> QED
    BY <2>1 DEF HInv, PingStep, Known, Piped
<1>7. CASE GoSilent \/ UNCHANGED vars
  <2>1. UNCHANGED <<ping, pong, queue, dispatch, conn, st>>
    BY <1>7 DEF GoSilent, vars, tasks, pings
  <2> QED
    BY <2>1, SamePings DEF HInv, PingStep, Known, Piped
<1> QED
  BY <1>1, <1>2, <1>3, <1>4, <1>5, <1>6, <1>7, <1>8, <1>9 DEF Next

\* The invariant always holds.
LEMMA HAlways == Spec => []HInv
<1>1. HInv /\ [Next]_vars => HInv'
  BY HStep
<1> QED
  BY <1>1, HInit, PTL DEF Spec

-----------------------------------------------------------------------------
(* The bodies.  What is under way in a direction is a chain: each frame    *)
(* starts where the one before it stops, the first where the reader is and *)
(* the last stops where the sender is, and nothing follows an end.         *)

IsEnd(f) == f[1] \in {"eos", "trailers"}
IsHead(f) == f[1] = "head"
Bytes(f) == IF IsData(f) THEN f[2] ELSE 0

Chain(d, pos) ==
    LET w == d.wire IN
    /\ pos[1] = d.got + d.buf /\ pos[Len(w) + 1] = d.sent
    /\ \A i \in 1 .. Len(w) :
          /\ pos[i + 1] = pos[i] + Bytes(w[i])
          /\ IsEnd(w[i]) => d.fate = "end" /\ pos[i] = d.sent
          /\ w[i] = <<"reset", "CANCEL">> =>
                d.fate = "gone" \/ \E j \in 1 .. (i - 1) : IsEnd(w[j])
          /\ IsHead(w[i]) => i = 1 /\ d.rd = "none"
    /\ d.fate = "end" => \E i \in 1 .. Len(w) : IsEnd(w[i])

Linked(d) == d.rd \in {"none", "open"} =>
                \E pos \in [1 .. (Len(d.wire) + 1) -> Int] : Chain(d, pos)

\* The kinds of frames exclude each other, and only data has bytes.
LEMMA FrameKinds ==
  ASSUME NEW f \in Frames
  PROVE  /\ Bytes(f) \in Nat /\ (~IsData(f) => Bytes(f) = 0) /\ (IsData(f) => Bytes(f) = f[2])
         /\ IsEnd(f) => ~IsData(f) /\ f # <<"reset", "CANCEL">> /\ ~IsHead(f)
         /\ IsHead(f) => ~IsData(f) /\ f # <<"reset", "CANCEL">>
         /\ f = <<"reset", "CANCEL">> => ~IsData(f)
         /\ ~IsData(f) /\ f[1] # "reset" => IsEnd(f) \/ IsHead(f)
         /\ ~IsData(f) /\ f # <<"reset", "error">> =>
               IsEnd(f) \/ IsHead(f) \/ f = <<"reset", "CANCEL">>
BY FrameFacts DEF Frames, Bytes, IsData, IsEnd, IsHead

\* A frame is added at the end of the chain.
LEMMA LinkPut ==
  ASSUME NEW d \in Dirs, NEW e \in Dirs, NEW f \in Frames, Linked(d),
         e.wire = Append(d.wire, f), e.got = d.got, e.buf = d.buf, e.rd = d.rd,
         e.sent = d.sent + Bytes(f), IsData(f) => d.fate = "open",
         d.fate \in {"end", "gone"} => e.fate = d.fate,
         IsEnd(f) => e.fate = "end", e.fate = "end" => d.fate = "end" \/ IsEnd(f),
         f = <<"reset", "CANCEL">> => e.fate = "gone" \/ d.fate = "end",
         IsHead(f) => d.wire = <<>> /\ d.rd # "open"
  PROVE  Linked(e)
<1> SUFFICES ASSUME d.rd \in {"none", "open"}
             PROVE  \E q \in [1 .. (Len(e.wire) + 1) -> Int] : Chain(e, q)
  BY DEF Linked
<1> DEFINE n == Len(d.wire)
<1>1. PICK pos \in [1 .. (n + 1) -> Int] : Chain(d, pos)
  BY DEF Linked
<1>2. /\ d.wire \in Seq(Frames) /\ n \in Nat /\ d.sent \in Int /\ e.sent \in Int
      /\ Bytes(f) \in Nat /\ (~IsData(f) => Bytes(f) = 0) /\ (IsEnd(f) => ~IsData(f))
  <2>1. d.wire \in Seq(Frames) /\ d.sent \in Int /\ e.sent \in Int
    BY DEF Dirs
  <2>2. n \in Nat
    BY <2>1
  <2>3. Bytes(f) \in Nat /\ (~IsData(f) => Bytes(f) = 0) /\ (IsEnd(f) => ~IsData(f))
    BY FrameKinds, Zenon
  <2> QED
    BY <2>1, <2>2, <2>3
<1>3. Len(e.wire) = n + 1 /\ e.wire[n + 1] = f /\ \A i \in 1 .. n : e.wire[i] = d.wire[i]
  BY <1>2
<1> DEFINE q == [i \in 1 .. (n + 2) |-> IF i = n + 2 THEN e.sent ELSE pos[i]]
<1>4. q \in [1 .. (n + 2) -> Int] /\ q[n + 2] = e.sent /\ \A i \in 1 .. (n + 1) : q[i] = pos[i]
  BY <1>1, <1>2
<1>c. /\ pos[1] = d.got + d.buf /\ pos[n + 1] = d.sent
      /\ \A i \in 1 .. n :
            /\ pos[i + 1] = pos[i] + Bytes(d.wire[i])
            /\ IsEnd(d.wire[i]) => d.fate = "end" /\ pos[i] = d.sent
            /\ d.wire[i] = <<"reset", "CANCEL">> =>
                  d.fate = "gone" \/ \E j \in 1 .. (i - 1) : IsEnd(d.wire[j])
            /\ IsHead(d.wire[i]) => i = 1 /\ d.rd = "none"
      /\ d.fate = "end" => \E i \in 1 .. n : IsEnd(d.wire[i])
  BY <1>1, Zenon DEF Chain
<1>e. n = 0 <=> d.wire = <<>>
  BY <1>2
<1> HIDE DEF q, n
<1>5. q[1] = e.got + e.buf /\ q[n + 1 + 1] = e.sent
  BY <1>2, <1>4, <1>c
<1>6. ASSUME NEW i \in 1 .. (n + 1)
      PROVE  /\ q[i + 1] = q[i] + Bytes(e.wire[i])
             /\ IsEnd(e.wire[i]) => e.fate = "end" /\ q[i] = e.sent
             /\ e.wire[i] = <<"reset", "CANCEL">> =>
                   e.fate = "gone" \/ \E j \in 1 .. (i - 1) : IsEnd(e.wire[j])
             /\ IsHead(e.wire[i]) => i = 1 /\ e.rd = "none"
  <2>1. CASE i \in 1 .. n
    <3>1. e.wire[i] = d.wire[i] /\ q[i] = pos[i] /\ q[i + 1] = pos[i + 1]
          /\ \A j \in 1 .. (i - 1) : e.wire[j] = d.wire[j]
      BY <1>2, <1>3, <1>4, <2>1, SMTT(30)
    <3>2. q[i + 1] = q[i] + Bytes(e.wire[i])
      BY <1>c, <2>1, <3>1
    <3>3. IsEnd(e.wire[i]) => e.fate = "end" /\ q[i] = e.sent
      BY <1>2, <1>c, <2>1, <3>1, SMTT(30)
    <3>4. e.wire[i] = <<"reset", "CANCEL">> =>
             e.fate = "gone" \/ \E j \in 1 .. (i - 1) : IsEnd(e.wire[j])
      BY <1>c, <2>1, <3>1, Zenon
    <3>5. IsHead(e.wire[i]) => i = 1 /\ e.rd = "none"
      BY <1>c, <2>1, <3>1
    <3> QED
      BY <3>2, <3>3, <3>4, <3>5, Zenon
  <2>2. CASE i = n + 1
    <3>1. e.wire[i] = f /\ q[i] = d.sent /\ q[i + 1] = e.sent
      BY <1>2, <1>3, <1>4, <1>c, <2>2
    <3>2. f = <<"reset", "CANCEL">> => e.fate = "gone" \/ \E j \in 1 .. (i - 1) : IsEnd(e.wire[j])
      <4>1. d.fate = "end" => \E j \in 1 .. n : IsEnd(e.wire[j])
        BY <1>3, <1>c, Zenon
      <4>2. i - 1 = n
        BY <1>2, <2>2
      <4> QED
        BY <4>1, <4>2, Zenon
    <3>3. IsHead(f) => i = 1 /\ e.rd = "none"
      BY <1>e, <2>2
    <3>4. q[i + 1] = q[i] + Bytes(e.wire[i])
      BY <3>1
    <3>5. IsEnd(e.wire[i]) => e.fate = "end" /\ q[i] = e.sent
      BY <1>2, <3>1
    <3>6. e.wire[i] = f
      BY <3>1
    <3> QED
      BY <3>2, <3>3, <3>4, <3>5, <3>6, Zenon
  <2>3. i \in 1 .. n \/ i = n + 1
    BY <1>2
  <2> QED
    BY <2>1, <2>2, <2>3, Zenon
<1>7. e.fate = "end" => \E i \in 1 .. (n + 1) : IsEnd(e.wire[i])
  <2>1. CASE d.fate = "end"
    <3>1. PICK i \in 1 .. n : IsEnd(d.wire[i])
      BY <1>c, <2>1
    <3>2. i \in 1 .. (n + 1) /\ IsEnd(e.wire[i])
      BY <1>2, <1>3, <3>1
    <3> QED
      BY <3>2, Zenon
  <2>2. CASE IsEnd(f)
    <3>1. n + 1 \in 1 .. (n + 1)
      BY <1>2
    <3> QED
      BY <1>3, <2>2, <3>1
  <2> QED
    BY <2>1, <2>2, Zenon
<1>8. Chain(e, q)
  BY <1>3, <1>5, <1>6, <1>7, SMTT(30) DEF Chain
<1>9. q \in [1 .. (Len(e.wire) + 1) -> Int]
  <2>1. n + 1 + 1 = n + 2
    BY <1>2
  <2> QED
    BY <1>3, <1>4, <2>1
<1> QED
  BY <1>8, <1>9

\* The frame the reader has come to is taken off the chain.
LEMMA LinkTake ==
  ASSUME NEW d \in Dirs, NEW e \in Dirs, Linked(d), d.rd \in {"none", "open"}, d.wire # <<>>,
         e.wire = Tail(d.wire), e.rd = "open", e.sent = d.sent, e.fate = d.fate,
         ~IsEnd(Head(d.wire)), e.got + e.buf = d.got + d.buf + Bytes(Head(d.wire))
  PROVE  Linked(e)
<1> DEFINE n == Len(d.wire)
<1>1. PICK pos \in [1 .. (n + 1) -> Int] : Chain(d, pos)
  BY DEF Linked
<1>2. d.wire \in Seq(Frames) /\ n \in Nat /\ n >= 1 /\ Head(d.wire) = d.wire[1]
  BY DEF Dirs
<1>3. Len(e.wire) = n - 1 /\ \A i \in 1 .. (n - 1) : e.wire[i] = d.wire[i + 1]
  BY <1>2
<1> DEFINE q == [i \in 1 .. n |-> pos[i + 1]]
<1>4. q \in [1 .. n -> Int] /\ \A i \in 1 .. n : q[i] = pos[i + 1]
  BY <1>1, <1>2
<1>c. /\ pos[1] = d.got + d.buf /\ pos[n + 1] = d.sent
      /\ \A i \in 1 .. n :
            /\ pos[i + 1] = pos[i] + Bytes(d.wire[i])
            /\ IsEnd(d.wire[i]) => d.fate = "end" /\ pos[i] = d.sent
            /\ d.wire[i] = <<"reset", "CANCEL">> =>
                  d.fate = "gone" \/ \E j \in 1 .. (i - 1) : IsEnd(d.wire[j])
            /\ IsHead(d.wire[i]) => i = 1 /\ d.rd = "none"
      /\ d.fate = "end" => \E i \in 1 .. n : IsEnd(d.wire[i])
  BY <1>1 DEF Chain
<1> HIDE DEF q, n
<1>5. q[1] = e.got + e.buf /\ q[n] = e.sent
  <2>1. 1 \in 1 .. n /\ n \in 1 .. n
    BY <1>2
  <2>2. q[1] = pos[1 + 1] /\ pos[1 + 1] = pos[1] + Bytes(d.wire[1]) /\ q[n] = pos[n + 1]
    BY <1>4, <1>c, <2>1
  <2> QED
    BY <1>2, <1>c, <2>2
<1>6. ASSUME NEW i \in 1 .. (n - 1)
      PROVE  /\ q[i + 1] = q[i] + Bytes(e.wire[i])
             /\ IsEnd(e.wire[i]) => e.fate = "end" /\ q[i] = e.sent
             /\ e.wire[i] = <<"reset", "CANCEL">> =>
                   e.fate = "gone" \/ \E j \in 1 .. (i - 1) : IsEnd(e.wire[j])
             /\ ~IsHead(e.wire[i])
  <2>1. i + 1 \in 1 .. n /\ i \in 1 .. n /\ i + 1 # 1 /\ (i + 1) - 1 = i
    BY <1>2
  <2>2. e.wire[i] = d.wire[i + 1] /\ q[i] = pos[i + 1] /\ q[i + 1] = pos[(i + 1) + 1]
    BY <1>3, <1>4, <2>1
  <2>3. q[i + 1] = q[i] + Bytes(e.wire[i]) /\ ~IsHead(e.wire[i])
        /\ (IsEnd(e.wire[i]) => e.fate = "end" /\ q[i] = e.sent)
    BY <1>c, <2>1, <2>2, Zenon
  <2>4. ASSUME e.wire[i] = <<"reset", "CANCEL">>, e.fate # "gone"
        PROVE  \E j \in 1 .. (i - 1) : IsEnd(e.wire[j])
    <3>1. \E j \in 1 .. i : IsEnd(d.wire[j])
      BY <1>c, <2>1, <2>2, <2>4, Zenon
    <3>2. PICK j \in 1 .. i : IsEnd(d.wire[j])
      BY <3>1
    <3>3. j # 1
      BY <1>2, <3>2
    <3>4. j - 1 \in 1 .. (i - 1) /\ j - 1 \in 1 .. (n - 1) /\ (j - 1) + 1 = j
      BY <1>2, <3>2, <3>3
    <3>5. e.wire[j - 1] = d.wire[j]
      BY <1>3, <3>4
    <3> QED
      BY <3>2, <3>4, <3>5, Zenon
  <2> QED
    BY <2>3, <2>4, Zenon
<1>7. ASSUME e.fate = "end" PROVE \E i \in 1 .. (n - 1) : IsEnd(e.wire[i])
  <2>1. PICK j \in 1 .. n : IsEnd(d.wire[j])
    BY <1>c, <1>7
  <2>2. j # 1
    BY <1>2, <2>1
  <2>3. j - 1 \in 1 .. (n - 1) /\ (j - 1) + 1 = j
    BY <1>2, <2>1, <2>2
  <2>4. e.wire[j - 1] = d.wire[j]
    BY <1>3, <2>3
  <2> QED
    BY <2>1, <2>3, <2>4, Zenon
<1>8. (n - 1) + 1 = n
  BY <1>2
<1>9. Chain(e, q) /\ q \in [1 .. (Len(e.wire) + 1) -> Int]
  BY <1>3, <1>4, <1>5, <1>6, <1>7, <1>8, Zenon DEF Chain
<1> QED
  BY <1>9 DEF Linked

\* A direction of which only the bytes handed out of a frame have changed.
LEMMA LinkSame ==
  ASSUME NEW d, NEW e, Linked(d), e.wire = d.wire, e.got + e.buf = d.got + d.buf,
         e.sent = d.sent, e.fate = d.fate, e.rd = d.rd
  PROVE  Linked(e)
<1>1. ASSUME NEW pos, Chain(d, pos) PROVE Chain(e, pos)
  BY <1>1, ZenonT(40) DEF Chain
<1> QED
  BY <1>1, Zenon DEF Linked

\* What the reader comes to: at an end it has read everything.
LEMMA LinkHead ==
  ASSUME NEW d \in Dirs, Linked(d), d.rd = "open", d.wire # <<>>
  PROVE  /\ ~IsHead(Head(d.wire))
         /\ IsEnd(Head(d.wire)) => d.fate = "end" /\ d.got + d.buf = d.sent
         /\ Head(d.wire) = <<"reset", "CANCEL">> => d.fate = "gone"
<1>1. PICK pos \in [1 .. (Len(d.wire) + 1) -> Int] : Chain(d, pos)
  BY DEF Linked
<1>2. d.wire \in Seq(Frames) /\ 1 \in 1 .. Len(d.wire) /\ Head(d.wire) = d.wire[1]
  BY DEF Dirs
<1>3. \A j \in 1 .. (1 - 1) : FALSE
  OBVIOUS
<1>4. /\ pos[1] = d.got + d.buf
      /\ IsEnd(d.wire[1]) => d.fate = "end" /\ pos[1] = d.sent
      /\ d.wire[1] = <<"reset", "CANCEL">> =>
            d.fate = "gone" \/ \E j \in 1 .. (1 - 1) : IsEnd(d.wire[j])
      /\ IsHead(d.wire[1]) => d.rd = "none"
  BY <1>1, <1>2 DEF Chain
<1> QED
  BY <1>2, <1>3, <1>4

\* What holds of a direction of a stream of kind k, a telling whether the
\* connection is there.
DirOK(d, a, k) ==
    /\ d.buf >= 0
    /\ d.fate # "open" => d.pipe = "done"
    /\ a => Linked(d)
    /\ d.rd = "end" => \/ d.fate = "end" /\ d.got = d.sent
                       \/ d.fate = "gone" /\ k = "CONNECT"
                       \/ k = "shut"

\* A pipe that is not done has a source that is open, and nothing has ended that
\* was not shut down.
LEMMA DirOpen ==
  ASSUME NEW d \in Dirs, NEW a, NEW k, DirOK(d, a, k), d.pipe # "done"
  PROVE  d.fate = "open" /\ (d.rd # "end" \/ k = "shut")
BY DEF DirOK, Dirs

\* A frame is sent by which the source does not end.
LEMMA DirPut ==
  ASSUME NEW d \in Dirs, NEW a, NEW k, DirOK(d, a, k), d.pipe # "done", NEW f \in Frames,
         f # <<"reset", "CANCEL">>, ~IsEnd(f), ~IsData(f), IsHead(f) => d.wire = <<>> /\ d.rd # "open"
  PROVE  LET e == Put(d, f) IN
         /\ e \in Dirs /\ DirOK(e, a, k) /\ e.wire = Append(d.wire, f) /\ e.pipe = d.pipe
         /\ e.fate = "open" /\ e.rd = d.rd /\ e.buf = d.buf
<1> DEFINE e == Put(d, f)
<1>1. d.fate = "open" /\ (d.rd # "end" \/ k = "shut")
  BY DirOpen
<1>2. e \in Dirs
  BY SendFacts
<1>3. /\ e.wire = Append(d.wire, f) /\ e.got = d.got /\ e.buf = d.buf /\ e.rd = d.rd
      /\ e.sent = d.sent /\ e.fate = d.fate /\ e.pipe = d.pipe
  BY DEF Put, Dirs
<1>4. e.sent = d.sent + Bytes(f)
  <2>1. Bytes(f) = 0 /\ d.sent \in Int
    BY FrameKinds DEF Dirs
  <2> QED
    BY <1>3, <2>1
<1> HIDE DEF e
<1>5. a => Linked(e)
  BY <1>1, <1>2, <1>3, <1>4, LinkPut DEF DirOK
<1>6. DirOK(e, a, k)
  BY <1>1, <1>3, <1>5 DEF DirOK
<1> QED
  BY <1>1, <1>2, <1>3, <1>6 DEF e

\* Data is sent.
LEMMA DirData ==
  ASSUME NEW d \in Dirs, NEW a, NEW k, DirOK(d, a, k), d.pipe # "done", NEW n \in Nat
  PROVE  LET e == SendData(d, n) IN
         /\ e \in Dirs /\ DirOK(e, a, k) /\ e.wire = Append(d.wire, <<"data", n>>) /\ e.pipe = d.pipe
         /\ e.fate = "open" /\ e.rd = d.rd /\ e.buf = d.buf
<1> DEFINE e == SendData(d, n)
           p == Put(d, <<"data", n>>)
           f == <<"data", n>>
<1>1. d.fate = "open" /\ (d.rd # "end" \/ k = "shut")
  BY DirOpen
<1>2. e \in Dirs /\ f \in Frames /\ IsData(f) /\ f[2] = n
  BY SendFacts2, FrameFacts DEF IsData
<1>p. p \in Dirs
  BY <1>2, SendFacts, SMTT(30)
<1>3. /\ p.wire = Append(d.wire, f) /\ p.got = d.got /\ p.buf = d.buf /\ p.rd = d.rd
      /\ p.sent = d.sent /\ p.fate = d.fate /\ p.pipe = d.pipe
  BY DEF Put, Dirs
<1>4. e = [p EXCEPT !.left = p.left - 1, !.win = p.win - n, !.sent = p.sent + n]
  BY DEF SendData
<1>5. Bytes(f) = n /\ ~IsEnd(f) /\ ~IsHead(f) /\ f # <<"reset", "CANCEL">>
  BY <1>2, FrameKinds
<1> HIDE DEF p, f
<1>6. /\ e.wire = Append(d.wire, f) /\ e.got = d.got /\ e.buf = d.buf /\ e.rd = d.rd
      /\ e.sent = d.sent + Bytes(f) /\ e.fate = d.fate /\ e.pipe = d.pipe
  BY <1>p, <1>3, <1>4, <1>5 DEF Dirs
<1> HIDE DEF e
<1>7. a => Linked(e)
  BY <1>1, <1>2, <1>5, <1>6, LinkPut DEF DirOK
<1>8. DirOK(e, a, k)
  BY <1>1, <1>6, <1>7 DEF DirOK
<1> QED
  BY <1>1, <1>2, <1>6, <1>8 DEF e, f

\* The source ends, with a frame that says so: the end, an error or, whatever
\* the source has done before, the dropping of the stream.
LEMMA DirEnd ==
  ASSUME NEW d \in Dirs, NEW a, NEW k, DirOK(d, a, k), NEW f \in Frames, NEW x,
         \/ d.pipe # "done" /\ IsEnd(f) /\ x = "end"
         \/ d.pipe # "done" /\ f = <<"reset", "error">> /\ x = "error"
         \/ f = <<"reset", "CANCEL">> /\ x = "gone"
  PROVE  LET e == Ended(Put(d, f), x) IN
         /\ e \in Dirs /\ DirOK(e, a, k) /\ e.wire = Append(d.wire, f) /\ e.pipe = "done"
         /\ e.rd = d.rd /\ e.buf = d.buf /\ e.fate = IF d.fate = "end" THEN "end" ELSE x
<1> DEFINE p == Put(d, f)
           e == Ended(p, x)
<1>1. d.pipe # "done" => d.fate = "open" /\ (d.rd # "end" \/ k = "shut")
  BY DirOpen
<1>2. p \in Dirs /\ x \in {"end", "error", "gone"}
  BY SendFacts
<1>3. e \in Dirs
  BY <1>2, SendFacts
<1>4. /\ p.wire = Append(d.wire, f) /\ p.got = d.got /\ p.buf = d.buf /\ p.rd = d.rd
      /\ p.sent = d.sent /\ p.fate = d.fate
  BY DEF Put, Dirs
<1> HIDE DEF p
<1>5. /\ e.wire = Append(d.wire, f) /\ e.got = d.got /\ e.buf = d.buf /\ e.rd = d.rd
      /\ e.sent = d.sent /\ e.pipe = "done" /\ e.fate = IF d.fate = "end" THEN "end" ELSE x
  BY <1>2, <1>4 DEF Ended, Dirs
<1>6. ~IsData(f) /\ ~IsHead(f) /\ (IsEnd(f) <=> x = "end")
      /\ (f = <<"reset", "CANCEL">> => x = "gone")
  BY FrameKinds DEF IsHead, IsData, IsEnd
<1>7. e.sent = d.sent + Bytes(f)
  <2>1. Bytes(f) = 0 /\ d.sent \in Int
    BY <1>6, FrameKinds DEF Dirs
  <2> QED
    BY <1>5, <2>1
<1> HIDE DEF e
<1>8. /\ d.fate \in {"end", "gone"} => e.fate = d.fate
      /\ IsEnd(f) => e.fate = "end"
      /\ e.fate = "end" => d.fate = "end" \/ IsEnd(f)
      /\ f = <<"reset", "CANCEL">> => e.fate = "gone" \/ d.fate = "end"
  BY <1>1, <1>5, <1>6
<1>9. a => Linked(e)
  BY <1>3, <1>5, <1>6, <1>7, <1>8, LinkPut DEF DirOK
<1>10. DirOK(e, a, k)
  <2>1. d.rd = "end" => \/ e.fate = "end" /\ e.got = e.sent
                        \/ e.fate = "gone" /\ k = "CONNECT"
                        \/ k = "shut"
    BY <1>5, <1>8 DEF DirOK
  <2> QED
    BY <1>5, <1>9, <2>1 DEF DirOK
<1> QED
  BY <1>3, <1>5, <1>10 DEF e, p

\* The source is given up without a frame.
LEMMA DirGivenUp ==
  ASSUME NEW d \in Dirs, NEW a, NEW k, DirOK(d, a, k), d.pipe # "done"
  PROVE  LET e == Ended(d, "error") IN
         /\ e \in Dirs /\ DirOK(e, a, k) /\ e.wire = d.wire /\ e.pipe = "done"
         /\ e.rd = d.rd /\ e.buf = d.buf
<1> DEFINE e == Ended(d, "error")
<1>1. d.fate = "open" /\ (d.rd # "end" \/ k = "shut")
  BY DirOpen
<1>2. e \in Dirs
  BY SendFacts, FrameFacts
<1>3. /\ e.wire = d.wire /\ e.got = d.got /\ e.buf = d.buf /\ e.rd = d.rd
      /\ e.sent = d.sent /\ e.pipe = "done" /\ e.fate = "error"
  BY <1>1 DEF Ended, Dirs
<1> HIDE DEF e
<1>4. ASSUME NEW pos, Chain(d, pos) PROVE Chain(e, pos)
  BY <1>1, <1>3, <1>4 DEF Chain
<1>5. a => Linked(e)
  BY <1>3, <1>4, Zenon DEF Linked, DirOK
<1>6. DirOK(e, a, k)
  BY <1>1, <1>3, <1>5 DEF DirOK
<1> QED
  BY <1>2, <1>3, <1>6 DEF e

\* A pipe that is not done turns to something else.
LEMMA DirPipe ==
  ASSUME NEW d \in Dirs, NEW a, NEW k, DirOK(d, a, k), d.pipe # "done",
         NEW x \in {"data", "trailers", "raw"}
  PROVE  LET e == [d EXCEPT !.pipe = x] IN
         /\ e \in Dirs /\ DirOK(e, a, k) /\ e.wire = d.wire /\ e.pipe = x
         /\ e.fate = "open" /\ e.rd = d.rd /\ e.buf = d.buf
<1> DEFINE e == [d EXCEPT !.pipe = x]
<1>1. d.fate = "open" /\ (d.rd # "end" \/ k = "shut")
  BY DirOpen
<1>2. e \in Dirs /\ e.wire = d.wire /\ e.got = d.got /\ e.buf = d.buf /\ e.rd = d.rd
      /\ e.sent = d.sent /\ e.pipe = x /\ e.fate = d.fate
  BY DEF Dirs
<1> HIDE DEF e
<1>3. a => Linked(e)
  BY <1>2, LinkSame DEF DirOK
<1>4. DirOK(e, a, k)
  BY <1>1, <1>2, <1>3 DEF DirOK
<1> QED
  BY <1>1, <1>2, <1>4 DEF e

\* A head is read, and the body is open.
LEMMA DirOpened ==
  ASSUME NEW d \in Dirs, NEW a, NEW k, DirOK(d, a, k), d.rd = "none", d.wire # <<>>,
         IsHead(Head(d.wire))
  PROVE  LET e == [d EXCEPT !.wire = Tail(d.wire), !.rd = "open"] IN
         e \in Dirs /\ DirOK(e, a, k) /\ e.pipe = d.pipe /\ e.fate = d.fate /\ e.buf = d.buf
         /\ e.wire = Tail(d.wire) /\ e.rd = "open"
<1> DEFINE e == [d EXCEPT !.wire = Tail(d.wire), !.rd = "open"]
<1>1. Head(d.wire) \in Frames /\ Tail(d.wire) \in Seq(Frames)
  BY WireFacts
<1>2. e \in Dirs /\ e.wire = Tail(d.wire) /\ e.got = d.got /\ e.buf = d.buf /\ e.rd = "open"
      /\ e.sent = d.sent /\ e.pipe = d.pipe /\ e.fate = d.fate
  BY <1>1, Zenon DEF Dirs
<1>3. ~IsEnd(Head(d.wire)) /\ Bytes(Head(d.wire)) = 0
  BY <1>1, FrameKinds
<1>4. e.got + e.buf = d.got + d.buf + Bytes(Head(d.wire))
  BY <1>2, <1>3 DEF Dirs
<1> HIDE DEF e
<1>5. a => Linked(e)
  BY <1>2, <1>3, <1>4, LinkTake DEF DirOK
<1>6. DirOK(e, a, k)
  BY <1>2, <1>5 DEF DirOK
<1> QED
  BY <1>2, <1>6 DEF e

\* The reader gives up, or is given up.
LEMMA DirClosed ==
  ASSUME NEW d \in Dirs, NEW a, NEW k, DirOK(d, a, k), NEW e \in Dirs, e.rd \in {"gone", "error"},
         e.pipe = d.pipe, e.fate = d.fate, e.buf \in {0, d.buf}
  PROVE  DirOK(e, a, k)
BY DEF DirOK, Linked

\* A stream that is shut down is excused.
LEMMA DirShut ==
  ASSUME NEW d, NEW a, NEW k, DirOK(d, a, k)
  PROVE  DirOK(d, a, "shut")
BY DEF DirOK

\* The reader of one is told that it has ended.
LEMMA DirShutEnd ==
  ASSUME NEW d \in Dirs, NEW a, DirOK(d, a, "shut"), NEW e \in Dirs, e.rd = "end",
         e.pipe = d.pipe, e.fate = d.fate, e.buf = d.buf
  PROVE  DirOK(e, a, "shut")
BY DEF DirOK, Linked

\* What arrives for a reader that is no more is thrown away.
LEMMA DirDiscard ==
  ASSUME NEW d \in Dirs, NEW a, NEW k, DirOK(d, a, k), d.wire # <<>>,
         d.rd \in {"gone", "end", "error"}
  PROVE  LET e == Discard(d) IN
         /\ e \in Dirs /\ DirOK(e, a, k) /\ e.wire = Tail(d.wire) /\ e.pipe = d.pipe
         /\ e.fate = d.fate /\ e.rd = d.rd /\ e.buf = d.buf
<1> DEFINE e == Discard(d)
<1>1. e \in Dirs
  BY ReadFacts
<1>2. e.wire = Tail(d.wire) /\ e.got = d.got /\ e.buf = d.buf /\ e.rd = d.rd
      /\ e.sent = d.sent /\ e.pipe = d.pipe /\ e.fate = d.fate
  BY DEF Discard, Dirs
<1> HIDE DEF e
<1>3. DirOK(e, a, k)
  BY <1>2 DEF DirOK, Linked
<1> QED
  BY <1>1, <1>2, <1>3 DEF e

\* A Body is polled.
LEMMA DirBody ==
  ASSUME NEW d \in Dirs, NEW a, NEW k, DirOK(d, a, k), a, Readable(d), d.buf = 0
  PROVE  LET e == BodyRead(d) IN
         /\ e \in Dirs /\ DirOK(e, a, k) /\ e.wire = Tail(d.wire) /\ e.pipe = d.pipe
         /\ e.fate = d.fate /\ e.rd \in {"open", "end", "error"} /\ e.buf = 0
<1> DEFINE e == BodyRead(d)
           f == Head(d.wire)
<1>1. d.rd = "open" /\ d.wire # <<>> /\ Linked(d)
  BY DEF Readable, DirOK
<1>2. e \in Dirs /\ f \in Frames /\ (IsData(f) => f[2] \in Nat) /\ ~IsHead(f)
      /\ (IsEnd(f) => d.fate = "end" /\ d.got + d.buf = d.sent)
  BY <1>1, ReadFacts, WireFacts, LinkHead
<1>3. CASE IsData(f)
  <2>1. /\ e.wire = Tail(d.wire) /\ e.pipe = d.pipe /\ e.fate = d.fate /\ e.rd = "open"
        /\ e.buf = 0 /\ e.sent = d.sent /\ e.got = d.got + f[2]
    BY <1>1, <1>3 DEF BodyRead, ReadData, Dirs
  <2>2. ~IsEnd(f) /\ Bytes(f) = f[2]
    BY <1>2, <1>3, FrameKinds DEF Bytes
  <2> HIDE DEF e, f
  <2>3. e.got + e.buf = d.got + d.buf + Bytes(f)
    BY <1>2, <1>3, <2>1, <2>2 DEF Dirs
  <2>4. Linked(e)
    BY <1>1, <1>2, <2>1, <2>2, <2>3, LinkTake DEF f
  <2> QED
    BY <1>2, <2>1, <2>4 DEF DirOK, e
<1>4. CASE ~IsData(f)
  <2>1. /\ e.wire = Tail(d.wire) /\ e.pipe = d.pipe /\ e.fate = d.fate
        /\ e.rd = (IF f[1] = "reset" THEN "error" ELSE "end")
        /\ e.buf = 0 /\ e.sent = d.sent /\ e.got = d.got
    BY <1>4 DEF BodyRead, ReadEnd, Dirs
  <2>2. f[1] # "reset" => IsEnd(f)
    BY <1>2, <1>4, FrameKinds DEF Frames, IsEnd, IsHead, IsData
  <2> HIDE DEF e, f
  <2>3. e.rd = "end" => e.fate = "end" /\ e.got = e.sent
    BY <1>2, <2>1, <2>2 DEF Dirs
  <2>4. e.rd # "open" /\ e.rd # "none" /\ e.buf >= 0
    BY <2>1
  <2>5. DirOK(e, a, k)
    BY <2>1, <2>3, <2>4 DEF DirOK, Linked
  <2> QED
    BY <1>2, <2>1, <2>5, Zenon DEF e
<1> QED
  BY <1>3, <1>4, Zenon

\* An upgraded stream hands out n bytes.
LEMMA DirRaw ==
  ASSUME NEW d \in Dirs, NEW a, NEW k, DirOK(d, a, k), a, d.rd = "open", NEW n \in Nat,
         \/ d.buf > 0 /\ n <= d.buf
         \/ ~(d.buf > 0) /\ d.wire # <<>> /\ IsData(Head(d.wire)) /\ n <= Head(d.wire)[2]
  PROVE  LET e == UpgradedRead(d, n) IN
         /\ e \in Dirs /\ DirOK(e, a, k) /\ e.wire \in {d.wire, Tail(d.wire)} /\ e.pipe = d.pipe
         /\ e.fate = d.fate /\ e.rd = "open"
<1> DEFINE e == UpgradedRead(d, n)
           f == Head(d.wire)
<1>0. e \in Dirs
  BY UpgradedFacts
<1>1. e \in Dirs /\ Linked(d) /\ d.buf \in Nat /\ d.got \in Int
  <2>1. d.buf \in Int /\ d.got \in Int
    BY DEF Dirs
  <2> QED
    BY <1>0, <2>1 DEF DirOK
<1>2. CASE d.buf > 0
  <2>1. /\ e.wire = d.wire /\ e.pipe = d.pipe /\ e.fate = d.fate /\ e.rd = "open"
        /\ e.buf = d.buf - n /\ e.sent = d.sent /\ e.got = d.got + n
    BY <1>2 DEF UpgradedRead, Dirs
  <2> HIDE DEF e, f
  <2>2. e.got + e.buf = d.got + d.buf /\ e.buf >= 0
    BY <1>1, <1>2, <2>1
  <2>3. Linked(e)
    BY <1>1, <2>1, <2>2, LinkSame
  <2>4. DirOK(e, a, k)
    BY <2>1, <2>2, <2>3 DEF DirOK
  <2> QED
    BY <1>1, <2>1, <2>4, Zenon DEF e
<1>3. CASE ~(d.buf > 0)
  <2>1. /\ e.wire = Tail(d.wire) /\ e.pipe = d.pipe /\ e.fate = d.fate /\ e.rd = "open"
        /\ e.buf = f[2] - n /\ e.sent = d.sent /\ e.got = d.got + n
    BY <1>3 DEF UpgradedRead, Dirs
  <2>2. f \in Frames /\ f[2] \in Nat /\ ~IsEnd(f) /\ Bytes(f) = f[2] /\ d.buf = 0 /\ n <= f[2]
    BY <1>1, <1>3, WireFacts, FrameKinds DEF Bytes
  <2>w. d.wire # <<>>
    BY <1>3
  <2> HIDE DEF e, f
  <2>3. e.got + e.buf = d.got + d.buf + Bytes(f) /\ e.buf >= 0
    BY <1>1, <2>1, <2>2
  <2>4. Linked(e)
    BY <1>1, <2>w, <2>1, <2>2, <2>3, LinkTake DEF f
  <2>5. DirOK(e, a, k)
    BY <2>1, <2>3, <2>4 DEF DirOK
  <2> QED
    BY <1>1, <2>1, <2>5, Zenon DEF e
<1> QED
  BY <1>2, <1>3, Zenon

\* An upgraded stream is seen to end.
LEMMA DirRawEnd ==
  ASSUME NEW d \in Dirs, NEW a, NEW k \in {"CONNECT", "shut"}, DirOK(d, a, k), a, d.rd = "open",
         ~(d.buf > 0), d.wire # <<>>, ~IsData(Head(d.wire))
  PROVE  LET e == UpgradedEnd(d) IN
         /\ e \in Dirs /\ DirOK(e, a, k) /\ e.wire = Tail(d.wire) /\ e.pipe = d.pipe
         /\ e.fate = d.fate /\ e.rd \in {"end", "error"}
<1> DEFINE e == UpgradedEnd(d)
           f == Head(d.wire)
<1>1. e \in Dirs /\ Linked(d) /\ d.buf = 0
  BY ReadFacts DEF DirOK, Dirs
<1>2. f \in Frames /\ ~IsHead(f) /\ (IsEnd(f) => d.fate = "end" /\ d.got + d.buf = d.sent)
      /\ (f = <<"reset", "CANCEL">> => d.fate = "gone")
  BY <1>1, WireFacts, LinkHead
<1>3. /\ e.wire = Tail(d.wire) /\ e.pipe = d.pipe /\ e.fate = d.fate
      /\ e.rd = (IF f = <<"reset", "error">> THEN "error" ELSE "end")
      /\ e.buf = d.buf /\ e.sent = d.sent /\ e.got = d.got
  BY DEF UpgradedEnd, Dirs
<1>4. f # <<"reset", "error">> => IsEnd(f) \/ f = <<"reset", "CANCEL">>
  BY <1>2 DEF Frames, IsEnd, IsHead, IsData
<1> HIDE DEF e, f
<1>5. e.rd = "end" => e.fate = "gone" \/ (e.fate = "end" /\ e.got = e.sent)
  BY <1>1, <1>2, <1>3, <1>4 DEF Dirs
<1>6. e.rd # "open" /\ e.rd # "none" /\ e.buf >= 0
  BY <1>1, <1>3
<1>7. DirOK(e, a, k)
  BY <1>3, <1>5, <1>6 DEF DirOK, Linked
<1> QED
  BY <1>1, <1>3, <1>7, Zenon DEF e

\* The stream has been started, and nothing under way is an upgrade.
Started(w) == w # <<>> /\ Head(w)[1] = "head"
NoUpgrade(w) == \A i \in 1 .. Len(w) : w[i] # <<"head", "upgrade">>
Grows(v, w) == (Started(v) => Started(w)) /\ (NoUpgrade(v) => NoUpgrade(w))

\* Sending a frame other than an upgrade, and what reading leaves.
LEMMA WireGrows ==
  ASSUME NEW w \in Seq(Frames), NEW f \in Frames
  PROVE  /\ f # <<"head", "upgrade">> => Grows(w, Append(w, f))
         /\ w = <<>> /\ f[1] = "head" => Started(Append(w, f))
         /\ w # <<>> /\ NoUpgrade(w) => NoUpgrade(Tail(w)) /\ Head(w) # <<"head", "upgrade">>
         /\ NoUpgrade(<<>>)
<1>1. Started(w) => Started(Append(w, f))
  BY DEF Started
<1>2. ASSUME f # <<"head", "upgrade">>, NoUpgrade(w) PROVE NoUpgrade(Append(w, f))
  <2> SUFFICES ASSUME NEW i \in 1 .. Len(Append(w, f)) PROVE Append(w, f)[i] # <<"head", "upgrade">>
    BY DEF NoUpgrade
  <2>1. i \in 1 .. Len(w) \/ i = Len(w) + 1
    OBVIOUS
  <2>2. Append(w, f)[i] = IF i = Len(w) + 1 THEN f ELSE w[i]
    OBVIOUS
  <2>3. i \in 1 .. Len(w) => w[i] # <<"head", "upgrade">>
    BY <1>2 DEF NoUpgrade
  <2> QED
    BY <1>2, <2>1, <2>2, <2>3, Zenon
<1>3. w = <<>> /\ f[1] = "head" => Started(Append(w, f))
  BY DEF Started
<1>4. w # <<>> /\ NoUpgrade(w) => NoUpgrade(Tail(w)) /\ Head(w) # <<"head", "upgrade">>
  BY DEF NoUpgrade
<1>5. NoUpgrade(<<>>)
  BY DEF NoUpgrade
<1> QED
  BY <1>1, <1>2, <1>3, <1>4, <1>5 DEF Grows

\* What the sending end makes of a direction.
Sends(d, e, a, k) ==
    /\ e \in Dirs /\ DirOK(e, a, k) /\ Grows(d.wire, e.wire)
    /\ e.rd = d.rd /\ e.buf = d.buf

\* A source ends, fails or is dropped.
LEMMA EndSends ==
  ASSUME NEW d \in Dirs, NEW a, NEW k, DirOK(d, a, k)
  PROVE  /\ d.pipe # "done" =>
              /\ Sends(d, SendEosFrame(d), a, k) /\ SendEosFrame(d).pipe = "done"
              /\ Sends(d, Ended(Put(d, <<"trailers">>), "end"), a, k)
              /\ Ended(Put(d, <<"trailers">>), "end").pipe = "done"
              /\ Sends(d, OnUserErr(d), a, k) /\ OnUserErr(d).pipe = "done"
              /\ Sends(d, Ended(d, "error"), a, k) /\ Ended(d, "error").pipe = "done"
         /\ LET e == Ended(Put(d, <<"reset", "CANCEL">>), "gone")
            IN  Sends(d, e, a, k) /\ e.pipe = "done"
<1>w. d.wire \in Seq(Frames)
  BY DEF Dirs
<1>f. /\ {<<"eos">>, <<"trailers">>, <<"reset", "error">>, <<"reset", "CANCEL">>} \subseteq Frames
      /\ IsEnd(<<"eos">>) /\ IsEnd(<<"trailers">>)
      /\ <<"eos">> # <<"head", "upgrade">> /\ <<"trailers">> # <<"head", "upgrade">>
      /\ <<"reset", "error">> # <<"head", "upgrade">> /\ <<"reset", "CANCEL">> # <<"head", "upgrade">>
  BY FrameFacts DEF IsEnd
<1>g. ASSUME NEW f \in Frames, NEW x, f # <<"head", "upgrade">>,
             \/ d.pipe # "done" /\ IsEnd(f) /\ x = "end"
             \/ d.pipe # "done" /\ f = <<"reset", "error">> /\ x = "error"
             \/ f = <<"reset", "CANCEL">> /\ x = "gone"
      PROVE  LET e == Ended(Put(d, f), x) IN Sends(d, e, a, k) /\ e.pipe = "done"
  <2> DEFINE e == Ended(Put(d, f), x)
  <2>1. /\ e \in Dirs /\ DirOK(e, a, k) /\ e.wire = Append(d.wire, f) /\ e.pipe = "done"
        /\ e.rd = d.rd /\ e.buf = d.buf
    BY <1>g, DirEnd
  <2>2. Grows(d.wire, Append(d.wire, f))
    BY <1>g, <1>w, WireGrows
  <2> HIDE DEF e
  <2>3. Sends(d, e, a, k) /\ e.pipe = "done"
    BY <2>1, <2>2 DEF Sends
  <2> QED
    BY <2>3 DEF e
<1>1. ASSUME d.pipe # "done" PROVE Sends(d, SendEosFrame(d), a, k) /\ SendEosFrame(d).pipe = "done"
  BY <1>1, <1>f, <1>g DEF SendEosFrame
<1>2. ASSUME d.pipe # "done"
      PROVE  LET e == Ended(Put(d, <<"trailers">>), "end") IN Sends(d, e, a, k) /\ e.pipe = "done"
  BY <1>2, <1>f, <1>g
<1>3. ASSUME d.pipe # "done" PROVE Sends(d, OnUserErr(d), a, k) /\ OnUserErr(d).pipe = "done"
  BY <1>3, <1>f, <1>g DEF OnUserErr
<1>4. ASSUME d.pipe # "done"
      PROVE  Sends(d, Ended(d, "error"), a, k) /\ Ended(d, "error").pipe = "done"
  BY <1>4, DirGivenUp DEF Sends, Grows
<1>5. LET e == Ended(Put(d, <<"reset", "CANCEL">>), "gone") IN Sends(d, e, a, k) /\ e.pipe = "done"
  BY <1>f, <1>g
<1> QED
  BY <1>1, <1>2, <1>3, <1>4, <1>5

\* Data is sent.
LEMMA DataSends ==
  ASSUME NEW d \in Dirs, NEW a, NEW k, DirOK(d, a, k), d.pipe # "done", NEW n \in Nat
  PROVE  Sends(d, SendData(d, n), a, k) /\ SendData(d, n).pipe = d.pipe
<1>1. d.wire \in Seq(Frames) /\ <<"data", n>> \in Frames /\ <<"data", n>> # <<"head", "upgrade">>
  BY FrameFacts DEF Dirs
<1> QED
  BY <1>1, DirData, WireGrows, Zenon DEF Sends

\* A pipe is polled.
LEMMA PollSends ==
  ASSUME NEW d \in Dirs, NEW a, NEW k, DirOK(d, a, k), NEW e \in PipePoll(d)
  PROVE  /\ Sends(d, e, a, k) /\ d.pipe \in {"data", "trailers"}
         /\ e.pipe \in {"data", "trailers", "done"}
<1>0. Size \in Nat
  BY ConnAssumption
<1> DEFINE m == SendData(d, Size)
           t == [d EXCEPT !.pipe = "trailers"]
<1>1. e \in {m, SendEosFrame(m), SendEosFrame(d), OnUserErr(d), t, Ended(Put(d, <<"trailers">>), "end")}
      /\ d.pipe \in {"data", "trailers"}
  BY DEF PipePoll
<1>2. Sends(d, m, a, k) /\ m.pipe = d.pipe
  BY <1>0, <1>1, DataSends
<1> HIDE DEF m
<1>3. Sends(d, SendEosFrame(m), a, k) /\ SendEosFrame(m).pipe = "done"
  <2>1. Sends(m, SendEosFrame(m), a, k) /\ SendEosFrame(m).pipe = "done"
    BY <1>1, <1>2, EndSends DEF Sends
  <2> QED
    BY <1>2, <2>1, Zenon DEF Sends, Grows
<1>4. Sends(d, t, a, k) /\ t.pipe = "trailers"
  BY <1>1, DirPipe, Zenon DEF Sends, Grows
<1> HIDE DEF t
<1>5. CASE e \in {m, t}
  BY <1>1, <1>2, <1>4, <1>5
<1>6. CASE e \in {SendEosFrame(m), SendEosFrame(d), OnUserErr(d), Ended(Put(d, <<"trailers">>), "end")}
  BY <1>1, <1>3, <1>6, EndSends
<1> QED
  BY <1>1, <1>5, <1>6

\* How far the two ends of a stream have come says what they can have sent and
\* read.
Control(s, a) ==
    /\ s.req \in {"new", "sending", "queued", "stuck"} =>
          s.up.pipe = "none" /\ s.up.wire = <<>> /\ s.up.fate = "open" /\ s.srv = "none"
    /\ s.srv = "none" =>
          /\ s.up.rd = "none"
          /\ a => \/ Started(s.up.wire)
                  \/ s.up.wire = <<>> /\ s.up.pipe = "none" /\ s.req # "waiting" /\ s.down.rd = "none"
    /\ s.srv \in {"none", "Service"} =>
          /\ s.down.pipe = "none" /\ s.down.fate = "open" /\ s.down.wire = <<>>
          /\ s.down.rd \in {"none", "gone"}
    /\ s.req \in {"new", "sending", "queued", "stuck", "waiting"} =>
          /\ s.down.rd = "none" /\ ~s.raw
          /\ s.kind = "CONNECT" => s.up.pipe = "none" /\ s.up.fate = "open"
    /\ s.spawned => s.up.pipe \in {"data", "trailers"}
    /\ s.kind = "plain" => ~s.raw /\ s.srv # "upgraded" /\ NoUpgrade(s.down.wire)
    /\ ~s.raw => s.down.buf = 0
    /\ s.srv # "upgraded" => s.up.buf = 0
    /\ s.srv = "upgraded" => s.down.pipe \notin {"data", "trailers"}

\* What excuses the reader at the server's end.
Excuse(s) == IF s.shut THEN "shut" ELSE s.kind

Whole(s, a) == Control(s, a) /\ DirOK(s.up, a, Excuse(s)) /\ DirOK(s.down, a, s.kind)

\* The fields of a stream one step has set.
LEMMA SetFacts ==
  ASSUME Known, NEW r \in Requests, NEW z, st' = [st EXCEPT ![r] = z]
  PROVE  st'[r] = z
BY DEF Known

\* The steps of the user keep a stream whole.
LEMMA UserWhole ==
  ASSUME Known, NEW r \in Requests, Whole(st[r], Alive), UserStep(r)
  PROVE  Whole(st'[r], Alive)
<1> DEFINE s == st[r]
           z == st'[r]
<1>k. s \in Streams /\ s.up \in Dirs /\ s.down \in Dirs
  BY StreamFacts
<1>w. Control(s, Alive) /\ DirOK(s.up, Alive, Excuse(s)) /\ DirOK(s.down, Alive, s.kind)
  BY DEF Whole
<1>1. CASE Submit(r) \/ TrySend(r)
  <2>1. s.req \in {"new", "sending"} /\ \E x \in {"sending", "queued", "stuck", "error"} :
                                           z = [s EXCEPT !.req = x]
    BY <1>1, SetFacts, Zenon DEF Submit, TrySend, Set
  <2> HIDE DEF s, z
  <2>2. /\ z.req \in {"sending", "queued", "stuck", "error"} /\ z.kind = s.kind /\ z.up = s.up /\ z.down = s.down
        /\ z.srv = s.srv /\ z.raw = s.raw /\ z.spawned = s.spawned
        /\ z.shut = s.shut
    BY <1>k, <2>1 DEF Streams
  <2>3. Control(z, Alive)
    BY <1>w, <2>1, <2>2 DEF Control
  <2> QED
    BY <1>w, <2>2, <2>3 DEF Whole, Excuse, z
<1>2. CASE Cancel(r)
  <2>1. z = [s EXCEPT !.canceled = TRUE]
    BY <1>2, SetFacts, Zenon DEF Cancel, Set
  <2> HIDE DEF s, z
  <2>2. /\ z.req = s.req /\ z.kind = s.kind /\ z.up = s.up /\ z.down = s.down
        /\ z.srv = s.srv /\ z.raw = s.raw /\ z.spawned = s.spawned
        /\ z.shut = s.shut
    BY <1>k, <2>1 DEF Streams
  <2>3. Control(z, Alive)
    BY <1>w, <2>2 DEF Control
  <2> QED
    BY <1>w, <2>2, <2>3 DEF Whole, Excuse, z
<1>3. CASE DropBody(r)
  <2> DEFINE d == [s.down EXCEPT !.rd = "gone", !.buf = 0]
  <2>0. st' = [st EXCEPT ![r] = [s EXCEPT !.down = d]]
    BY <1>3, <1>k, Zenon DEF DropBody, Set
  <2>1. s.req = "answered" /\ s.down.rd \in {"open", "end", "error"} /\ z = [s EXCEPT !.down = d]
    BY <1>3, <2>0, SetFacts, Zenon DEF DropBody
  <2>2. d \in Dirs
    BY <1>k, GoneFacts, Zenon
  <2>3. d.rd = "gone" /\ d.buf = 0 /\ d.pipe = s.down.pipe /\ d.fate = s.down.fate /\ d.wire = s.down.wire
    BY <1>k DEF Dirs
  <2> HIDE DEF s, z, d
  <2>4. DirOK(d, Alive, s.kind)
    BY <1>k, <1>w, <2>2, <2>3, DirClosed
  <2>5. /\ z.req = s.req /\ z.kind = s.kind /\ z.up = s.up /\ z.down = d
        /\ z.srv = s.srv /\ z.raw = s.raw /\ z.spawned = s.spawned
        /\ z.shut = s.shut
    BY <1>k, <2>1 DEF Streams
  <2>6. Control(z, Alive)
    BY <1>w, <2>1, <2>3, <2>5 DEF Control
  <2> QED
    BY <1>w, <2>4, <2>5, <2>6 DEF Whole, Excuse, z
<1>4. CASE ServerDropBody(r)
  <2> DEFINE d == [s.up EXCEPT !.rd = "gone", !.buf = 0]
             x == IF s.srv = "upgraded" THEN "done" ELSE s.srv
  <2>0. st' = [st EXCEPT ![r] = [s EXCEPT !.up = d, !.srv = x]]
    BY <1>4, <1>k, Zenon DEF ServerDropBody, Set, Streams
  <2>1. s.up.rd \in {"open", "end", "error"} /\ z = [s EXCEPT !.up = d, !.srv = x]
    BY <1>4, <2>0, SetFacts, Zenon DEF ServerDropBody
  <2>2. d \in Dirs
    BY <1>k, GoneFacts, Zenon
  <2>3. d.rd = "gone" /\ d.buf = 0 /\ d.pipe = s.up.pipe /\ d.fate = s.up.fate /\ d.wire = s.up.wire
    BY <1>k DEF Dirs
  <2>x. x = IF s.srv = "upgraded" THEN "done" ELSE s.srv
    OBVIOUS
  <2> HIDE DEF s, z, d, x
  <2>4. DirOK(d, Alive, Excuse(s))
    BY <1>k, <1>w, <2>2, <2>3, DirClosed
  <2>5. /\ z.req = s.req /\ z.kind = s.kind /\ z.up = d /\ z.down = s.down
        /\ z.srv = x /\ z.raw = s.raw /\ z.spawned = s.spawned
        /\ z.shut = s.shut
    BY <1>k, <2>1 DEF Streams
  <2>6. Control(z, Alive)
    BY <1>w, <2>1, <2>3, <2>5, <2>x DEF Control
  <2> QED
    BY <1>w, <2>4, <2>5, <2>6 DEF Whole, Excuse, z
<1> QED
  BY <1>1, <1>2, <1>3, <1>4 DEF UserStep

\* The pipe of a request's body keeps a stream whole.
LEMMA ClientPipeWhole ==
  ASSUME Known, NEW r \in Requests, Whole(st[r], Alive), ClientPipe(r) \/ ClientPipeReset(r)
  PROVE  Whole(st'[r], Alive)
<1> DEFINE s == st[r]
           z == st'[r]
<1>k. s \in Streams /\ s.up \in Dirs /\ s.down \in Dirs
  BY StreamFacts
<1>w. Control(s, Alive) /\ DirOK(s.up, Alive, Excuse(s)) /\ DirOK(s.down, Alive, s.kind)
  BY DEF Whole
<1>d. ASSUME NEW d, Sends(s.up, d, Alive, Excuse(s)), s.up.pipe \in {"data", "trailers"},
             d.pipe \in {"data", "trailers", "done"}, NEW c,
             z = [s EXCEPT !.up = d, !.spawned = (d.pipe # "done"), !.cRst = c]
      PROVE  Whole(z, Alive)
  <2> HIDE DEF s, z
  <2>1. /\ z.req = s.req /\ z.kind = s.kind /\ z.up = d /\ z.down = s.down
        /\ z.srv = s.srv /\ z.raw = s.raw /\ z.spawned = (d.pipe # "done")
        /\ z.shut = s.shut
    BY <1>k, <1>d DEF Streams
  <2>2. Control(z, Alive)
    BY <1>w, <1>d, <2>1, Zenon DEF Control, Sends, Grows
  <2> QED
    BY <1>w, <1>d, <2>1, <2>2 DEF Whole, Excuse, Sends
<1>1. CASE ClientPipe(r)
  <2>1. PICK d \in PipePoll(s.up) :
          st' = [st EXCEPT ![r] = [s EXCEPT !.up = d, !.spawned = (d.pipe # "done"),
                                            !.cRst = (d.fate = "error")]]
    BY <1>1, Zenon DEF ClientPipe, Set
  <2>2. z = [s EXCEPT !.up = d, !.spawned = (d.pipe # "done"), !.cRst = (d.fate = "error")]
    BY <2>1, SetFacts, Zenon
  <2>3. Sends(s.up, d, Alive, Excuse(s)) /\ s.up.pipe \in {"data", "trailers"}
        /\ d.pipe \in {"data", "trailers", "done"}
    BY <1>k, <1>w, PollSends
  <2>4. Whole(z, Alive)
    <3> HIDE DEF s, z
    <3> QED
      BY <1>d, <2>2, <2>3, Zenon
  <2> QED
    BY <2>4
<1>2. CASE ClientPipeReset(r)
  <2> DEFINE d == Ended(s.up, "error")
  <2>1. st' = [st EXCEPT ![r] = [s EXCEPT !.up = d, !.spawned = FALSE]] /\ s.spawned
    BY <1>2 DEF ClientPipeReset, Set
  <2>2. s.up.pipe \in {"data", "trailers"}
    BY <1>w, <2>1 DEF Control
  <2>3. Sends(s.up, d, Alive, Excuse(s)) /\ d.pipe = "done"
    BY <1>k, <1>w, <2>2, EndSends
  <2> HIDE DEF d
  <2>4. z = [s EXCEPT !.up = d, !.spawned = FALSE]
    BY <2>1, SetFacts, Zenon
  <2>5. z = [s EXCEPT !.up = d, !.spawned = (d.pipe # "done"), !.cRst = s.cRst]
    BY <1>k, <2>3, <2>4, Zenon DEF Streams
  <2> QED
    BY <1>d, <2>2, <2>3, <2>5, ZenonT(40)
<1> QED
  BY <1>1, <1>2

\* The head of the response keeps a stream whole.
LEMMA RespondWhole ==
  ASSUME Known, NEW r \in Requests, Whole(st[r], Alive), Respond(r)
  PROVE  Whole(st'[r], Alive)
<1> DEFINE s == st[r]
           z == st'[r]
           up == ~s.canceled /\ Head(s.down.wire) = <<"head", "upgrade">>
           empty == Head(s.down.wire) # <<"head", "upgrade">> /\ Tail(s.down.wire) = <<<<"eos">>>>
           w == IF empty THEN <<>> ELSE Tail(s.down.wire)
           y == IF s.canceled \/ empty THEN "gone" ELSE "open"
           d == [s.down EXCEPT !.wire = w, !.rd = y]
           e == [s.up EXCEPT !.pipe = IF up THEN "raw" ELSE s.up.pipe]
           x == IF s.canceled THEN "dropped" ELSE "answered"
<1>k. s \in Streams /\ s.up \in Dirs /\ s.down \in Dirs
  BY StreamFacts
<1>w. Control(s, Alive) /\ DirOK(s.up, Alive, Excuse(s)) /\ DirOK(s.down, Alive, s.kind)
  BY DEF Whole
<1>1. s.req = "waiting" /\ s.down.wire # <<>> /\ IsHead(Head(s.down.wire))
  BY DEF Respond, AtHead, IsHead
<1>2. st' = [st EXCEPT ![r] = [s EXCEPT !.req = x, !.down = d, !.raw = up, !.up = e]]
  BY <1>k, ZenonT(40) DEF Respond, Set, Streams
<1>3. z = [s EXCEPT !.req = x, !.down = d, !.raw = up, !.up = e]
  BY <1>2, SetFacts, Zenon
<1>4. s.down.rd = "none" /\ ~s.raw /\ s.down.buf = 0
      /\ (s.kind = "CONNECT" => s.up.pipe = "none" /\ s.up.fate = "open")
  BY <1>1, <1>w DEF Control
<1>5. /\ s.down.wire \in Seq(Frames) /\ Tail(s.down.wire) \in Seq(Frames)
      /\ <<>> \in Seq(Frames) /\ <<"eos">> \in Frames
  BY <1>k, <1>1, FrameFacts, WireFacts DEF Dirs
<1>6. s.kind \in {"plain", "CONNECT"} /\ (s.kind = "plain" => ~up /\ NoUpgrade(w))
  <2>1. s.kind \in {"plain", "CONNECT"}
    BY <1>k DEF Streams
  <2>2. s.kind = "plain" => NoUpgrade(s.down.wire)
    BY <1>w DEF Control
  <2> QED
    BY <1>1, <1>5, <2>1, <2>2, WireGrows
<1>7. d \in Dirs /\ d.pipe = s.down.pipe /\ d.fate = s.down.fate /\ d.buf = 0 /\ d.wire = w /\ d.rd = y
  <2>1. w \in Seq(Frames) /\ y \in {"gone", "open"}
    BY <1>5
  <2> HIDE DEF w, y
  <2> QED
    BY <1>k, <1>4, <2>1, Zenon DEF Dirs
<1>8. DirOK(d, Alive, s.kind)
  <2>1. CASE y = "gone"
    <3> HIDE DEF d, s
    <3> QED
      BY <1>k, <1>w, <1>7, <2>1, DirClosed
  <2>2. CASE y = "open"
    <3>1. d = [s.down EXCEPT !.wire = Tail(s.down.wire), !.rd = "open"]
      BY <2>2, Zenon
    <3> QED
      BY <1>k, <1>w, <1>1, <1>4, <3>1, DirOpened, Zenon
  <2> QED
    BY <2>1, <2>2, Zenon
<1>9. DirOK(e, Alive, Excuse(s)) /\ e.rd = s.up.rd /\ e.buf = s.up.buf /\ e.wire = s.up.wire
      /\ e.pipe = IF up THEN "raw" ELSE s.up.pipe
  <2>1. CASE up
    <3>1. s.up.pipe # "done" /\ e = [s.up EXCEPT !.pipe = "raw"]
      BY <1>4, <1>6, <2>1
    <3> HIDE DEF e, s, up
    <3>2. DirOK(e, Alive, Excuse(s)) /\ e.rd = s.up.rd /\ e.buf = s.up.buf /\ e.wire = s.up.wire
          /\ e.pipe = "raw"
      BY <1>k, <1>w, <3>1, DirPipe, Zenon
    <3> QED
      BY <2>1, <3>2
  <2>2. CASE ~up
    <3>1. e = s.up
      BY <1>k, <2>2, SMTT(30) DEF Dirs
    <3> QED
      BY <1>w, <2>2, <3>1
  <2> QED
    BY <2>1, <2>2
<1>x. x \in {"dropped", "answered"} /\ up \in BOOLEAN
  OBVIOUS
<1> HIDE DEF s, z, d, e, x, y, w, up
<1>10. /\ z.req = x /\ z.kind = s.kind /\ z.up = e /\ z.down = d
       /\ z.srv = s.srv /\ z.raw = up /\ z.spawned = s.spawned
       /\ z.shut = s.shut
  BY <1>k, <1>3 DEF Streams
<1>11. s.srv \notin {"none", "Service"}
  BY <1>w, <1>1 DEF Control
<1>12. up => ~s.spawned
  BY <1>w, <1>4, <1>6 DEF Control
<1>13. Control(z, Alive)
  BY <1>w, <1>6, <1>7, <1>9, <1>10, <1>11, <1>12, <1>x DEF Control
<1> QED
  BY <1>8, <1>9, <1>10, <1>13 DEF Whole, Excuse, z

\* The other steps of the client's tasks keep a stream whole.
LEMMA ClientWhole ==
  ASSUME Known, NEW r \in Requests, Whole(st[r], Alive), ClientStep(r)
  PROVE  Whole(st'[r], Alive)
<1> DEFINE s == st[r]
           z == st'[r]
<1>k. s \in Streams /\ s.up \in Dirs /\ s.down \in Dirs
  BY StreamFacts
<1>w. Control(s, Alive) /\ DirOK(s.up, Alive, Excuse(s)) /\ DirOK(s.down, Alive, s.kind)
  BY DEF Whole
<1>1. CASE ClientReset(r)
  <2>1. z = [s EXCEPT !.cRst = TRUE]
    BY <1>1, SetFacts, Zenon DEF ClientReset, Set
  <2> HIDE DEF s, z
  <2>2. /\ z.req = s.req /\ z.kind = s.kind /\ z.up = s.up /\ z.down = s.down
        /\ z.srv = s.srv /\ z.raw = s.raw /\ z.spawned = s.spawned
        /\ z.shut = s.shut
    BY <1>k, <2>1 DEF Streams
  <2>3. Control(z, Alive)
    BY <1>w, <2>2 DEF Control
  <2> QED
    BY <1>w, <2>2, <2>3 DEF Whole, Excuse, z
<1>2. CASE ResponseError(r)
  <2>1. s.req = "waiting" /\ z \in {[s EXCEPT !.req = "dropped"], [s EXCEPT !.req = "error"]}
    BY <1>2, SetFacts, Zenon DEF ResponseError, Set
  <2> HIDE DEF s, z
  <2>2. /\ z.req \in {"dropped", "error"} /\ z.kind = s.kind /\ z.up = s.up /\ z.down = s.down
        /\ z.srv = s.srv /\ z.raw = s.raw /\ z.spawned = s.spawned
        /\ z.shut = s.shut
    BY <1>k, <2>1 DEF Streams
  <2>3. Control(z, Alive)
    BY <1>w, <2>1, <2>2 DEF Control
  <2> QED
    BY <1>w, <2>2, <2>3 DEF Whole, Excuse, z
<1>3. CASE SendWhenCanceled(r)
  <2> DEFINE w == IF AtHead(s.down) THEN Tail(s.down.wire) ELSE s.down.wire
             d == [s.down EXCEPT !.rd = "gone", !.wire = w]
  <2>1. st' = [st EXCEPT ![r] = [s EXCEPT !.req = "dropped", !.down = d]] /\ s.req = "waiting"
    BY <1>3, <1>k, Zenon DEF SendWhenCanceled, Set, Streams
  <2>2. z = [s EXCEPT !.req = "dropped", !.down = d]
    BY <2>1, SetFacts, Zenon
  <2>3. s.down.wire \in Seq(Frames) /\ w \in Seq(Frames) /\ (s.down.wire = <<>> => w = <<>>)
    BY <1>k, WireFacts, SMTT(30) DEF AtHead, Dirs
  <2>4. NoUpgrade(s.down.wire) => NoUpgrade(w)
    BY <2>3, FrameFacts, WireGrows DEF AtHead
  <2> HIDE DEF w
  <2>5. d \in Dirs /\ d.wire = w /\ d.rd = "gone" /\ d.pipe = s.down.pipe /\ d.fate = s.down.fate
        /\ d.buf = s.down.buf
    BY <1>k, <2>3, Zenon DEF Dirs
  <2> HIDE DEF d, s, z
  <2>6. DirOK(d, Alive, s.kind)
    BY <1>k, <1>w, <2>5, DirClosed
  <2>7. /\ z.req = "dropped" /\ z.kind = s.kind /\ z.up = s.up /\ z.down = d
        /\ z.srv = s.srv /\ z.raw = s.raw /\ z.spawned = s.spawned
        /\ z.shut = s.shut
    BY <1>k, <2>2 DEF Streams
  <2>8. Control(z, Alive)
    BY <1>w, <2>1, <2>3, <2>4, <2>5, <2>7 DEF Control
  <2> QED
    BY <1>w, <2>6, <2>7, <2>8 DEF Whole, Excuse, z
<1>d. ASSUME NEW d \in Dirs, DirOK(d, Alive, s.kind), s.down.rd = "open", ~s.raw => d.buf = 0,
             d.pipe = s.down.pipe, NoUpgrade(s.down.wire) => NoUpgrade(d.wire),
             st' = [st EXCEPT ![r] = [s EXCEPT !.down = d]]
      PROVE  Whole(z, Alive)
  <2>1. z = [s EXCEPT !.down = d]
    BY <1>d, SetFacts, Zenon
  <2> HIDE DEF s, z
  <2>2. /\ z.req = s.req /\ z.kind = s.kind /\ z.up = s.up /\ z.down = d
        /\ z.srv = s.srv /\ z.raw = s.raw /\ z.spawned = s.spawned
        /\ z.shut = s.shut
    BY <1>k, <2>1 DEF Streams
  <2>3. Control(z, Alive)
    BY <1>w, <1>d, <2>2 DEF Control
  <2> QED
    BY <1>w, <1>d, <2>2, <2>3 DEF Whole, Excuse
<1>4. CASE ClientRead(r)
  <2> DEFINE d == BodyRead(s.down)
  <2>1. st' = [st EXCEPT ![r] = [s EXCEPT !.down = d]] /\ Readable(s.down) /\ ~s.raw /\ Alive
    BY <1>4 DEF ClientRead, Set, Moving
  <2>2. s.down.buf = 0 /\ s.down.rd = "open" /\ s.down.wire # <<>>
    BY <1>w, <2>1 DEF Control, Readable
  <2>3. /\ d \in Dirs /\ DirOK(d, Alive, s.kind) /\ d.wire = Tail(s.down.wire)
        /\ d.pipe = s.down.pipe /\ d.buf = 0
    BY <1>k, <1>w, <2>1, <2>2, DirBody, Zenon
  <2>4. s.down.wire \in Seq(Frames) /\ <<"eos">> \in Frames
    BY <1>k, FrameFacts DEF Dirs
  <2>5. NoUpgrade(s.down.wire) => NoUpgrade(d.wire)
    BY <2>2, <2>3, <2>4, WireGrows
  <2> HIDE DEF d
  <2> QED
    BY <1>d, <2>1, <2>2, <2>3, <2>5, Zenon
<1>5. CASE ClientReadError(r)
  <2> DEFINE d == [s.down EXCEPT !.rd = "error"]
  <2>1. st' = [st EXCEPT ![r] = [s EXCEPT !.down = d]] /\ s.down.rd = "open"
    BY <1>5, <1>k DEF ClientReadError, Set
  <2>2. d \in Dirs /\ d.pipe = s.down.pipe /\ d.fate = s.down.fate /\ d.buf = s.down.buf
        /\ d.wire = s.down.wire /\ d.rd = "error"
    BY <1>k, Zenon DEF Dirs
  <2> HIDE DEF d
  <2>3. DirOK(d, Alive, s.kind)
    BY <1>k, <1>w, <2>2, DirClosed
  <2>4. ~s.raw => d.buf = 0
    BY <1>w, <2>2 DEF Control
  <2> QED
    BY <1>d, <2>1, <2>2, <2>3, <2>4, Zenon
<1> QED
  BY <1>1, <1>2, <1>3, <1>4, <1>5, ClientPipeWhole, RespondWhole DEF ClientStep

\* The steps of the server's task keep a stream whole.
LEMMA ServerWhole ==
  ASSUME Known, NEW r \in Requests, Whole(st[r], Alive), ServerStep(r)
  PROVE  Whole(st'[r], Alive)
<1> DEFINE s == st[r]
           z == st'[r]
<1>k. s \in Streams /\ s.up \in Dirs /\ s.down \in Dirs
  BY StreamFacts
<1>w. Control(s, Alive) /\ DirOK(s.up, Alive, Excuse(s)) /\ DirOK(s.down, Alive, s.kind)
  BY DEF Whole
<1>1. CASE ServerAccept(r)
  <2> DEFINE d == [s.up EXCEPT !.wire = Tail(s.up.wire), !.rd = "open"]
  <2>1. st' = [st EXCEPT ![r] = [s EXCEPT !.srv = "Service", !.up = d]]
        /\ s.up.wire # <<>> /\ s.srv = "none" /\ Alive
    BY <1>1, <1>k, Zenon DEF ServerAccept, Set, Streams, Moving
  <2>2. z = [s EXCEPT !.srv = "Service", !.up = d]
    BY <2>1, SetFacts, Zenon
  <2>3. s.up.rd = "none" /\ IsHead(Head(s.up.wire))
    BY <1>w, <2>1 DEF Control, Started, IsHead
  <2>4. /\ d \in Dirs /\ DirOK(d, Alive, Excuse(s)) /\ d.pipe = s.up.pipe /\ d.fate = s.up.fate
        /\ d.buf = s.up.buf
    BY <1>k, <1>w, <2>1, <2>3, DirOpened, Zenon
  <2> HIDE DEF d, s, z
  <2>5. /\ z.req = s.req /\ z.kind = s.kind /\ z.up = d /\ z.down = s.down
        /\ z.srv = "Service" /\ z.raw = s.raw /\ z.spawned = s.spawned
        /\ z.shut = s.shut
    BY <1>k, <2>2 DEF Streams
  <2>6. Control(z, Alive)
    BY <1>w, <2>1, <2>4, <2>5 DEF Control
  <2> QED
    BY <1>w, <2>4, <2>5, <2>6 DEF Whole, Excuse, z
<1>d. ASSUME NEW d \in Dirs, DirOK(d, Alive, s.kind), s.srv # "none", d.buf = s.down.buf, d.rd = s.down.rd,
             NEW x \in {"Body", "upgraded", "done"}, NEW b, s.kind = "plain" => NoUpgrade(d.wire),
             x = "upgraded" => s.kind = "CONNECT" /\ d.pipe \notin {"data", "trailers"},
             s.srv = "upgraded" => x = "upgraded",
             st' = [st EXCEPT ![r] = [s EXCEPT !.srv = x, !.down = d, !.sRst = b]]
      PROVE  Whole(z, Alive)
  <2>1. z = [s EXCEPT !.srv = x, !.down = d, !.sRst = b]
    BY <1>d, SetFacts, Zenon
  <2> HIDE DEF s, z
  <2>2. /\ z.req = s.req /\ z.kind = s.kind /\ z.up = s.up /\ z.down = d
        /\ z.srv = x /\ z.raw = s.raw /\ z.spawned = s.spawned
        /\ z.shut = s.shut
    BY <1>k, <2>1 DEF Streams
  <2>3. Control(z, Alive)
    BY <1>w, <1>d, <2>2 DEF Control
  <2> QED
    BY <1>w, <1>d, <2>2, <2>3 DEF Whole, Excuse
<1>n. s.kind = "plain" => NoUpgrade(s.down.wire) /\ s.srv # "upgraded"
  BY <1>w DEF Control
<1>c. s.kind \in {"plain", "CONNECT"} /\ s.sRst \in BOOLEAN
      /\ s.srv \in {"none", "Service", "Body", "upgraded", "done"}
  BY <1>k DEF Streams
<1>2. CASE ServerReply(r)
  <2> DEFINE p == Put(s.down, <<"head", "plain">>)
             u == Put(s.down, <<"head", "upgrade">>)
  <2>1. s.down.pipe = "none" /\ s.down.wire = <<>> /\ s.down.rd # "open" /\ s.srv = "Service"
    BY <1>2, <1>w DEF Control, ServerReply
  <2>f. /\ <<"head", "plain">> \in Frames /\ <<"head", "upgrade">> \in Frames
        /\ \A f \in {<<"head", "plain">>, <<"head", "upgrade">>} :
              f # <<"reset", "CANCEL">> /\ ~IsEnd(f) /\ ~IsData(f)
        /\ <<"head", "plain">> # <<"head", "upgrade">>
    BY FrameFacts DEF IsEnd, IsData
  <2>2. \A e \in {p, u} : /\ e \in Dirs /\ DirOK(e, Alive, s.kind) /\ e.pipe = "none"
                          /\ e.rd = s.down.rd /\ e.buf = s.down.buf
    BY <1>k, <1>w, <2>1, <2>f, DirPut
  <2>3. p.wire = Append(s.down.wire, <<"head", "plain">>)
    BY <1>k, <1>w, <2>1, <2>f, DirPut
  <2>4. s.kind = "plain" => NoUpgrade(p.wire)
    <3>1. s.down.wire \in Seq(Frames)
      BY <1>k DEF Dirs
    <3> QED
      BY <1>n, <2>f, <2>3, <3>1, WireGrows, Zenon DEF Grows
  <2>5. \/ st' = [st EXCEPT ![r] = [s EXCEPT !.srv = "done", !.down = SendEosFrame(p)]]
        \/ st' = [st EXCEPT ![r] = [s EXCEPT !.srv = "Body", !.down = [p EXCEPT !.pipe = "data"]]]
        \/ s.kind = "CONNECT" /\ \E d \in {p, u} :
           st' = [st EXCEPT ![r] = [s EXCEPT !.srv = "upgraded", !.down = [d EXCEPT !.pipe = "raw"]]]
    BY <1>2, <1>k DEF ServerReply, Set, Streams
  <2> HIDE DEF p, u
  <2>6. Sends(p, SendEosFrame(p), Alive, s.kind)
    BY <2>2, EndSends
  <2>7. /\ DirOK([p EXCEPT !.pipe = "data"], Alive, s.kind) /\ [p EXCEPT !.pipe = "data"] \in Dirs
        /\ [p EXCEPT !.pipe = "data"].wire = p.wire /\ [p EXCEPT !.pipe = "data"].rd = p.rd
        /\ [p EXCEPT !.pipe = "data"].buf = p.buf
    BY <2>2, DirPipe, Zenon
  <2>8. \A d \in {p, u} :
          /\ DirOK([d EXCEPT !.pipe = "raw"], Alive, s.kind) /\ [d EXCEPT !.pipe = "raw"] \in Dirs
          /\ [d EXCEPT !.pipe = "raw"].pipe = "raw" /\ [d EXCEPT !.pipe = "raw"].rd = d.rd
          /\ [d EXCEPT !.pipe = "raw"].buf = d.buf
    BY <2>2, DirPipe, Zenon
  <2>9. ASSUME NEW x, NEW d
        PROVE  [s EXCEPT !.srv = x, !.down = d] = [s EXCEPT !.srv = x, !.down = d, !.sRst = s.sRst]
    BY <1>k, Zenon DEF Streams
  <2>10. CASE st' = [st EXCEPT ![r] = [s EXCEPT !.srv = "done", !.down = SendEosFrame(p)]]
    <3>1. st' = [st EXCEPT ![r] = [s EXCEPT !.srv = "done", !.down = SendEosFrame(p), !.sRst = s.sRst]]
      BY <2>9, <2>10, Zenon
    <3>2. /\ SendEosFrame(p) \in Dirs /\ DirOK(SendEosFrame(p), Alive, s.kind)
          /\ SendEosFrame(p).rd = s.down.rd /\ SendEosFrame(p).buf = s.down.buf
          /\ (s.kind = "plain" => NoUpgrade(SendEosFrame(p).wire))
      BY <2>2, <2>4, <2>6 DEF Sends, Grows
    <3> HIDE DEF s
    <3> QED
      BY <1>d, <2>1, <3>1, <3>2, Zenon
  <2>11. CASE st' = [st EXCEPT ![r] = [s EXCEPT !.srv = "Body", !.down = [p EXCEPT !.pipe = "data"]]]
    <3> DEFINE e == [p EXCEPT !.pipe = "data"]
    <3>1. st' = [st EXCEPT ![r] = [s EXCEPT !.srv = "Body", !.down = e, !.sRst = s.sRst]]
      BY <2>9, <2>11, Zenon
    <3>2. /\ e \in Dirs /\ DirOK(e, Alive, s.kind) /\ e.rd = s.down.rd /\ e.buf = s.down.buf
          /\ (s.kind = "plain" => NoUpgrade(e.wire))
      BY <2>2, <2>4, <2>7
    <3> HIDE DEF s, e
    <3> QED
      BY <1>d, <2>1, <3>1, <3>2, Zenon
  <2>12. ASSUME s.kind = "CONNECT", NEW d \in {p, u},
                st' = [st EXCEPT ![r] = [s EXCEPT !.srv = "upgraded", !.down = [d EXCEPT !.pipe = "raw"]]]
         PROVE  Whole(z, Alive)
    <3> DEFINE e == [d EXCEPT !.pipe = "raw"]
    <3>1. st' = [st EXCEPT ![r] = [s EXCEPT !.srv = "upgraded", !.down = e, !.sRst = s.sRst]]
      BY <2>9, <2>12, Zenon
    <3>2. /\ e \in Dirs /\ DirOK(e, Alive, s.kind) /\ e.rd = s.down.rd /\ e.buf = s.down.buf
          /\ e.pipe = "raw"
      BY <2>2, <2>8
    <3> HIDE DEF s, e
    <3> QED
      BY <1>d, <2>1, <2>12, <3>1, <3>2, Zenon
  <2> QED
    BY <2>5, <2>10, <2>11, <2>12
<1>3. CASE ServerFail(r)
  <2> DEFINE d == OnUserErr(s.down)
  <2>1. st' = [st EXCEPT ![r] = [s EXCEPT !.srv = "done", !.down = d, !.sRst = TRUE]]
        /\ s.srv = "Service"
    BY <1>3, <1>k DEF ServerFail, Set, Streams
  <2>2. s.down.pipe = "none"
    BY <1>w, <2>1 DEF Control
  <2>3. Sends(s.down, d, Alive, s.kind)
    BY <1>k, <1>w, <2>2, EndSends
  <2> HIDE DEF s, d
  <2> QED
    BY <1>d, <1>n, <2>1, <2>3, Zenon DEF Sends, Grows, s
<1>4. CASE ServerPipe(r)
  <2>1. PICK d \in PipePoll(s.down) :
          st' = [st EXCEPT ![r] = [s EXCEPT !.down = d, !.srv = IF d.pipe = "done" THEN "done" ELSE @,
                                            !.sRst = (d.fate = "error")]]
    BY <1>4, Zenon DEF ServerPipe, Set
  <2> DEFINE x == IF d.pipe = "done" THEN "done" ELSE s.srv
             b == (d.fate = "error")
  <2>2. st' = [st EXCEPT ![r] = [s EXCEPT !.srv = x, !.down = d, !.sRst = b]]
    BY <1>k, <2>1, Zenon DEF Streams
  <2>3. Sends(s.down, d, Alive, s.kind) /\ s.down.pipe \in {"data", "trailers"}
    BY <1>k, <1>w, PollSends
  <2>4. s.srv \in {"Body", "done"}
    BY <1>w, <1>c, <2>3 DEF Control
  <2>5. x \in {"Body", "done"} /\ s.srv # "none" /\ s.srv # "upgraded"
    BY <2>4
  <2> HIDE DEF x, b
  <2>6. d \in Dirs /\ DirOK(d, Alive, s.kind) /\ d.buf = s.down.buf /\ d.rd = s.down.rd
        /\ (s.kind = "plain" => NoUpgrade(d.wire))
    BY <1>n, <2>3 DEF Sends, Grows
  <2> QED
    BY <1>d, <2>2, <2>5, <2>6, Zenon
<1>5. CASE ServerReset(r)
  <2> DEFINE x == IF s.srv = "upgraded" THEN s.srv ELSE "done"
             d == IF s.raw \/ s.down.pipe = "done" THEN s.down ELSE Ended(s.down, "error")
  <2>1. st' = [st EXCEPT ![r] = [s EXCEPT !.srv = x, !.down = d, !.sRst = TRUE]] /\ s.srv # "none"
    BY <1>5, <1>k, Zenon DEF ServerReset, Set, Streams
  <2>2. CASE s.raw \/ s.down.pipe = "done"
    <3>1. d = s.down
      BY <2>2
    <3>2. s.srv = "upgraded" => s.down.pipe \notin {"data", "trailers"}
      BY <1>w DEF Control
    <3>3. x \in {"upgraded", "done"} /\ (x = "upgraded" <=> s.srv = "upgraded")
      OBVIOUS
    <3> HIDE DEF d, x
    <3> QED
      BY <1>d, <1>k, <1>n, <1>c, <1>w, <2>1, <3>1, <3>2, <3>3, Zenon
  <2>3. CASE ~(s.raw \/ s.down.pipe = "done")
    <3>1. Sends(s.down, d, Alive, s.kind) /\ d.pipe = "done"
      BY <1>k, <1>w, <2>3, EndSends
    <3>2. d \in Dirs /\ DirOK(d, Alive, s.kind) /\ d.buf = s.down.buf /\ d.rd = s.down.rd
          /\ (s.kind = "plain" => NoUpgrade(d.wire))
      BY <1>n, <3>1 DEF Sends, Grows
    <3>3. x \in {"upgraded", "done"} /\ (x = "upgraded" <=> s.srv = "upgraded")
      OBVIOUS
    <3> HIDE DEF d, x
    <3> QED
      BY <1>d, <1>n, <1>c, <2>1, <3>1, <3>2, <3>3, Zenon
  <2> QED
    BY <2>2, <2>3
<1>e. ASSUME NEW d \in Dirs, DirOK(d, Alive, Excuse(s)), s.up.rd = "open", s.srv # "upgraded" => d.buf = 0,
             d.pipe = s.up.pipe, d.fate = s.up.fate,
             st' = [st EXCEPT ![r] = [s EXCEPT !.up = d]]
      PROVE  Whole(z, Alive)
  <2>1. z = [s EXCEPT !.up = d]
    BY <1>e, SetFacts, Zenon
  <2> HIDE DEF s, z
  <2>2. /\ z.req = s.req /\ z.kind = s.kind /\ z.up = d /\ z.down = s.down
        /\ z.srv = s.srv /\ z.raw = s.raw /\ z.spawned = s.spawned
        /\ z.shut = s.shut
    BY <1>k, <2>1 DEF Streams
  <2>3. Control(z, Alive)
    BY <1>w, <1>e, <2>2 DEF Control
  <2> QED
    BY <1>w, <1>e, <2>2, <2>3 DEF Whole, Excuse
<1>6. CASE ServerRead(r)
  <2> DEFINE d == BodyRead(s.up)
  <2>1. st' = [st EXCEPT ![r] = [s EXCEPT !.up = d]] /\ Readable(s.up) /\ s.srv # "upgraded" /\ Alive
    BY <1>6 DEF ServerRead, Set, Moving
  <2>2. s.up.buf = 0 /\ s.up.rd = "open"
    BY <1>w, <2>1 DEF Control, Readable
  <2>3. d \in Dirs /\ DirOK(d, Alive, Excuse(s)) /\ d.pipe = s.up.pipe /\ d.buf = 0 /\ d.fate = s.up.fate
    BY <1>k, <1>w, <2>1, <2>2, DirBody, Zenon
  <2> HIDE DEF d
  <2> QED
    BY <1>e, <2>1, <2>2, <2>3, Zenon
<1>7. CASE ServerReadError(r)
  <2> DEFINE x == IF s.shut THEN "end" ELSE "error"
             d == [s.up EXCEPT !.rd = x]
  <2>1. st' = [st EXCEPT ![r] = [s EXCEPT !.up = d]] /\ s.up.rd = "open"
        /\ x \in {"end", "error"} /\ (x = "end" => s.shut)
    BY <1>7, <1>k DEF ServerReadError, Set
  <2> HIDE DEF x
  <2>2. d \in Dirs /\ d.pipe = s.up.pipe /\ d.fate = s.up.fate /\ d.buf = s.up.buf /\ d.rd = x
    BY <1>k, <2>1, Zenon DEF Dirs
  <2> HIDE DEF d
  <2>3. DirOK(d, Alive, Excuse(s))
    <3>1. CASE x = "error"
      BY <1>k, <1>w, <2>2, <3>1, DirClosed
    <3>2. CASE x = "end"
      BY <1>k, <1>w, <2>1, <2>2, <3>2, DirShutEnd DEF Excuse
    <3> QED
      BY <2>1, <3>1, <3>2
  <2>4. s.srv # "upgraded" => d.buf = 0
    BY <1>w, <2>2 DEF Control
  <2> QED
    BY <1>e, <2>1, <2>2, <2>3, <2>4, Zenon
<1> QED
  BY <1>1, <1>2, <1>3, <1>4, <1>5, <1>6, <1>7 DEF ServerStep

\* The steps of an upgraded stream keep it whole.
LEMMA RawWhole ==
  ASSUME Known, NEW r \in Requests, Whole(st[r], Alive), RawStep(r)
  PROVE  Whole(st'[r], Alive)
<1> DEFINE s == st[r]
           z == st'[r]
<1>k. s \in Streams /\ s.up \in Dirs /\ s.down \in Dirs
  BY StreamFacts
<1>w. Control(s, Alive) /\ DirOK(s.up, Alive, Excuse(s)) /\ DirOK(s.down, Alive, s.kind)
  BY DEF Whole
<1>c. s.kind \in {"plain", "CONNECT"} /\ (s.raw => s.kind = "CONNECT")
      /\ (s.srv = "upgraded" => s.kind = "CONNECT")
  BY <1>k, <1>w DEF Control, Streams
<1>1. PICK e \in Ends : RawWrite(r, e) \/ RawShutdown(r, e) \/ RawRead(r, e)
  BY DEF RawStep
<1> DEFINE K == IF e = "up" THEN Excuse(s) ELSE s.kind
<1>2. s[e] \in Dirs /\ DirOK(s[e], Alive, K) /\ e \in {"up", "down"}
  BY <1>k, <1>w DEF Ends
<1>u. ASSUME NEW d \in Dirs, DirOK(d, Alive, Excuse(s)), e = "up", st' = [st EXCEPT ![r] = [s EXCEPT ![e] = d]],
             \/ Sends(s.up, d, Alive, Excuse(s)) /\ s.up.pipe = "raw" /\ d.pipe \in {"raw", "done"}
             \/ s.up.rd = "open" /\ s.srv = "upgraded" /\ d.pipe = s.up.pipe /\ d.fate = s.up.fate
      PROVE  Whole(z, Alive)
  <2>1. z = [s EXCEPT !.up = d]
    BY <1>u, SetFacts, Zenon
  <2> HIDE DEF s, z
  <2>2. /\ z.req = s.req /\ z.kind = s.kind /\ z.up = d /\ z.down = s.down
        /\ z.srv = s.srv /\ z.raw = s.raw /\ z.spawned = s.spawned
        /\ z.shut = s.shut
    BY <1>k, <2>1 DEF Streams
  <2>3. Control(z, Alive)
    BY <1>w, <1>u, <2>2 DEF Control, Sends, Grows
  <2> QED
    BY <1>w, <1>u, <2>2, <2>3 DEF Whole, Excuse
<1>d. ASSUME NEW d \in Dirs, DirOK(d, Alive, s.kind), e = "down", st' = [st EXCEPT ![r] = [s EXCEPT ![e] = d]],
             \/ Sends(s.down, d, Alive, s.kind) /\ s.down.pipe = "raw" /\ d.pipe \in {"raw", "done"}
             \/ s.down.rd = "open" /\ s.raw /\ d.pipe = s.down.pipe
      PROVE  Whole(z, Alive)
  <2>1. z = [s EXCEPT !.down = d]
    BY <1>d, SetFacts, Zenon
  <2> HIDE DEF s, z
  <2>2. /\ z.req = s.req /\ z.kind = s.kind /\ z.up = s.up /\ z.down = d
        /\ z.srv = s.srv /\ z.raw = s.raw /\ z.spawned = s.spawned
        /\ z.shut = s.shut
    BY <1>k, <2>1 DEF Streams
  <2>3. Control(z, Alive)
    BY <1>w, <1>c, <1>d, <2>2 DEF Control, Sends, Grows
  <2> QED
    BY <1>w, <1>d, <2>2, <2>3 DEF Whole, Excuse
<1>s. ASSUME NEW d, Sends(s[e], d, Alive, K), s[e].pipe = "raw", d.pipe \in {"raw", "done"},
             st' = [st EXCEPT ![r] = [s EXCEPT ![e] = d]]
      PROVE  Whole(z, Alive)
  <2>1. d \in Dirs /\ DirOK(d, Alive, K)
    BY <1>s DEF Sends
  <2>2. CASE e = "up"
    BY <1>s, <1>u, <2>1, <2>2, Zenon
  <2>3. CASE e = "down"
    BY <1>s, <1>d, <2>1, <2>3, Zenon
  <2> QED
    BY <1>2, <2>2, <2>3
<1>3. CASE RawWrite(r, e)
  <2> DEFINE n == IF s[e].win < Size THEN s[e].win ELSE Size
             d == SendData(s[e], n)
  <2>1. st' = [st EXCEPT ![r] = [s EXCEPT ![e] = d]] /\ s[e].win > 0 /\ s[e].pipe = "raw"
    BY <1>3, <1>k DEF RawWrite, Writes, Set, Streams, Ends
  <2>2. n \in Nat
    BY <1>2, <2>1, ConnAssumption DEF Dirs
  <2> HIDE DEF n
  <2>3. Sends(s[e], d, Alive, K) /\ d.pipe = "raw"
    BY <1>2, <2>1, <2>2, DataSends
  <2> HIDE DEF d
  <2> QED
    BY <1>s, <2>1, <2>3, Zenon
<1>4. CASE RawShutdown(r, e)
  <2> DEFINE d == SendEosFrame(s[e])
  <2>1. st' = [st EXCEPT ![r] = [s EXCEPT ![e] = d]] /\ s[e].pipe = "raw"
    BY <1>4, <1>k DEF RawShutdown, Writes, Set, Streams, Ends
  <2>2. Sends(s[e], d, Alive, K) /\ d.pipe = "done"
    BY <1>2, <2>1, EndSends
  <2> HIDE DEF d
  <2> QED
    BY <1>s, <2>1, <2>2, Zenon
<1>r. ASSUME NEW d \in Dirs, DirOK(d, Alive, K), s[e].rd = "open",
             IF e = "up" THEN s.srv = "upgraded" ELSE s.raw,
             d.pipe = s[e].pipe, d.fate = s[e].fate, st' = [st EXCEPT ![r] = [s EXCEPT ![e] = d]]
      PROVE  Whole(z, Alive)
  <2>1. CASE e = "up"
    BY <1>r, <1>u, <2>1, Zenon
  <2>2. CASE e = "down"
    BY <1>r, <1>d, <2>2, Zenon
  <2> QED
    BY <1>2, <2>1, <2>2
<1>5. CASE RawRead(r, e)
  <2> DEFINE d == s[e]
             frame == IF d.buf > 0 THEN <<"data", d.buf>> ELSE Head(d.wire)
  <2>1. /\ d.buf > 0 \/ d.wire # <<>>
        /\ \/ IsData(frame) /\ \E n \in 1 .. frame[2] :
                st' = [st EXCEPT ![r] = [s EXCEPT ![e] = UpgradedRead(d, n)]]
           \/ ~IsData(frame) /\ st' = [st EXCEPT ![r] = [s EXCEPT ![e] = UpgradedEnd(d)]]
        /\ IF e = "up" THEN s.srv = "upgraded" ELSE s.raw
        /\ d.rd = "open" /\ Alive
    BY <1>5 DEF RawRead, Set, Moving
  <2>k. K \in {"CONNECT", "shut"}
    BY <1>2, <1>c, <2>1 DEF Excuse
  <2>2. CASE IsData(frame)
    <3>1. frame[2] \in Int
      BY <1>2, <2>1, <2>2, WireFacts DEF Dirs
    <3>2. PICK n \in 1 .. frame[2] : st' = [st EXCEPT ![r] = [s EXCEPT ![e] = UpgradedRead(d, n)]]
      BY <2>1, <2>2
    <3>3. n \in Nat /\ n <= frame[2]
      BY <3>1
    <3>4. \/ d.buf > 0 /\ n <= d.buf
          \/ ~(d.buf > 0) /\ d.wire # <<>> /\ IsData(Head(d.wire)) /\ n <= Head(d.wire)[2]
      BY <2>1, <2>2, <3>3
    <3> DEFINE y == UpgradedRead(d, n)
    <3>5. y \in Dirs /\ DirOK(y, Alive, K) /\ y.pipe = d.pipe /\ y.fate = d.fate
      BY <1>2, <2>1, <3>3, <3>4, DirRaw, Zenon
    <3> HIDE DEF y
    <3> QED
      BY <1>r, <2>1, <3>2, <3>5, Zenon DEF y
  <2>3. CASE ~IsData(frame)
    <3>1. d.wire # <<>> /\ st' = [st EXCEPT ![r] = [s EXCEPT ![e] = UpgradedEnd(d)]]
          /\ ~(d.buf > 0) /\ ~IsData(Head(d.wire))
      BY <2>1, <2>3 DEF IsData
    <3> DEFINE y == UpgradedEnd(d)
    <3>2. y \in Dirs /\ DirOK(y, Alive, K) /\ y.pipe = d.pipe /\ y.fate = d.fate
      BY <1>2, <2>1, <2>k, <3>1, DirRawEnd, Zenon
    <3> HIDE DEF y
    <3> QED
      BY <1>r, <2>1, <3>1, <3>2, Zenon DEF y
  <2> QED
    BY <2>2, <2>3
<1> QED
  BY <1>1, <1>3, <1>4, <1>5

\* What h2 does with a stream nobody holds keeps it whole.
LEMMA UnheldWhole ==
  ASSUME Known, NEW r \in Requests, Whole(st[r], Alive), ImplicitReset(r) \/ Discarded(r)
  PROVE  Whole(st'[r], Alive)
<1> DEFINE s == st[r]
           z == st'[r]
<1>k. s \in Streams /\ s.up \in Dirs /\ s.down \in Dirs
  BY StreamFacts
<1>w. Control(s, Alive) /\ DirOK(s.up, Alive, Excuse(s)) /\ DirOK(s.down, Alive, s.kind)
  BY DEF Whole
<1>1. CASE ImplicitReset(r)
  <2> DEFINE u == Ended(Put(s.up, <<"reset", "CANCEL">>), "gone")
             d == Ended(Put(s.down, <<"reset", "CANCEL">>), "gone")
  <2>1. \/ st' = [st EXCEPT ![r] = [s EXCEPT !.cRst = TRUE, !.up = u]] /\ ~s.spawned /\ s.down.rd = "gone"
        \/ st' = [st EXCEPT ![r] = [s EXCEPT !.sRst = TRUE, !.down = d]] /\ s.srv = "done"
    BY <1>1, <1>k DEF ImplicitReset, Set, Streams
  <2>2. /\ Sends(s.up, u, Alive, Excuse(s)) /\ u.pipe = "done"
        /\ Sends(s.down, d, Alive, s.kind) /\ d.pipe = "done"
    BY <1>k, <1>w, EndSends
  <2> HIDE DEF u, d
  <2>3. CASE st' = [st EXCEPT ![r] = [s EXCEPT !.cRst = TRUE, !.up = u]] /\ ~s.spawned /\ s.down.rd = "gone"
    <3>1. z = [s EXCEPT !.cRst = TRUE, !.up = u]
      BY <2>3, SetFacts, Zenon
    <3> HIDE DEF s, z
    <3>2. /\ z.req = s.req /\ z.kind = s.kind /\ z.up = u /\ z.down = s.down
          /\ z.srv = s.srv /\ z.raw = s.raw /\ z.spawned = s.spawned
          /\ z.shut = s.shut
      BY <1>k, <3>1 DEF Streams
    <3>3. Control(z, Alive)
      BY <1>w, <2>2, <2>3, <3>2 DEF Control, Sends, Grows
    <3> QED
      BY <1>w, <2>2, <3>2, <3>3 DEF Whole, Excuse, Sends, z
  <2>4. CASE st' = [st EXCEPT ![r] = [s EXCEPT !.sRst = TRUE, !.down = d]] /\ s.srv = "done"
    <3>1. z = [s EXCEPT !.sRst = TRUE, !.down = d]
      BY <2>4, SetFacts, Zenon
    <3> HIDE DEF s, z
    <3>2. /\ z.req = s.req /\ z.kind = s.kind /\ z.up = s.up /\ z.down = d
          /\ z.srv = s.srv /\ z.raw = s.raw /\ z.spawned = s.spawned
          /\ z.shut = s.shut
      BY <1>k, <3>1 DEF Streams
    <3>3. Control(z, Alive)
      BY <1>w, <2>2, <2>4, <3>2 DEF Control, Sends, Grows
    <3> QED
      BY <1>w, <2>2, <3>2, <3>3 DEF Whole, Excuse, Sends, z
  <2> QED
    BY <2>1, <2>3, <2>4
<1>2. CASE Discarded(r)
  <2>1. PICK e \in Ends : s[e].wire # <<>> /\ st' = [st EXCEPT ![r] = [s EXCEPT ![e] = Discard(s[e])]]
                          /\ s[e].rd \in {"gone", "end", "error"}
    BY <1>2, Zenon DEF Discarded, Set
  <2>2. CASE e = "up"
    <3> DEFINE d == Discard(s.up)
    <3>1. /\ d \in Dirs /\ DirOK(d, Alive, Excuse(s)) /\ d.pipe = s.up.pipe /\ d.fate = s.up.fate
          /\ d.rd = s.up.rd /\ d.buf = s.up.buf
      BY <1>k, <1>w, <2>1, <2>2, DirDiscard
    <3>2. z = [s EXCEPT !.up = d] /\ s.up.rd # "none"
      BY <2>1, <2>2, SetFacts, Zenon
    <3> HIDE DEF s, z, d
    <3>3. /\ z.req = s.req /\ z.kind = s.kind /\ z.up = d /\ z.down = s.down
          /\ z.srv = s.srv /\ z.raw = s.raw /\ z.spawned = s.spawned
          /\ z.shut = s.shut
      BY <1>k, <3>2 DEF Streams
    <3>4. Control(z, Alive)
      BY <1>w, <3>1, <3>2, <3>3 DEF Control
    <3> QED
      BY <1>w, <3>1, <3>3, <3>4 DEF Whole, Excuse, z
  <2>3. CASE e = "down"
    <3> DEFINE d == Discard(s.down)
    <3>0. s.down.wire \in Seq(Frames) /\ s.down.wire # <<>> /\ <<"eos">> \in Frames
      BY <1>k, <2>1, <2>3, FrameFacts DEF Dirs
    <3>1. /\ d \in Dirs /\ DirOK(d, Alive, s.kind) /\ d.pipe = s.down.pipe /\ d.fate = s.down.fate
          /\ d.rd = s.down.rd /\ d.buf = s.down.buf /\ d.wire = Tail(s.down.wire)
      BY <1>k, <1>w, <2>1, <2>3, DirDiscard
    <3>n. NoUpgrade(s.down.wire) => NoUpgrade(d.wire)
      BY <3>0, <3>1, WireGrows
    <3>2. z = [s EXCEPT !.down = d]
      BY <2>1, <2>3, SetFacts, Zenon
    <3> HIDE DEF s, z, d
    <3>3. /\ z.req = s.req /\ z.kind = s.kind /\ z.up = s.up /\ z.down = d
          /\ z.srv = s.srv /\ z.raw = s.raw /\ z.spawned = s.spawned
          /\ z.shut = s.shut
      BY <1>k, <3>2 DEF Streams
    <3>4. Control(z, Alive)
      BY <1>w, <3>0, <3>1, <3>n, <3>3 DEF Control
    <3> QED
      BY <1>w, <3>1, <3>3, <3>4 DEF Whole, Excuse, z
  <2> QED
    BY <2>1, <2>2, <2>3 DEF Ends
<1> QED
  BY <1>1, <1>2

\* The requests of the queue are queued, each once.
Waits ==
    \A i \in 1 .. Len(queue) :
        /\ st[queue[i]].req = "queued"
        /\ \A j \in 1 .. Len(queue) : queue[i] = queue[j] => i = j

WInv == Waits /\ \A r \in Requests : Whole(st[r], Alive)

\* A step of a stream queues a request that is being sent, or leaves the queue alone and a
\* queued request queued.
LEMMA StreamQueue ==
  ASSUME Known, NEW r \in Requests,
         UserStep(r) \/ ClientStep(r) \/ ServerStep(r) \/ RawStep(r)
         \/ ImplicitReset(r) \/ Discarded(r)
  PROVE  \/ queue' = queue /\ (st[r].req = "queued" => st'[r].req = "queued")
         \/ queue' = Append(queue, r) /\ st[r].req = "sending" /\ st'[r].req = "queued"
<1> DEFINE s == st[r]
           z == st'[r]
<1>k. s \in Streams
  BY StreamFacts
<1>9. CASE Submit(r)
  BY <1>9 DEF Submit, tasks
<1>1. CASE TrySend(r)
  <2>1. /\ s.req = "sending"
        /\ \/ queue' = Append(queue, r) /\ st' = [st EXCEPT ![r] = [s EXCEPT !.req = "queued"]]
           \/ queue' = queue
    BY <1>1 DEF TrySend, Set
  <2>2. CASE queue' = Append(queue, r) /\ st' = [st EXCEPT ![r] = [s EXCEPT !.req = "queued"]]
    <3>1. z = [s EXCEPT !.req = "queued"]
      BY <2>2, SetFacts, Zenon
    <3>2. z.req = "queued"
      BY <1>k, <3>1 DEF Streams
    <3> QED
      BY <2>1, <2>2, <3>2
  <2> QED
    BY <2>1, <2>2
<1>2. CASE Respond(r) \/ ResponseError(r) \/ SendWhenCanceled(r)
  BY <1>2 DEF Respond, ResponseError, SendWhenCanceled, tasks
<1>s. ASSUME NEW y, st' = [st EXCEPT ![r] = y], y.req = s.req PROVE z.req = s.req
  BY <1>s, SetFacts
<1>f. st \in [Requests -> Streams]
  BY DEF Known
<1>3. CASE Cancel(r) \/ DropBody(r) \/ ServerDropBody(r)
  <2>1. ASSUME Cancel(r) PROVE queue' = queue /\ z.req = s.req
    BY <1>k, <1>f, <2>1 DEF Cancel, Set, tasks, Streams
  <2>2. ASSUME DropBody(r) PROVE queue' = queue /\ z.req = s.req
    BY <1>k, <1>f, <2>2 DEF DropBody, Set, tasks, Streams
  <2>3. ASSUME ServerDropBody(r) PROVE queue' = queue /\ z.req = s.req
    BY <1>k, <1>f, <2>3 DEF ServerDropBody, Set, tasks, Streams
  <2> QED
    BY <1>3, <2>1, <2>2, <2>3
<1>4. CASE ClientPipe(r) \/ ClientPipeReset(r) \/ ClientReset(r) \/ ClientRead(r) \/ ClientReadError(r)
  <2>1. ASSUME ClientPipe(r) PROVE queue' = queue /\ z.req = s.req
    BY <1>k, <1>f, <2>1 DEF ClientPipe, Set, tasks, Streams
  <2>2. ASSUME ClientPipeReset(r) PROVE queue' = queue /\ z.req = s.req
    BY <1>k, <1>f, <2>2 DEF ClientPipeReset, Set, tasks, Streams
  <2>3. ASSUME ClientReset(r) PROVE queue' = queue /\ z.req = s.req
    BY <1>k, <1>f, <2>3 DEF ClientReset, Set, tasks, Streams
  <2>4. ASSUME ClientRead(r) PROVE queue' = queue /\ z.req = s.req
    BY <1>k, <1>f, <2>4 DEF ClientRead, Set, tasks, Streams
  <2>5. ASSUME ClientReadError(r) PROVE queue' = queue /\ z.req = s.req
    BY <1>k, <1>f, <2>5 DEF ClientReadError, Set, tasks, Streams
  <2> QED
    BY <1>4, <2>1, <2>2, <2>3, <2>4, <2>5
<1>5. CASE ServerStep(r)
  <2>1. ASSUME ServerAccept(r) PROVE queue' = queue /\ z.req = s.req
    BY <1>k, <1>f, <2>1 DEF ServerAccept, Set, tasks, Streams
  <2>2. ASSUME ServerReply(r) PROVE queue' = queue /\ z.req = s.req
    BY <1>k, <1>f, <2>2, Zenon DEF ServerReply, Set, tasks, Streams
  <2>3. ASSUME ServerFail(r) PROVE queue' = queue /\ z.req = s.req
    BY <1>k, <1>f, <2>3 DEF ServerFail, Set, tasks, Streams
  <2>4. ASSUME ServerPipe(r) PROVE queue' = queue /\ z.req = s.req
    BY <1>k, <1>f, <2>4 DEF ServerPipe, Set, tasks, Streams
  <2>5. ASSUME ServerReset(r) PROVE queue' = queue /\ z.req = s.req
    BY <1>k, <1>f, <2>5 DEF ServerReset, Set, tasks, Streams
  <2>6. ASSUME ServerRead(r) PROVE queue' = queue /\ z.req = s.req
    BY <1>k, <1>f, <2>6 DEF ServerRead, Set, tasks, Streams
  <2>7. ASSUME ServerReadError(r) PROVE queue' = queue /\ z.req = s.req
    BY <1>k, <1>f, <2>7 DEF ServerReadError, Set, tasks, Streams
  <2> QED
    BY <1>5, <2>1, <2>2, <2>3, <2>4, <2>5, <2>6, <2>7 DEF ServerStep
<1>6. CASE RawStep(r)
  <2>1. queue' = queue /\ \E e \in Ends : \E d : st' = [st EXCEPT ![r] = [s EXCEPT ![e] = d]]
    BY <1>6, Zenon DEF RawStep, RawWrite, RawShutdown, RawRead, Set, tasks
  <2>2. ASSUME NEW e \in Ends, NEW d PROVE [s EXCEPT ![e] = d].req = s.req
    BY <1>k DEF Streams, Ends
  <2> QED
    BY <1>s, <2>1, <2>2, Zenon
<1>7. CASE Discarded(r)
  <2>1. queue' = queue /\ \E e \in Ends : \E d : st' = [st EXCEPT ![r] = [s EXCEPT ![e] = d]]
    BY <1>7, Zenon DEF Discarded, Set, tasks
  <2>2. ASSUME NEW e \in Ends, NEW d PROVE [s EXCEPT ![e] = d].req = s.req
    BY <1>k DEF Streams, Ends
  <2> QED
    BY <1>s, <2>1, <2>2, Zenon
<1>8. CASE ImplicitReset(r)
  BY <1>k, <1>f, <1>8, ZenonT(40) DEF ImplicitReset, Set, tasks, Streams
<1> QED
  BY <1>1, <1>2, <1>3, <1>4, <1>5, <1>6, <1>7, <1>8, <1>9 DEF UserStep, ClientStep

\* A step of a stream keeps it whole, and the queue in order.
LEMMA StreamWhole ==
  ASSUME HInv, WInv, NEW r \in Requests,
         UserStep(r) \/ ClientStep(r) \/ ServerStep(r) \/ RawStep(r)
         \/ ImplicitReset(r) \/ Discarded(r)
  PROVE  WInv'
<1>1. Known /\ conn' = conn /\ queue \in Seq(Requests)
  BY StreamPings DEF HInv
<1>2. Whole(st'[r], Alive)
  BY <1>1, UserWhole, ClientWhole, ServerWhole, RawWhole, UnheldWhole DEF WInv
<1>3. \A q \in Requests \ {r} : st'[q] = st[q]
  <2>1. \E z \in After(st[r]) : st' = [st EXCEPT ![r] = z]
    BY <1>1, UserSteps, ClientSteps, ServerSteps, RawSteps, UnheldSteps
  <2> QED
    BY <1>1, <2>1 DEF Known
<1>4. \A q \in Requests : Whole(st'[q], Alive)
  BY <1>2, <1>3 DEF WInv
<1>5. Alive' <=> Alive
  BY <1>1 DEF Alive
<1>6. (\A q \in Requests : Whole(st[q], Alive))'
  BY <1>4, <1>5, Zenon
<1>7. Waits'
  <2>q. \A i \in 1 .. Len(queue) : queue[i] \in Requests /\ st[queue[i]].req = "queued"
    BY <1>1 DEF WInv, Waits
  <2>1. CASE queue' = queue /\ (st[r].req = "queued" => st'[r].req = "queued")
    <3>1. \A i \in 1 .. Len(queue) : st'[queue[i]].req = "queued"
      BY <1>3, <2>q, <2>1
    <3> QED
      BY <2>1, <3>1 DEF WInv, Waits
  <2>2. CASE queue' = Append(queue, r) /\ st[r].req = "sending" /\ st'[r].req = "queued"
    <3>0. Len(queue') = Len(queue) + 1 /\ Len(queue) \in Nat
          /\ \A i \in 1 .. (Len(queue) + 1) : queue'[i] = IF i = Len(queue) + 1 THEN r ELSE queue[i]
      BY <1>1, <2>2
    <3>1. \A i \in 1 .. Len(queue) : queue[i] # r /\ st'[queue[i]].req = "queued"
      BY <1>3, <2>q, <2>2
    <3>2. \A i \in 1 .. Len(queue') : st'[queue'[i]].req = "queued"
      BY <2>2, <3>0, <3>1
    <3>3. ASSUME NEW i \in 1 .. Len(queue'), NEW j \in 1 .. Len(queue'), queue'[i] = queue'[j]
          PROVE  i = j
      <4>1. (i \in 1 .. Len(queue) \/ i = Len(queue) + 1) /\ (j \in 1 .. Len(queue) \/ j = Len(queue) + 1)
        BY <3>0
      <4>2. CASE i \in 1 .. Len(queue) /\ j \in 1 .. Len(queue)
        <5>1. queue[i] = queue[j]
          BY <3>0, <3>3, <4>2
        <5> QED
          BY <4>2, <5>1 DEF WInv, Waits
      <4>3. CASE ~(i \in 1 .. Len(queue) /\ j \in 1 .. Len(queue))
        BY <3>0, <3>1, <3>3, <4>1, <4>3
      <4> QED
        BY <4>2, <4>3
    <3> QED
      BY <3>2, <3>3 DEF Waits
  <2> QED
    BY <1>1, <2>1, <2>2, StreamQueue
<1> QED
  BY <1>6, <1>7 DEF WInv

\* The ClientTask opens a stream for the first request of the queue, or does not.
LEMMA RecvWhole ==
  ASSUME HInv, WInv, DispatchRecv
  PROVE  WInv'
<1> DEFINE r == Head(queue)
           s == st[r]
           z == st'[r]
           u == Put(s.up, <<"head">>)
           w == [s EXCEPT !.req = "waiting"]
<1>1. /\ r \in Requests /\ queue \in Seq(Requests) /\ queue # <<>> /\ queue' = Tail(queue)
      /\ conn' = conn /\ r = queue[1] /\ 1 \in 1 .. Len(queue)
  BY DEF DispatchRecv, HInv
<1>k. s \in Streams /\ s.up \in Dirs /\ s.down \in Dirs /\ Known
  BY <1>1, StreamFacts DEF HInv
<1>w. Control(s, Alive) /\ DirOK(s.up, Alive, Excuse(s)) /\ DirOK(s.down, Alive, s.kind)
      /\ s.req = "queued"
  BY <1>1 DEF WInv, Whole, Waits
<1>3. \/ \E x \in {"dropped", "error"} : st' = [st EXCEPT ![r] = [s EXCEPT !.req = x]]
      \/ s.kind = "plain" /\ st' = [st EXCEPT ![r] = [w EXCEPT !.up = SendEosFrame(u)]]
      \/ s.kind = "plain"
         /\ st' = [st EXCEPT ![r] = [w EXCEPT !.up = [u EXCEPT !.pipe = "data"], !.spawned = TRUE]]
      \/ s.kind = "CONNECT" /\ st' = [st EXCEPT ![r] = [w EXCEPT !.up = u]]
  BY <1>k, ZenonT(40) DEF DispatchRecv, Set, Streams
<1>4. s.up.pipe = "none" /\ s.up.wire = <<>> /\ s.up.rd = "none" /\ s.srv = "none" /\ ~s.raw /\ ~s.spawned
      /\ s.up.buf = 0 /\ s.down.rd = "none"
  BY <1>w, <1>k DEF Control, Streams
<1>5. /\ u \in Dirs /\ DirOK(u, Alive, Excuse(s)) /\ u.pipe = "none" /\ u.fate = "open"
      /\ u.rd = "none" /\ u.buf = 0 /\ Started(u.wire)
  <2>1. <<"head">> \in Frames /\ <<"head">> # <<"reset", "CANCEL">> /\ ~IsEnd(<<"head">>) /\ ~IsData(<<"head">>)
    BY FrameFacts DEF IsEnd, IsData
  <2>2. /\ u \in Dirs /\ DirOK(u, Alive, Excuse(s)) /\ u.pipe = s.up.pipe /\ u.fate = "open"
        /\ u.rd = s.up.rd /\ u.buf = s.up.buf /\ u.wire = Append(s.up.wire, <<"head">>)
    BY <1>k, <1>w, <1>4, <2>1, DirPut
  <2>3. s.up.wire \in Seq(Frames)
    BY <1>k DEF Dirs
  <2>4. Started(Append(s.up.wire, <<"head">>))
    BY <1>4, <2>1, <2>3, WireGrows, Zenon
  <2> QED
    BY <1>4, <2>2, <2>4
<1>z. ASSUME NEW d, DirOK(d, Alive, Excuse(s)), Started(d.wire), d.rd = "none", d.buf = 0, NEW b,
             b => d.pipe \in {"data", "trailers"},
             s.kind = "CONNECT" => d.pipe = "none" /\ d.fate = "open",
             z = [w EXCEPT !.up = d, !.spawned = b]
      PROVE  Whole(z, Alive)
  <2> HIDE DEF s, z
  <2>1. /\ z.req = "waiting" /\ z.kind = s.kind /\ z.up = d /\ z.down = s.down
        /\ z.srv = s.srv /\ z.raw = s.raw /\ z.spawned = b
        /\ z.shut = s.shut
    BY <1>k, <1>z DEF Streams
  <2>2. Control(z, Alive)
    BY <1>w, <1>4, <1>z, <2>1 DEF Control
  <2> QED
    BY <1>w, <1>z, <2>1, <2>2 DEF Whole, Excuse
<1>6. Whole(z, Alive)
  <2>1. CASE \E x \in {"dropped", "error"} : st' = [st EXCEPT ![r] = [s EXCEPT !.req = x]]
    <3>1. PICK x \in {"dropped", "error"} : st' = [st EXCEPT ![r] = [s EXCEPT !.req = x]]
      BY <2>1, Zenon
    <3>2. z = [s EXCEPT !.req = x]
      BY <1>1, <1>k, <3>1, SetFacts, Zenon
    <3> HIDE DEF s, z
    <3>3. /\ z.req = x /\ z.kind = s.kind /\ z.up = s.up /\ z.down = s.down
          /\ z.srv = s.srv /\ z.raw = s.raw /\ z.spawned = s.spawned
          /\ z.shut = s.shut
      BY <1>k, <3>2 DEF Streams
    <3>4. Control(z, Alive)
      BY <1>w, <1>4, <3>3 DEF Control
    <3> QED
      BY <1>w, <3>3, <3>4 DEF Whole, Excuse
  <2>2. CASE s.kind = "plain" /\ st' = [st EXCEPT ![r] = [w EXCEPT !.up = SendEosFrame(u)]]
    <3> DEFINE d == SendEosFrame(u)
    <3>1. Sends(u, d, Alive, Excuse(s))
      BY <1>5, EndSends
    <3> HIDE DEF u, d
    <3>2. z = [w EXCEPT !.up = d]
      BY <1>1, <1>k, <2>2, SetFacts, Zenon DEF d
    <3>3. z = [w EXCEPT !.up = d, !.spawned = FALSE]
      BY <1>k, <1>4, <3>2, Zenon DEF Streams
    <3>4. DirOK(d, Alive, Excuse(s)) /\ Started(d.wire) /\ d.rd = "none" /\ d.buf = 0
      BY <1>5, <3>1 DEF Sends, Grows
    <3> HIDE DEF s, w, z
    <3> QED
      BY <1>z, <2>2, <3>3, <3>4, Zenon
  <2>3. CASE s.kind = "plain"
             /\ st' = [st EXCEPT ![r] = [w EXCEPT !.up = [u EXCEPT !.pipe = "data"], !.spawned = TRUE]]
    <3> DEFINE d == [u EXCEPT !.pipe = "data"]
    <3> HIDE DEF u
    <3>1. DirOK(d, Alive, Excuse(s)) /\ Started(d.wire) /\ d.rd = "none" /\ d.buf = 0 /\ d.pipe = "data"
      BY <1>5, DirPipe, Zenon
    <3>2. z = [w EXCEPT !.up = d, !.spawned = TRUE]
      BY <1>1, <1>k, <2>3, SetFacts, Zenon
    <3> HIDE DEF s, w, z, d
    <3> QED
      BY <1>z, <2>3, <3>1, <3>2, Zenon
  <2>4. CASE s.kind = "CONNECT" /\ st' = [st EXCEPT ![r] = [w EXCEPT !.up = u]]
    <3>1. z = [w EXCEPT !.up = u]
      BY <1>1, <1>k, <2>4, SetFacts, Zenon
    <3> HIDE DEF u
    <3>2. z = [w EXCEPT !.up = u, !.spawned = FALSE]
      BY <1>k, <1>4, <3>1, Zenon DEF Streams
    <3> HIDE DEF s, w, z
    <3> QED
      BY <1>z, <1>5, <2>4, <3>2, Zenon
  <2> QED
    BY <1>3, <2>1, <2>2, <2>3, <2>4
<1>7. \A q \in Requests \ {r} : st'[q] = st[q]
  <2>1. \E y : st' = [st EXCEPT ![r] = y]
    <3> HIDE DEF r, s, w, u
    <3> QED
      BY <1>3
  <2> QED
    BY <1>k, <2>1 DEF Known
<1>8. \A q \in Requests : Whole(st'[q], Alive)
  BY <1>6, <1>7 DEF WInv
<1>9. Alive' <=> Alive
  BY <1>1 DEF Alive
<1>10. (\A q \in Requests : Whole(st[q], Alive))'
  BY <1>8, <1>9, Zenon
<1>11. Waits'
  <2>1. Len(queue') = Len(queue) - 1 /\ Len(queue) \in Nat
        /\ \A i \in 1 .. Len(queue') : queue'[i] = queue[i + 1]
    BY <1>1
  <2>2. \A i \in 1 .. Len(queue') : i + 1 \in 1 .. Len(queue) /\ i + 1 # 1
    BY <2>1
  <2>3. ASSUME NEW i \in 1 .. Len(queue') PROVE st'[queue'[i]].req = "queued"
    <3>1. i + 1 \in 1 .. Len(queue) /\ queue'[i] = queue[i + 1] /\ i + 1 # 1
      BY <2>1, <2>2
    <3>2. queue[i + 1] # queue[1] /\ st[queue[i + 1]].req = "queued"
      BY <1>1, <3>1 DEF WInv, Waits
    <3>3. queue[i + 1] \in Requests
      BY <1>1, <3>1
    <3> HIDE DEF r
    <3> QED
      BY <1>1, <1>7, <3>1, <3>2, <3>3
  <2>4. ASSUME NEW i \in 1 .. Len(queue'), NEW j \in 1 .. Len(queue'), queue'[i] = queue'[j]
        PROVE  i = j
    <3>1. /\ i + 1 \in 1 .. Len(queue) /\ queue'[i] = queue[i + 1]
          /\ j + 1 \in 1 .. Len(queue) /\ queue'[j] = queue[j + 1]
      BY <2>1, <2>2
    <3>2. i + 1 = j + 1
      BY <2>4, <3>1, Zenon DEF WInv, Waits
    <3> QED
      BY <3>2
  <2> QED
    BY <2>3, <2>4 DEF Waits
<1> QED
  BY <1>10, <1>11 DEF WInv

\* The connection is gone, or the ClientTask is.
LEMMA EndWhole ==
  ASSUME HInv, WInv, NEW shut, (Close(shut) /\ queue' = queue) \/ DispatchEnd
  PROVE  WInv'
<1>s. ASSUME NEW r \in Requests
      PROVE  /\ st[r] \in Streams /\ st[r].up \in Dirs /\ st[r].down \in Dirs
             /\ Control(st[r], Alive) /\ DirOK(st[r].up, Alive, Excuse(st[r]))
             /\ DirOK(st[r].down, Alive, st[r].kind)
  BY StreamFacts DEF HInv, WInv, Whole
<1>1. CASE Close(shut) /\ queue' = queue
  <2>1. Alive' = FALSE
    BY <1>1, Zenon DEF Close, Alive
  <2>2. ASSUME NEW r \in Requests PROVE Whole(st'[r], FALSE) /\ st'[r].req = st[r].req
    <3> DEFINE s == st[r]
               z == st'[r]
               u == [s.up EXCEPT !.wire = <<>>]
               d == [s.down EXCEPT !.wire = <<>>]
    <3>1. s \in Streams /\ s.up \in Dirs /\ s.down \in Dirs
      BY <1>s
    <3>w. Control(s, Alive) /\ DirOK(s.up, Alive, Excuse(s)) /\ DirOK(s.down, Alive, s.kind)
      BY <1>s
    <3>2. PICK b \in BOOLEAN :
            /\ z = [s EXCEPT !.up = u, !.down = d, !.cRst = FALSE, !.sRst = FALSE, !.shut = b]
            /\ s.shut => b
      BY <1>1, <3>1, Zenon DEF Close, Streams
    <3>3. u.wire = <<>> /\ u.pipe = s.up.pipe /\ u.fate = s.up.fate /\ u.rd = s.up.rd
          /\ u.buf = s.up.buf /\ u.got = s.up.got /\ u.sent = s.up.sent
      BY <3>1 DEF Dirs
    <3>4. d.wire = <<>> /\ d.pipe = s.down.pipe /\ d.fate = s.down.fate /\ d.rd = s.down.rd
          /\ d.buf = s.down.buf /\ d.got = s.down.got /\ d.sent = s.down.sent
      BY <3>1 DEF Dirs
    <3> HIDE DEF s, z, u, d
    <3>5. DirOK(u, FALSE, Excuse(s)) /\ DirOK(u, FALSE, "shut") /\ DirOK(d, FALSE, s.kind)
      BY <3>w, <3>3, <3>4 DEF DirOK
    <3>6. /\ z.req = s.req /\ z.kind = s.kind /\ z.up = u /\ z.down = d
          /\ z.srv = s.srv /\ z.raw = s.raw /\ z.spawned = s.spawned
          /\ Excuse(z) \in {Excuse(s), "shut"}
      BY <3>1, <3>2 DEF Streams, Excuse
    <3>n. NoUpgrade(<<>>)
      BY DEF NoUpgrade
    <3>7. Control(z, FALSE)
      BY <3>w, <3>3, <3>4, <3>6, <3>n DEF Control
    <3> QED
      BY <3>5, <3>6, <3>7, Zenon DEF Whole, s, z
  <2>3. (\A r \in Requests : Whole(st[r], Alive))'
    BY <2>1, <2>2, Zenon
  <2>4. queue \in Seq(Requests)
    BY DEF HInv
  <2>5. Waits'
    <3>1. \A i \in 1 .. Len(queue) : queue[i] \in Requests
      BY <2>4
    <3>2. \A i \in 1 .. Len(queue) : st'[queue[i]].req = "queued"
      BY <2>2, <3>1, Zenon DEF WInv, Waits
    <3> QED
      BY <1>1, <3>2 DEF WInv, Waits
  <2> QED
    BY <2>3, <2>5 DEF WInv
<1>2. CASE DispatchEnd
  <2>1. st' = CancelQueued /\ queue' = <<>> /\ conn' = conn
    BY <1>2 DEF DispatchEnd
  <2>2. ASSUME NEW r \in Requests PROVE Whole(st'[r], Alive)
    <3> DEFINE s == st[r]
               z == st'[r]
    <3>1. s \in Streams
      BY <1>s
    <3>w. Control(s, Alive) /\ DirOK(s.up, Alive, Excuse(s)) /\ DirOK(s.down, Alive, s.kind)
      BY <1>s
    <3>2. z = IF s.req = "queued" THEN [s EXCEPT !.req = "error"] ELSE s
      BY <2>1 DEF CancelQueued
    <3> HIDE DEF s, z
    <3>3. /\ z.req = (IF s.req = "queued" THEN "error" ELSE s.req)
          /\ z.kind = s.kind /\ z.up = s.up /\ z.down = s.down
          /\ z.srv = s.srv /\ z.raw = s.raw /\ z.spawned = s.spawned
          /\ z.shut = s.shut
      BY <3>1, <3>2 DEF Streams
    <3>4. Control(z, Alive)
      BY <3>w, <3>3 DEF Control
    <3> QED
      BY <3>w, <3>3, <3>4 DEF Whole, Excuse, z
  <2>3. Alive' <=> Alive
    BY <2>1 DEF Alive
  <2>4. (\A r \in Requests : Whole(st[r], Alive))'
    BY <2>2, <2>3, Zenon
  <2>5. Waits'
    BY <2>1 DEF Waits
  <2> QED
    BY <2>4, <2>5 DEF WInv
<1> QED
  BY <1>1, <1>2

\* A step after which every stream is still whole, and a queued request queued.
LEMMA EachWhole ==
  ASSUME HInv, WInv, UNCHANGED <<conn, queue>>,
         \A r \in Requests : Whole(st'[r], Alive) /\ (st[r].req = "queued" => st'[r].req = "queued")
  PROVE  WInv'
<1>1. Alive' <=> Alive
  BY DEF Alive
<1>2. (\A r \in Requests : Whole(st[r], Alive))'
  BY <1>1, Zenon
<1>3. queue \in Seq(Requests)
  BY DEF HInv
<1>4. \A i \in 1 .. Len(queue) : queue[i] \in Requests
  BY <1>3
<1>5. Waits'
  BY <1>4 DEF WInv, Waits
<1> QED
  BY <1>2, <1>5 DEF WInv

\* Dropping the last SendRequest, and a shutdown, keep a stream whole.
LEMMA MarkedWhole ==
  ASSUME NEW s \in Streams, NEW a, Whole(s, a)
  PROVE  /\ s.req = "stuck" => Whole([s EXCEPT !.req = "error"], a)
         /\ Whole([s EXCEPT !.shut = @], a) /\ Whole([s EXCEPT !.shut = TRUE], a)
         /\ \A b : [s EXCEPT !.shut = b].req = s.req
<1> DEFINE z == [s EXCEPT !.req = "error"]
<1>1. /\ z.req = "error" /\ z.kind = s.kind /\ z.up = s.up /\ z.down = s.down
      /\ z.srv = s.srv /\ z.raw = s.raw /\ z.spawned = s.spawned /\ z.shut = s.shut
  BY DEF Streams
<1> HIDE DEF z
<1>2. s.req = "stuck" => Whole(z, a)
  BY <1>1 DEF Whole, Excuse, Control
<1> DEFINE y == [s EXCEPT !.shut = TRUE]
<1>3. /\ y.req = s.req /\ y.kind = s.kind /\ y.up = s.up /\ y.down = s.down
      /\ y.srv = s.srv /\ y.raw = s.raw /\ y.spawned = s.spawned /\ y.shut
  BY DEF Streams
<1> HIDE DEF y
<1>4. DirOK(y.up, a, "shut") /\ Control(y, a)
  BY <1>3, DirShut DEF Whole, Control
<1>5. Whole(y, a)
  BY <1>3, <1>4 DEF Whole, Excuse
<1>6. [s EXCEPT !.shut = @] = s /\ \A b : [s EXCEPT !.shut = b].req = s.req
  BY DEF Streams
<1> QED
  BY <1>2, <1>5, <1>6 DEF z, y

\* The streams the connection starts with are whole.
LEMMA WInit == Init => WInv
<1> SUFFICES ASSUME Init PROVE WInv
  OBVIOUS
<1>1. PICK plan \in Plans :
        st = [r \in Requests |->
                [kind |-> IF r \in plan.connect THEN "CONNECT" ELSE "plain",
                 req |-> "new", canceled |-> FALSE, spawned |-> FALSE, raw |-> FALSE,
                 srv |-> "none", cRst |-> FALSE, sRst |-> FALSE, shut |-> FALSE,
                 up |-> Direction(plan.up), down |-> Direction(plan.down)]]
  BY Zenon DEF Init
<1>d. ASSUME NEW n, NEW k, NEW d, d = Direction(n)
      PROVE  /\ d.pipe = "none" /\ d.wire = <<>> /\ d.fate = "open" /\ d.rd = "none" /\ d.buf = 0
             /\ DirOK(d, Alive, k)
  <2>1. /\ d.pipe = "none" /\ d.wire = <<>> /\ d.fate = "open" /\ d.rd = "none" /\ d.buf = 0
        /\ d.got = 0 /\ d.sent = 0
    BY <1>d DEF Direction
  <2> DEFINE pos == [i \in 1 .. 1 |-> 0]
  <2>2. pos \in [1 .. (Len(d.wire) + 1) -> Int] /\ pos[1] = 0 /\ Len(d.wire) = 0
    BY <2>1
  <2> HIDE DEF pos
  <2>3. Chain(d, pos)
    BY <2>1, <2>2 DEF Chain
  <2>4. Linked(d)
    BY <2>2, <2>3, Zenon DEF Linked
  <2> QED
    BY <2>1, <2>4 DEF DirOK
<1>2. ASSUME NEW r \in Requests PROVE Whole(st[r], Alive)
  <2> DEFINE s == st[r]
  <2>1. /\ s.req = "new" /\ ~s.spawned /\ ~s.raw /\ s.srv = "none" /\ ~s.shut
        /\ s.up = Direction(plan.up) /\ s.down = Direction(plan.down)
    BY <1>1
  <2>n. NoUpgrade(<<>>)
    BY DEF NoUpgrade
  <2> HIDE DEF s
  <2>2. /\ s.up.pipe = "none" /\ s.up.wire = <<>> /\ s.up.fate = "open" /\ s.up.rd = "none" /\ s.up.buf = 0
        /\ s.down.pipe = "none" /\ s.down.wire = <<>> /\ s.down.fate = "open" /\ s.down.rd = "none"
        /\ s.down.buf = 0
        /\ DirOK(s.up, Alive, Excuse(s)) /\ DirOK(s.down, Alive, s.kind)
    BY <1>d, <2>1
  <2>3. Control(s, Alive)
    BY <2>1, <2>2, <2>n DEF Control
  <2> QED
    BY <2>2, <2>3 DEF Whole, Excuse, s
<1>3. Waits
  BY DEF Init, Waits
<1> QED
  BY <1>2, <1>3 DEF WInv

\* Every step keeps the streams whole and the queue in order.
LEMMA WStep ==
  ASSUME HInv, WInv, [Next]_vars
  PROVE  WInv'
<1>1. ASSUME NEW r \in Requests,
             UserStep(r) \/ ClientStep(r) \/ ServerStep(r) \/ RawStep(r)
             \/ ImplicitReset(r) \/ Discarded(r)
      PROVE  WInv'
  BY <1>1, StreamWhole
<1>2. CASE DispatchRecv
  BY <1>2, RecvWhole
<1>3. CASE DispatchEnd \/ ConnDone \/ ConnLost \/ (ServerTimesOut /\ net # "silent")
  BY <1>3, EndWhole, Zenon DEF ConnDone, ConnLost, ServerTimesOut
<1>7. CASE ServerTimesOut /\ net = "silent"
  <2>1. /\ UNCHANGED <<conn, queue>>
        /\ st' = [r \in Requests |-> [st[r] EXCEPT !.shut = @ \/ r \in ServerUpgraded]]
    BY <1>7 DEF ServerTimesOut
  <2>2. ASSUME NEW r \in Requests PROVE Whole(st'[r], Alive) /\ st'[r].req = st[r].req
    <3>1. st'[r] \in {st[r], [st[r] EXCEPT !.shut = TRUE]} /\ st[r] \in Streams
      <4>1. st[r] \in Streams /\ st[r].shut \in BOOLEAN
        BY StreamFacts DEF HInv, Streams
      <4>2. st'[r] = [st[r] EXCEPT !.shut = (st[r].shut \/ r \in ServerUpgraded)]
        BY <2>1
      <4>3. [st[r] EXCEPT !.shut = st[r].shut] = st[r]
        BY <4>1 DEF Streams
      <4> QED
        BY <4>1, <4>2, <4>3, Zenon
    <3> QED
      BY <3>1, MarkedWhole, Zenon DEF WInv
  <2> QED
    BY <2>1, <2>2, EachWhole
<1>8. CASE DropSender
  <2>1. /\ UNCHANGED <<conn, queue>>
        /\ st' = [r \in Requests |->
                    IF st[r].req = "stuck" THEN [st[r] EXCEPT !.req = "error"] ELSE st[r]]
    BY <1>8 DEF DropSender
  <2>2. ASSUME NEW r \in Requests
        PROVE  Whole(st'[r], Alive) /\ (st[r].req = "queued" => st'[r].req = "queued")
    <3>1. st[r] \in Streams /\ Whole(st[r], Alive)
      BY StreamFacts DEF HInv, WInv
    <3> QED
      BY <2>1, <3>1, MarkedWhole, Zenon
  <2> QED
    BY <2>1, <2>2, EachWhole
<1>u. ASSUME UNCHANGED <<queue, st>>, Alive' = Alive PROVE WInv'
  <2>1. (\A r \in Requests : Whole(st[r], Alive))'
    BY <1>u DEF WInv
  <2>2. Waits'
    BY <1>u DEF WInv, Waits
  <2> QED
    BY <2>1, <2>2 DEF WInv
<1>4. CASE ConnPoll
  <2>1. queue' = queue /\ (Close({}) \/ UNCHANGED <<conn, st>>)
    BY <1>4 DEF ConnPoll
  <2>2. CASE Close({})
    BY <2>1, <2>2, EndWhole
  <2>3. CASE UNCHANGED <<conn, st>>
    BY <1>u, <2>1, <2>3 DEF Alive
  <2> QED
    BY <2>1, <2>2, <2>3
<1>5. CASE ConnDropRx
  BY <1>u, <1>5 DEF ConnDropRx, Alive
<1>6. CASE TimerElapses \/ BdpDue \/ PongArrives \/ GoSilent \/ UNCHANGED vars
  <2>1. UNCHANGED <<queue, st, conn>>
    BY <1>6 DEF TimerElapses, BdpDue, PongArrives, GoSilent, vars, tasks
  <2> QED
    BY <1>u, <2>1 DEF Alive
<1> QED
  BY <1>1, <1>2, <1>3, <1>4, <1>5, <1>6, <1>7, <1>8 DEF Next

-----------------------------------------------------------------------------
(* What follows.                                                           *)

\* The state of the pings and of the streams is one the code has.
THEOREM TypeCorrect == Spec => []TypeOK
<1>1. ASSUME HInv PROVE TypeOK
  <2>1. ASSUME NEW r \in Requests
        PROVE  /\ st[r].req \in Settled \cup {"sending", "queued", "waiting", "stuck"}
               /\ st[r].srv \in {"none", "Service", "Body", "upgraded", "done"}
               /\ st[r].up.pipe \in {"none", "data", "trailers", "raw", "done"}
               /\ st[r].down.pipe \in {"none", "data", "trailers", "raw", "done"}
    <3>1. st[r] \in Streams /\ st[r].up \in Dirs /\ st[r].down \in Dirs
      BY <1>1, StreamFacts DEF HInv
    <3> QED
      BY <3>1 DEF Streams, Dirs, Settled
  <2>2. \A r \in Requests : \A e \in Ends :
           st[r][e].pipe \in {"none", "data", "trailers", "raw", "done"}
    BY <2>1 DEF Ends
  <2> QED
    BY <1>1, <2>1, <2>2 DEF HInv, Pings, TypeOK
<1> QED
  BY <1>1, HAlways, PTL

\* conn_drop_ref: however many requests are sent and handles dropped, the
\* connection does not begin to close while a body is still being sent.
THEOREM BodiesKeepConnCorrect == Spec => []BodiesKeepConn
<1>1. HInv => BodiesKeepConn
  BY DEF HInv, BodiesKeepConn
<1> QED
  BY <1>1, HAlways, PTL

\* A body or an upgraded stream is only ever seen to end when its sender ended it
\* and all of it has been read, whatever sources fail, whoever drops what and
\* whenever the connection goes: PipeToSendStream, Body::poll_inner and H2Upgraded.
\* To an upgraded stream the peer's dropping it is an end too and, at the server, a
\* shutdown by the server itself; the client never takes a lost connection for one.
THEOREM EndIsWholeCorrect == Spec => []EndIsWhole
<1>1. Init => HInv /\ WInv
  BY HInit, WInit
<1>2. HInv /\ WInv /\ [Next]_vars => (HInv /\ WInv)'
  BY HStep, WStep
<1>3. HInv /\ WInv => EndIsWhole
  <2> SUFFICES ASSUME HInv, WInv, NEW r \in Requests, NEW e \in Ends, st[r][e].rd = "end"
               PROVE  \/ st[r][e].fate = "end" /\ st[r][e].got = st[r][e].sent
                      \/ st[r][e].fate = "gone" /\ st[r].kind = "CONNECT"
                      \/ e = "up" /\ st[r].shut
    BY DEF EndIsWhole
  <2>1. DirOK(st[r].up, Alive, Excuse(st[r])) /\ DirOK(st[r].down, Alive, st[r].kind)
        /\ st[r].kind \in {"plain", "CONNECT"}
    BY StreamFacts DEF HInv, WInv, Whole, Streams
  <2>2. CASE e = "up"
    BY <2>1, <2>2 DEF DirOK, Excuse
  <2>3. CASE e = "down"
    BY <2>1, <2>3 DEF DirOK
  <2> QED
    BY <2>2, <2>3 DEF Ends
<1> QED
  BY <1>1, <1>2, <1>3, PTL DEF Spec

\* Bdp::calculate: whatever is read and however fast, the estimate never
\* shrinks, and never exceeds BDP_LIMIT.
THEOREM WindowGrowsCorrect == Spec => WindowGrows
<1>1. HInv /\ [Next]_vars => [ping'.bdp >= ping.bdp /\ ping'.bdp <= BdpLimit]_vars
  <2> SUFFICES ASSUME HInv, [Next]_vars PROVE ping'.bdp >= ping.bdp /\ ping'.bdp <= BdpLimit
    OBVIOUS
  <2>1. PingStep
    BY HStep
  <2> QED
    BY <2>1, PingAssumption DEF PingStep, Pings
<1> QED
  BY <1>1, HAlways, PTL DEF Spec, WindowGrows

=============================================================================
