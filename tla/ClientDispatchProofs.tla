------------------------ MODULE ClientDispatchProofs ------------------------
(***************************************************************************)
(* Proofs about ClientDispatch, for any set of requests.  The inductive    *)
(* invariant is TypeOK /\ Custody /\ ReturnedUnstarted for the answers and *)
(* TypeOK /\ Custody /\ SendTokens for the bound on the queue.             *)
(***************************************************************************)
EXTENDS ClientDispatch, SequenceTheorems, TLAPS

\* What is read off a queue after its first element is taken.
LEMMA TailFacts ==
    ASSUME TypeOK, queue # <<>>
    PROVE  /\ Head(queue) \in Requests
           /\ Head(queue) = queue[1]
           /\ Tail(queue) \in Seq(Requests)
           /\ Len(Tail(queue)) = Len(queue) - 1
           /\ Len(queue) \in Nat \ {0}
           /\ \A i \in 1..Len(Tail(queue)) : Tail(queue)[i] = queue[i + 1]
BY HeadTailProperties, EmptySeq DEF TypeOK

\* What is read off a queue after an element is added.
LEMMA AppendFacts ==
    ASSUME TypeOK, NEW r \in Requests
    PROVE  /\ Append(queue, r) \in Seq(Requests)
           /\ Len(Append(queue, r)) = Len(queue) + 1
           /\ Len(queue) \in Nat
           /\ \A i \in 1..Len(queue) : Append(queue, r)[i] = queue[i]
           /\ Append(queue, r)[Len(queue) + 1] = r
BY AppendProperties, LenProperties DEF TypeOK

\* Every step keeps the types.
LEMMA DispatchTypeStep ==
    ASSUME TypeOK, [Next]_vars
    PROVE  TypeOK'
<1> USE DispatchAssumption
<1>1. CASE UNCHANGED vars
  BY <1>1 DEF TypeOK, vars
<1>2. ASSUME NEW r \in Requests, CanSend(r)
      PROVE  TypeOK'
  BY <1>2 DEF TypeOK, CanSend
<1>3. ASSUME NEW r \in Requests, NotReady(r)
      PROVE  TypeOK'
  BY <1>3 DEF TypeOK, NotReady, Answer, Results
<1>4. ASSUME NEW r \in Requests, DropPromise(r)
      PROVE  TypeOK'
  BY <1>4 DEF TypeOK, DropPromise
<1>5. CASE PushFails
  BY <1>5 DEF TypeOK, PushFails, Answer, Results
<1>6. CASE PushBegins
  BY <1>6 DEF TypeOK, PushBegins
<1>7. CASE PushEnds
  <2>1. sending \in Requests
    BY <1>7 DEF PushEnds, TypeOK
  <2> QED
    BY <1>7, <2>1, AppendFacts DEF TypeOK, PushEnds
<1>8. CASE DropSender
  BY <1>8, EmptySeq DEF TypeOK, DropSender, AnswerAll, Results
<1>9. CASE PollReady
  BY <1>9 DEF TypeOK, PollReady
<1>10. CASE PollMsg
  <2>1. Head(queue) \in Requests /\ Tail(queue) \in Seq(Requests)
    BY <1>10, TailFacts DEF PollMsg
  <2> QED
    BY <1>10, <2>1 DEF TypeOK, PollMsg, Phases, caller
<1>11. CASE PollMsgPending \/ Want \/ PollMsgClosed
  BY <1>11 DEF TypeOK, PollMsgPending, Want, PollMsgClosed, Phases, caller
<1>12. CASE RecvMsg \/ RecvErr
  BY <1>12 DEF TypeOK, RecvMsg, RecvErr, Answer, Phases, Results, caller
<1>13. CASE CallbackCanceled \/ BodyEnds \/ IdleEof
  BY <1>13 DEF TypeOK, CallbackCanceled, BodyEnds, IdleEof, Phases, caller
<1>14. CASE FailCancel \/ FailClose
  BY <1>14 DEF TypeOK, FailCancel, FailClose, Phases, caller
<1>15. CASE FailTryRecv
  <2>1. queue # <<>> => Head(queue) \in Requests /\ Tail(queue) \in Seq(Requests)
    BY TailFacts
  <2> QED
    BY <1>15, <2>1, SMTT(30) DEF TypeOK, FailTryRecv, Answer, Phases, Results, caller
<1>16. CASE DropConn
  BY <1>16 DEF TypeOK, DropConn, Answer, Phases, Results, caller
<1>17. CASE DropRx
  BY <1>17, EmptySeq DEF TypeOK, DropRx, AnswerAll, Phases, Results, caller
<1> QED
  BY <1>1, <1>2, <1>3, <1>4, <1>5, <1>6, <1>7, <1>8, <1>9, <1>10, <1>11, <1>12,
     <1>13, <1>14, <1>15, <1>16, <1>17
  DEF Next, Caller, Connection, Answering, Closing

\* Initially nothing is sent.
LEMMA DispatchInit ==
    ASSUME Init
    PROVE  TypeOK /\ Custody /\ ReturnedUnstarted /\ SendTokens
<1>1. TypeOK
  BY EmptySeq DEF Init, TypeOK, Phases, Results
<1>2. Len(queue) = 0
  BY EmptySeq DEF Init
<1>3. Custody
  BY <1>2, DispatchAssumption DEF Init, Custody, Queued
<1>4. ReturnedUnstarted /\ SendTokens
  BY <1>2 DEF Init, ReturnedUnstarted, SendTokens, InSend, Wanted, Wanting, Spare
<1> QED
  BY <1>1, <1>3, <1>4

\* Every step keeps track of where each unanswered request is.
LEMMA CustodyStep ==
    ASSUME TypeOK, TypeOK', Custody, ReturnedUnstarted, ~MayDropConn, [Next]_vars
    PROVE  Custody' /\ ReturnedUnstarted'
<1> USE DispatchAssumption DEF Custody, ReturnedUnstarted, Queued
<1>1. CASE UNCHANGED vars
  BY <1>1 DEF vars
<1>2. ASSUME NEW r \in Requests, CanSend(r)
      PROVE  Custody' /\ ReturnedUnstarted'
  BY <1>2 DEF TypeOK, CanSend
<1>3. ASSUME NEW r \in Requests, NotReady(r)
      PROVE  Custody' /\ ReturnedUnstarted'
  BY <1>3 DEF TypeOK, NotReady, Answer
<1>4. ASSUME NEW r \in Requests, DropPromise(r)
      PROVE  Custody' /\ ReturnedUnstarted'
  BY <1>4 DEF TypeOK, DropPromise
<1>5. CASE PushFails
  BY <1>5 DEF TypeOK, PushFails, Answer
<1>6. CASE PushBegins
  BY <1>6 DEF TypeOK, PushBegins
<1>7. CASE PushEnds
  <2>1. sending \in Requests
    BY <1>7 DEF PushEnds, TypeOK
  <2>2. /\ Len(queue') = Len(queue) + 1
        /\ \A i \in 1..Len(queue) : queue'[i] = queue[i]
        /\ queue'[Len(queue) + 1] = sending
        /\ Len(queue) \in Nat
    BY <1>7, <2>1, AppendFacts DEF PushEnds
  <2>3. Queued' = Queued \union {sending}
    BY <2>2
  <2>4. \A i, j \in 1..Len(queue') : queue'[i] = queue'[j] => i = j
    BY <2>1, <2>2, <1>7 DEF PushEnds
  <2> QED
    BY <1>7, <2>1, <2>3, <2>4 DEF TypeOK, PushEnds
<1>8. CASE DropSender
  BY <1>8, EmptySeq DEF TypeOK, DropSender, AnswerAll
<1>9. CASE PollReady
  BY <1>9 DEF TypeOK, PollReady
<1>10. ASSUME queue # <<>>, queue' = Tail(queue)
       PROVE  /\ Head(queue) \in Requests /\ Head(queue) \in Queued
              /\ Queued' \subseteq Queued \ {Head(queue)}
              /\ \A i, j \in 1..Len(queue') : queue'[i] = queue'[j] => i = j
  <2>1. /\ Head(queue) \in Requests
        /\ Head(queue) = queue[1]
        /\ Len(queue') = Len(queue) - 1
        /\ Len(queue) \in Nat \ {0}
        /\ \A i \in 1..Len(queue') : queue'[i] = queue[i + 1]
    BY <1>10, TailFacts
  <2> QED
    BY <2>1
<1>11. CASE PollMsg
  <2>1. /\ Head(queue) \in Requests /\ Head(queue) \in Queued
        /\ Queued' \subseteq Queued \ {Head(queue)}
        /\ \A i, j \in 1..Len(queue') : queue'[i] = queue'[j] => i = j
    BY <1>10, <1>11 DEF PollMsg
  <2> QED
    BY <1>11, <2>1 DEF TypeOK, PollMsg, caller
<1>12. CASE PollMsgPending \/ Want \/ PollMsgClosed
  BY <1>12 DEF TypeOK, PollMsgPending, Want, PollMsgClosed, caller
<1>13. CASE RecvMsg \/ RecvErr
  BY <1>13 DEF TypeOK, RecvMsg, RecvErr, Answer, caller
<1>14. CASE CallbackCanceled \/ BodyEnds \/ IdleEof
  BY <1>14 DEF TypeOK, CallbackCanceled, BodyEnds, IdleEof, caller
<1>15. CASE FailCancel \/ FailClose
  BY <1>15 DEF TypeOK, FailCancel, FailClose, caller
<1>16. CASE FailTryRecv
  <2>1. CASE queue = <<>>
    BY <1>16, <2>1 DEF TypeOK, FailTryRecv, caller
  <2>2. CASE queue # <<>>
    <3>1. /\ Head(queue) \in Requests /\ Head(queue) \in Queued
          /\ Queued' \subseteq Queued \ {Head(queue)}
          /\ \A i, j \in 1..Len(queue') : queue'[i] = queue'[j] => i = j
      BY <1>10, <1>16, <2>2 DEF FailTryRecv
    <3>2. /\ result' = [result EXCEPT ![Head(queue)] = "canceled"]
          /\ UNCHANGED <<callback, started, sending, promise, buffered>>
          /\ phase' = "closing" /\ callback = None
      BY <1>16, <2>2 DEF FailTryRecv, Answer, caller, TypeOK
    <3>3. /\ Head(queue) \notin started
          /\ promise[Head(queue)] # "unsent"
      BY <3>1
    <3>4. \A r \in Requests \ {Head(queue)} : result'[r] = result[r]
      BY <3>2 DEF TypeOK
    <3>5. Queued \subseteq Requests
      BY LenProperties, ElementOfSeq DEF TypeOK
    <3>6. \A r \in Queued' : result'[r] = "none" /\ r \notin started'
      BY <3>1, <3>2, <3>4, <3>5
    <3>7. \A r \in Requests : promise'[r] = "unsent" =>
            result'[r] = "none" /\ r \notin Queued' \union started' \union {callback'}
      BY <3>1, <3>2, <3>3, <3>4
    <3>8. ReturnedUnstarted'
      BY <3>2, <3>3, <3>4
    <3> QED
      BY <3>1, <3>2, <3>6, <3>7, <3>8
  <2> QED
    BY <2>1, <2>2
<1>17. CASE DropConn
  BY <1>17 DEF TypeOK, DropConn, Answer, caller
<1>18. CASE DropRx
  BY <1>18, EmptySeq DEF TypeOK, DropRx, AnswerAll, caller
<1> QED
  BY <1>1, <1>2, <1>3, <1>4, <1>5, <1>6, <1>7, <1>8, <1>9, <1>11, <1>12,
     <1>13, <1>14, <1>15, <1>16, <1>17, <1>18
  DEF Next, Caller, Connection, Answering, Closing

\* Of four tokens, two that exclude each other count for one.
LEMMA TokenSum ==
    \A n \in Nat : \A a, b, c, d \in 0..1 :
        n = 0 /\ (a = 0 \/ d = 0) => n + a + b + c + d <= 3
OBVIOUS

\* No step lets more be sent than is accounted for.
LEMMA TokensStep ==
    ASSUME TypeOK, TypeOK', Custody, SendTokens, [Next]_vars
    PROVE  SendTokens'
<1> DEFINE Kept == InSend' = InSend /\ Wanted' <= Wanted /\ Wanting' <= Wanting /\ Spare' = Spare
<1>0. Len(queue) \in Nat /\ Len(queue') \in Nat
  BY LenProperties DEF TypeOK
<1>1. /\ InSend \in 0..1 /\ Wanted \in 0..1 /\ Wanting \in 0..1 /\ Spare \in 0..1
      /\ InSend' \in 0..1 /\ Wanted' \in 0..1 /\ Wanting' \in 0..1 /\ Spare' \in 0..1
  BY DEF InSend, Wanted, Wanting, Spare
<1>2. ASSUME Kept, Len(queue') <= Len(queue)
      PROVE  SendTokens'
  BY <1>0, <1>1, <1>2 DEF SendTokens
<1> USE DEF InSend, Wanted, Wanting, Spare
<1>3. CASE UNCHANGED vars
  <2>1. Kept /\ queue' = queue
    BY <1>3 DEF vars
  <2> QED
    BY <1>0, <1>2, <2>1
<1>4. ASSUME NEW r \in Requests, CanSend(r)
      PROVE  SendTokens'
  <2>1. /\ InSend = 0 /\ Wanting' = Wanting /\ Spare' = 0 /\ queue' = queue
        /\ \/ Wanted = 1 /\ Wanted' = 0
           \/ Wanted' = Wanted /\ Spare = 1
    BY <1>4 DEF CanSend
  <2> HIDE DEF InSend, Wanted, Wanting, Spare
  <2> QED
    BY <1>0, <1>1, <2>1 DEF SendTokens
<1>5. ASSUME NEW r \in Requests, NotReady(r) \/ DropPromise(r)
      PROVE  SendTokens'
  <2>1. Kept /\ queue' = queue
    BY <1>5 DEF NotReady, DropPromise
  <2> QED
    BY <1>0, <1>2, <2>1
<1>6. CASE PollReady \/ PushBegins \/ PushFails
  <2>1. InSend' <= InSend /\ Wanted' = Wanted /\ Wanting' = Wanting /\ Spare' = Spare
    BY <1>6 DEF PollReady, PushBegins, PushFails
  <2>2. queue' = queue
    BY <1>6 DEF PollReady, PushBegins, PushFails
  <2> HIDE DEF InSend, Wanted, Wanting, Spare
  <2> QED
    BY <1>0, <1>1, <2>1, <2>2 DEF SendTokens
<1>7. CASE PushEnds
  <2>1. sending \in Requests
    BY <1>7 DEF PushEnds, TypeOK
  <2>2. Len(queue') = Len(queue) + 1
    BY <1>7, <2>1, AppendFacts DEF PushEnds
  <2>3. InSend = 1 /\ InSend' = 0 /\ Wanted' = Wanted /\ Wanting' = Wanting /\ Spare' = Spare
    BY <1>7 DEF PushEnds
  <2> HIDE DEF InSend, Wanted, Wanting, Spare
  <2> QED
    BY <1>0, <1>1, <2>2, <2>3 DEF SendTokens
<1>8. CASE DropSender \/ DropRx
  <2>1. Kept
    BY <1>8 DEF DropSender, DropRx, caller
  <2>2. queue' = queue \/ Len(queue') = 0
    BY <1>8, EmptySeq DEF DropSender, DropRx
  <2>3. Len(queue') <= Len(queue)
    BY <1>0, <2>2
  <2> QED
    BY <1>2, <2>1, <2>3
<1>9. CASE PollMsg \/ FailTryRecv
  <2>1. Kept
    BY <1>9 DEF PollMsg, FailTryRecv, caller
  <2>2. Len(queue') <= Len(queue)
    BY <1>0, <1>9, TailFacts DEF PollMsg, FailTryRecv
  <2> QED
    BY <1>2, <2>1, <2>2
<1>10. CASE PollMsgPending
  <2>1. Len(queue') = 0
    BY <1>10, EmptySeq DEF PollMsgPending
  <2>2. InSend' = 0 \/ Spare' = 0
    BY <1>10 DEF Custody, TypeOK, PollMsgPending, caller
  <2> HIDE DEF InSend, Wanted, Wanting, Spare
  <2>3. Len(queue') + InSend' + Wanted' + Wanting' + Spare' <= 3
    BY <1>0, <1>1, <2>1, <2>2, TokenSum, Zenon
  <2> QED
    BY <2>3 DEF SendTokens
<1>11. CASE Want
  <2>1. InSend' = InSend /\ Wanting = 1 /\ Wanting' = 0 /\ Spare' = Spare /\ queue' = queue
    BY <1>11 DEF Want, caller
  <2> HIDE DEF InSend, Wanted, Wanting, Spare
  <2> QED
    BY <1>0, <1>1, <2>1 DEF SendTokens
<1>12. CASE \/ PollMsgClosed \/ RecvMsg \/ RecvErr \/ CallbackCanceled \/ BodyEnds
            \/ IdleEof \/ FailCancel \/ FailClose \/ DropConn
  <2>1. Kept /\ queue' = queue
    BY <1>12 DEF PollMsgClosed, RecvMsg, RecvErr, CallbackCanceled, BodyEnds,
       IdleEof, FailCancel, FailClose, DropConn, caller
  <2> QED
    BY <1>0, <1>2, <2>1
<1> QED
  BY <1>3, <1>4, <1>5, <1>6, <1>7, <1>8, <1>9, <1>10, <1>11, <1>12
  DEF Next, Caller, Connection, Answering, Closing

\* A step answers only requests that have no answer, and sends none twice.
LEMMA AnswerStep ==
    ASSUME TypeOK, Custody, [Next]_vars
    PROVE  \A r \in Requests :
              /\ result[r] # "none" => result'[r] = result[r]
              /\ promise[r] # "unsent" => promise'[r] # "unsent"
<1> USE DispatchAssumption
<1>1. CASE UNCHANGED vars
  BY <1>1 DEF vars
<1>2. ASSUME NEW q \in Requests, CanSend(q) \/ NotReady(q) \/ DropPromise(q)
      PROVE  \A r \in Requests :
                /\ result[r] # "none" => result'[r] = result[r]
                /\ promise[r] # "unsent" => promise'[r] # "unsent"
  BY <1>2 DEF CanSend, NotReady, DropPromise, Answer, TypeOK, Custody
<1>3. CASE PollReady \/ PushFails \/ PushBegins \/ PushEnds
  BY <1>3 DEF PollReady, PushFails, PushBegins, PushEnds, Answer, TypeOK, Custody
<1>4. CASE DropSender \/ DropRx
  BY <1>4 DEF DropSender, DropRx, AnswerAll, Custody, caller
<1>5. CASE \/ PollMsg \/ PollMsgPending \/ Want \/ PollMsgClosed
           \/ CallbackCanceled \/ BodyEnds \/ IdleEof \/ FailCancel \/ FailClose
  BY <1>5 DEF PollMsg, PollMsgPending, Want, PollMsgClosed, CallbackCanceled,
     BodyEnds, IdleEof, FailCancel, FailClose, caller
<1>6. CASE RecvMsg \/ RecvErr \/ DropConn
  BY <1>6 DEF RecvMsg, RecvErr, DropConn, Answer, TypeOK, Custody, caller
<1>7. CASE FailTryRecv
  <2>1. CASE queue = <<>>
    BY <1>7, <2>1 DEF FailTryRecv, caller
  <2>2. CASE queue # <<>>
    <3>1. Head(queue) \in Requests /\ Head(queue) \in Queued
      BY <2>2, TailFacts DEF Queued
    <3>2. result[Head(queue)] = "none"
      BY <3>1 DEF Custody
    <3> QED
      BY <1>7, <2>2, <3>1, <3>2 DEF FailTryRecv, Answer, TypeOK, caller
  <2> QED
    BY <2>1, <2>2
<1> QED
  BY <1>1, <1>2, <1>3, <1>4, <1>5, <1>6, <1>7
  DEF Next, Caller, Connection, Answering, Closing

-----------------------------------------------------------------------------
\* A connection that runs to completion answers every promise it holds at
\* most once, returns only requests it has not started, and abandons none
\* whose caller waits (Client of proto/h1/dispatch.rs).
THEOREM AnswersCorrect ==
    ASSUME ~MayDropConn
    PROVE  Spec => [](TypeOK /\ Custody /\ ReturnedUnstarted)
<1>1. Init => TypeOK /\ Custody /\ ReturnedUnstarted
  BY DispatchInit
<1>2. TypeOK /\ Custody /\ ReturnedUnstarted /\ [Next]_vars
        => (TypeOK /\ Custody /\ ReturnedUnstarted)'
  BY DispatchTypeStep, CustodyStep
<1> QED
  BY <1>1, <1>2, PTL DEF Spec

\* The panic of client/conn.rs, "dispatch dropped without returning error",
\* is reached only if a Connection is dropped before it completes.
THEOREM NeverUnansweredCorrect ==
    ASSUME ~MayDropConn
    PROVE  Spec => []NeverUnanswered
<1> DEFINE Inv == TypeOK /\ Custody /\ ReturnedUnstarted
<1>1. Init => NeverUnanswered
  BY DEF Init, NeverUnanswered
<1>2. Inv /\ NeverUnanswered /\ [Next]_vars => NeverUnanswered'
  <2> SUFFICES ASSUME Inv, NeverUnanswered, [Next]_vars,
                      NEW r \in Requests, promise'[r] = "live", result'[r] = "lost"
               PROVE  FALSE
    BY DEF NeverUnanswered
  <2> USE DispatchAssumption DEF NeverUnanswered, TypeOK
  <2>1. CASE DropConn
    BY <2>1 DEF DropConn, Answer, Custody, caller
  <2>2. CASE UNCHANGED vars
    BY <2>2 DEF vars
  <2>3. ASSUME NEW q \in Requests, CanSend(q) \/ NotReady(q) \/ DropPromise(q)
        PROVE  FALSE
    BY <2>3 DEF CanSend, NotReady, DropPromise, Answer, Custody
  <2>4. CASE PollReady \/ PushFails \/ PushBegins \/ PushEnds
    BY <2>4 DEF PollReady, PushFails, PushBegins, PushEnds, Answer, Custody
  <2>5. CASE DropSender \/ DropRx
    BY <2>5 DEF DropSender, DropRx, AnswerAll, caller
  <2>6. CASE \/ PollMsg \/ PollMsgPending \/ Want \/ PollMsgClosed
             \/ CallbackCanceled \/ BodyEnds \/ IdleEof \/ FailCancel \/ FailClose
    BY <2>6 DEF PollMsg, PollMsgPending, Want, PollMsgClosed, CallbackCanceled,
       BodyEnds, IdleEof, FailCancel, FailClose, caller
  <2>7. CASE RecvMsg \/ RecvErr \/ FailTryRecv
    BY <2>7 DEF RecvMsg, RecvErr, FailTryRecv, Answer, caller
  <2> QED
    BY <2>1, <2>2, <2>3, <2>4, <2>5, <2>6, <2>7
    DEF Next, Caller, Connection, Answering, Closing
<1>3. Spec => []Inv
  BY AnswersCorrect
<1> QED
  BY <1>1, <1>2, <1>3, PTL DEF Spec

\* Every promise is resolved at most once.
THEOREM AnswerFinalCorrect ==
    ASSUME ~MayDropConn
    PROVE  Spec => AnswerFinal
<1>1. TypeOK /\ Custody /\ [Next]_vars
        => [\A r \in Requests :
              /\ result[r] # "none" => result'[r] = result[r]
              /\ promise[r] # "unsent" => promise'[r] # "unsent"]_vars
  BY AnswerStep
<1> QED
  BY <1>1, AnswersCorrect, PTL DEF Spec, AnswerFinal

\* The unbounded channel never holds more than three requests (Sender of
\* client/dispatch.rs).
THEOREM QueueBoundedCorrect ==
    ASSUME ~MayDropConn
    PROVE  Spec => []QueueBounded
<1> DEFINE Inv == TypeOK /\ Custody /\ ReturnedUnstarted
<1>1. Init => SendTokens
  BY DispatchInit
<1>2. Inv /\ Inv' /\ SendTokens /\ [Next]_vars => SendTokens'
  BY TokensStep
<1>3. TypeOK /\ SendTokens => QueueBounded
  <2> SUFFICES ASSUME TypeOK, SendTokens
               PROVE  QueueBounded
    OBVIOUS
  <2>1. Len(queue) \in Nat
    BY LenProperties DEF TypeOK
  <2>2. InSend \in 0..1 /\ Wanted \in 0..1 /\ Wanting \in 0..1 /\ Spare \in 0..1
    BY DEF InSend, Wanted, Wanting, Spare
  <2>3. Len(queue) + InSend <= 3
    BY <2>1, <2>2 DEF SendTokens
  <2> QED
    BY <2>3 DEF QueueBounded, InSend
<1>4. Spec => []Inv
  BY AnswersCorrect
<1> QED
  BY <1>1, <1>2, <1>3, <1>4, PTL DEF Spec

\* What is queued, being sent or may still be sent is accounted for by the want
\* signal and buffered_once, three at most.
THEOREM SendTokensCorrect ==
    ASSUME ~MayDropConn
    PROVE  Spec => []SendTokens
<1> DEFINE Inv == TypeOK /\ Custody /\ ReturnedUnstarted
<1>1. Init => SendTokens
  BY DispatchInit
<1>2. Inv /\ Inv' /\ SendTokens /\ [Next]_vars => SendTokens'
  BY TokensStep
<1>3. Spec => []Inv
  BY AnswersCorrect
<1> QED
  BY <1>1, <1>2, <1>3, PTL DEF Spec

\* A request that is given back was never started.
THEOREM ReturnedUnstartedCorrect ==
    ASSUME ~MayDropConn
    PROVE  Spec => []ReturnedUnstarted
BY AnswersCorrect, PTL

=============================================================================
