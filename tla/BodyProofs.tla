----------------------------- MODULE BodyProofs ------------------------------
(***************************************************************************)
(* Proofs about BodyChannel, for bodies of any length and chunks of any    *)
(* size: it implements BodyStream, holds at most two items, and keeps the  *)
(* promises of the want signal and of the delayed end.                     *)
(***************************************************************************)
EXTENDS BodyChannel, SequenceTheorems, TLAPS

------------------------------------------------------------------------------
(* The inductive invariant.                                                  *)

\* The types the argument needs; chunks are never empty, so that 0 is free to
\* stand for an error.
Typed ==
    /\ parked \in BOOLEAN
    /\ delay \in Delays
    /\ queue \in Seq(Sizes \cup {0})
    /\ want \in {"PENDING", "READY", "CLOSED"}
    /\ sent \in Seq(Sizes) /\ got \in Seq(Sizes)
    /\ fate \in {"open", "clean", "cut", "error"}
    /\ outcome \in {"none", "end", "error"}

\* The sender: its end decides the fate, its slot bounds the queue, and it goes on
\* to the channel only when it was wanted.
SenderInv ==
    /\ fate = "open" <=> tx # "gone"
    /\ tx = "ready" => ~parked
    /\ tx # "gone" => Len(queue) <= 1 /\ (~parked => queue = <<>>)
    /\ Len(queue) <= 2
    /\ tx \in {"wanted", "ready"} => want # "PENDING"

\* The reader polls the channel only before it was told the outcome, and has seen
\* the end when it waits for the delay.
ReaderInv ==
    /\ rx \in {"waking", "polling"} => outcome = "none" /\ delay # "Eof"
    /\ delay = "Eof" => tx = "gone" /\ queue = <<>>
    /\ outcome # "none" => delay = "none"

\* The number of chunks in the queue: an error stands behind them.
Chunks == IF fate = "error" THEN Len(queue) - 1 ELSE Len(queue)

\* What is in the queue is what was sent and not received yet, and an error when
\* the sender reported one.
QueueInv ==
    Open /\ outcome = "none" =>
        /\ Len(sent) = Len(got) + Chunks
        /\ \A i \in 1 .. Chunks : queue[i] = sent[Len(got) + i]
        /\ fate = "error" => queue # <<>> /\ queue[Len(queue)] = 0

IInv == Typed /\ SenderInv /\ ReaderInv /\ QueueInv

\* The initial states satisfy the invariant.
LEMMA InitInv == Init => IInv
<1> SUFFICES ASSUME Init PROVE IInv
  OBVIOUS
<1>1. Typed
  <2>1. queue \in Seq(Sizes \cup {0}) /\ sent \in Seq(Sizes) /\ got \in Seq(Sizes)
    BY DEF Init
  <2>2. want \in {"PENDING", "READY", "CLOSED"}
    BY Zenon DEF Init
  <2>3. delay \in Delays
    BY DEF Init, Delays, DelayedEof
  <2> QED
    BY <2>1, <2>2, <2>3 DEF Init, Typed
<1>2. SenderInv
  BY DEF Init, SenderInv
<1>3. ReaderInv
  BY DEF Init, ReaderInv, DelayedEof
<1>4. QueueInv
  BY DEF Init, QueueInv, Chunks
<1> QED
  BY <1>1, <1>2, <1>3, <1>4 DEF IInv

------------------------------------------------------------------------------
(* Steps that touch neither the queue nor the history.                       *)

\* What the chunk argument depends on.
data == <<queue, parked, sent, fate, got, outcome>>

\* Steps of the sender that only change where it is preserve the invariant.
LEMMA SenderMoves ==
  ASSUME IInv, UNCHANGED <<data, delay, rx, want>>, tx # "gone", tx' # "gone",
         tx' = "ready" => ~parked,
         tx' \in {"wanted", "ready"} => want # "PENDING"
  PROVE  IInv'
<1>1. Typed'
  BY DEF IInv, Typed, data
<1>2. SenderInv'
  BY DEF IInv, SenderInv, data
<1>3. ReaderInv'
  BY DEF IInv, ReaderInv, data
<1>4. QueueInv'
  BY DEF IInv, QueueInv, Chunks, Open, data
<1> QED
  BY <1>1, <1>2, <1>3, <1>4 DEF IInv

\* Steps of the reader that only change where it is preserve the invariant.
LEMMA ReaderMoves ==
  ASSUME IInv, UNCHANGED <<data, tx>>, Open, delay' \in Delays,
         want' \in {want, "READY", "CLOSED"},
         rx' \in {"waking", "polling"} => outcome = "none" /\ delay' # "Eof",
         delay' = "Eof" => tx = "gone" /\ queue = <<>>,
         delay' \in {delay, "none"} \/ outcome = "none"
  PROVE  IInv'
<1>1. Typed'
  BY DEF IInv, Typed, data
<1>2. SenderInv'
  BY DEF IInv, SenderInv, data
<1>3. ReaderInv'
  BY DEF IInv, ReaderInv, data
<1>4. QueueInv'
  BY DEF IInv, QueueInv, Chunks, Open, data
<1> QED
  BY <1>1, <1>2, <1>3, <1>4 DEF IInv

------------------------------------------------------------------------------
(* Steps that change the queue.                                              *)

\* A chunk: the slot was free, so that it is the only item of the queue.
LEMMA SendDataStep ==
  ASSUME IInv, SendData
  PROVE  IInv' /\ Stream!Next
<1> USE BodyAssumption
<1>1. tx # "gone" /\ fate = "open" /\ queue = <<>> /\ Open /\ parked = FALSE
  BY DEF SendData, IInv, SenderInv
<1>2. PICK n \in Sizes : queue' = Append(queue, n) /\ sent' = Append(sent, n)
                         /\ parked' = TRUE /\ want' = want
  BY DEF SendData, TrySend
<1>3. tx' = "idle" /\ UNCHANGED <<delay, rx, fate, got, outcome>>
  BY DEF SendData
<1>4. n \in Nat \ {0} /\ sent \in Seq(Sizes) /\ got \in Seq(Sizes)
  BY <1>2 DEF BodyAssumption, IInv, Typed
<1>5. queue' = <<n>> /\ Len(queue') = 1
  BY <1>1, <1>2, <1>4
<1>6. Typed'
  <2>1. queue' \in Seq(Sizes \cup {0})
    BY <1>5, <1>2
  <2>2. sent' \in Seq(Sizes)
    BY <1>2, <1>4
  <2> QED
    BY <2>1, <2>2, <1>2, <1>3 DEF IInv, Typed
<1>7. SenderInv'
  BY <1>1, <1>2, <1>3, <1>5 DEF IInv, SenderInv
<1>8. ReaderInv'
  BY <1>1, <1>3 DEF IInv, ReaderInv
<1>9. QueueInv'
  <2> SUFFICES ASSUME outcome = "none"
               PROVE  /\ Len(sent') = Len(got) + 1
                      /\ \A i \in 1 .. 1 : queue'[i] = sent'[Len(got) + i]
    BY <1>1, <1>3, <1>5 DEF QueueInv, Chunks
  <2>1. Len(sent) = Len(got)
    BY <1>1, <1>4 DEF IInv, QueueInv, Chunks
  <2>2. Len(sent') = Len(sent) + 1 /\ sent'[Len(sent) + 1] = n
    BY <1>2, <1>4
  <2> QED
    BY <2>1, <2>2, <1>5
<1>10. Stream!Send
  BY <1>1, <1>2, <1>3 DEF Stream!Send
<1> QED
  BY <1>6, <1>7, <1>8, <1>9, <1>10 DEF IInv, Stream!Next

\* The Sender goes without an error: what is queued stays as it is.
LEMMA DropSenderStep ==
  ASSUME IInv, DropSender
  PROVE  IInv' /\ Stream!Next
<1>1. tx # "gone" /\ fate = "open"
  BY DEF DropSender, Finished, CutOff, IInv, SenderInv
<1>2. tx' = "gone" /\ fate' \in {"clean", "cut"} /\ UNCHANGED <<queue, parked, want, delay, rx, sent, got, outcome>>
  BY DEF DropSender, channel
<1>3. Typed'
  BY <1>2 DEF IInv, Typed
<1>4. SenderInv'
  BY <1>2 DEF IInv, SenderInv
<1>5. ReaderInv'
  BY <1>2 DEF IInv, ReaderInv
<1>6. QueueInv'
  BY <1>1, <1>2 DEF IInv, QueueInv, Chunks, Open
<1>7. Stream!Finish
  BY <1>1, <1>2 DEF Stream!Finish
<1> QED
  BY <1>3, <1>4, <1>5, <1>6, <1>7 DEF IInv, Stream!Next

\* The Sender goes with an error, which stands behind what is queued; it is lost
\* only where the receiver is gone.
LEMMA ErrorStep ==
  ASSUME IInv, SendError \/ Abort
  PROVE  IInv' /\ Stream!Next
<1>1. tx # "gone" /\ fate = "open" /\ Len(queue) <= 1 /\ queue \in Seq(Sizes \cup {0})
  BY DEF SendError, Abort, IInv, SenderInv, Typed
<1>2. tx' = "gone" /\ fate' = "error" /\ UNCHANGED <<delay, rx, sent, got, outcome>>
  BY DEF SendError, Abort
<1>3. CASE Open
  <2>1. queue' = Append(queue, 0) /\ parked' = TRUE /\ want' = want
    BY <1>3 DEF SendError, Abort, TrySend, IInv, SenderInv
  <2>2. Len(queue') = Len(queue) + 1 /\ queue'[Len(queue) + 1] = 0
        /\ (\A i \in 1 .. Len(queue) : queue'[i] = queue[i]) /\ queue' # <<>>
    BY <1>1, <2>1
  <2>3. Typed'
    <3>1. queue' \in Seq(Sizes \cup {0})
      BY <1>1, <2>1
    <3> QED
      BY <3>1, <1>2, <2>1 DEF IInv, Typed
  <2>4. SenderInv'
    BY <1>1, <1>2, <2>1, <2>2 DEF IInv, SenderInv
  <2>5. ReaderInv'
    BY <1>1, <1>2 DEF IInv, ReaderInv
  <2>6. QueueInv'
    <3> SUFFICES ASSUME outcome = "none"
                 PROVE  /\ Len(sent) = Len(got) + Len(queue)
                        /\ \A i \in 1 .. Len(queue) : queue'[i] = sent[Len(got) + i]
      BY <1>1, <1>2, <2>2 DEF QueueInv, Chunks
    <3> QED
      BY <1>1, <1>3, <2>2 DEF IInv, QueueInv, Chunks
  <2> QED
    BY <2>3, <2>4, <2>5, <2>6, <1>1, <1>2 DEF IInv, Stream!Next, Stream!Finish
<1>4. CASE ~Open
  <2>1. UNCHANGED <<queue, parked, want>>
    BY <1>4 DEF SendError, Abort, channel
  <2>2. Typed' /\ SenderInv' /\ ReaderInv' /\ QueueInv'
    BY <1>2, <1>4, <2>1 DEF IInv, Typed, SenderInv, ReaderInv, QueueInv, Open
  <2> QED
    BY <2>2, <1>1, <1>2 DEF IInv, Stream!Next, Stream!Finish
<1> QED
  BY <1>3, <1>4

\* An item is taken: a chunk is the next one that was sent, and an error comes
\* after all of them.
LEMMA PopChunkStep ==
  ASSUME IInv, PopChunk
  PROVE  IInv' /\ Stream!Next
<1> USE BodyAssumption
<1>1. rx = "polling" /\ Open /\ outcome = "none" /\ delay # "Eof"
  BY DEF PopChunk, IInv, ReaderInv, Open
<1>2. queue \in Seq(Sizes \cup {0}) /\ queue # <<>> /\ Len(queue) \in {1, 2}
  <2>1. queue \in Seq(Sizes \cup {0}) /\ queue # <<>> /\ Len(queue) <= 2
    BY DEF PopChunk, IInv, Typed, SenderInv
  <2>2. Len(queue) \in Nat /\ Len(queue) # 0
    BY <2>1, EmptySeq
  <2>3. \A n \in Nat : n # 0 /\ n <= 2 => n \in {1, 2}
    OBVIOUS
  <2> QED
    BY <2>1, <2>2, <2>3, Zenon
<1>3. queue' = Tail(queue) /\ parked' = FALSE /\ rx' = "idle"
      /\ UNCHANGED <<want, tx, sent, fate>>
  BY DEF PopChunk
<1>4. Len(queue') = Len(queue) - 1 /\ queue' \in Seq(Sizes \cup {0})
      /\ (\A i \in 1 .. Len(queue) - 1 : queue'[i] = queue[i + 1]) /\ Head(queue) = queue[1]
  BY <1>2, <1>3
<1>5. Len(sent) = Len(got) + Chunks /\ sent \in Seq(Sizes) /\ got \in Seq(Sizes)
  BY <1>1 DEF IInv, QueueInv, Typed
<1>6. SenderInv'
  BY <1>2, <1>3, <1>4 DEF IInv, SenderInv
<1>7. CASE queue[1] = 0
  <2>1. outcome' = "error" /\ delay' = "none" /\ got' = got
    BY <1>4, <1>7 DEF PopChunk
  <2>2. fate = "error" /\ Chunks = 0
    <3>1. \A j \in 1 .. Len(sent) : sent[j] # 0
      BY <1>5 DEF BodyAssumption
    <3>2. ASSUME Chunks >= 1 PROVE FALSE
      <4>1. queue[1] = sent[Len(got) + 1]
        BY <1>1, <1>2, <3>2 DEF IInv, QueueInv, Chunks
      <4>2. Len(got) + 1 \in 1 .. Len(sent)
        <5>1. Len(got) \in Nat /\ Chunks \in Int
          BY <1>2, <1>5 DEF Chunks
        <5> QED
          BY <5>1, <1>5, <3>2
      <4> QED
        BY <3>1, <4>1, <4>2, <1>7
    <3> QED
      BY <3>2, <1>2 DEF Chunks
  <2>3. Typed'
    BY <1>3, <1>4, <2>1 DEF IInv, Typed, Delays
  <2>4. ReaderInv' /\ QueueInv'
    BY <1>3, <2>1 DEF ReaderInv, QueueInv
  <2>5. Stream!Conclude
    BY <1>1, <1>3, <1>5, <2>1, <2>2 DEF Stream!Conclude
  <2> QED
    BY <1>6, <2>3, <2>4, <2>5 DEF IInv, Stream!Next
<1>8. CASE queue[1] # 0
  <2>1. got' = Append(got, queue[1]) /\ UNCHANGED <<delay, outcome>>
    BY <1>4, <1>8 DEF PopChunk
  <2>2. Chunks >= 1
    <3>1. CASE fate = "error"
      BY <3>1, <1>1, <1>2, <1>8 DEF IInv, QueueInv, Chunks
    <3>2. CASE fate # "error"
      BY <3>2, <1>2 DEF Chunks
    <3> QED
      BY <3>1, <3>2
  <2>3. queue[1] = sent[Len(got) + 1] /\ Chunks \in Nat
    BY <1>1, <1>2, <2>2 DEF IInv, QueueInv, Chunks
  <2>4. Len(got) < Len(sent) /\ sent[Len(got) + 1] \in Sizes
    BY <1>5, <2>2, <2>3
  <2>5. got' \in Seq(Sizes) /\ Len(got') = Len(got) + 1
    BY <1>5, <2>1, <2>3, <2>4
  <2>6. Typed'
    BY <1>3, <1>4, <2>1, <2>5 DEF IInv, Typed
  <2>7. ReaderInv'
    BY <1>1, <1>3, <2>1 DEF ReaderInv
  <2>8. QueueInv'
    <3>1. Chunks' = Chunks - 1
      BY <1>2, <1>3, <1>4 DEF Chunks
    <3>2. Len(sent') = Len(got') + Chunks'
      BY <1>3, <1>5, <2>3, <2>5, <3>1
    <3>3. \A i \in 1 .. Chunks' : queue'[i] = sent'[Len(got') + i]
      <4> TAKE i \in 1 .. Chunks'
      <4>1. i + 1 \in 1 .. Chunks /\ i \in 1 .. Len(queue) - 1
        BY <1>2, <2>3, <3>1 DEF Chunks
      <4>2. queue[i + 1] = sent[Len(got) + (i + 1)]
        BY <4>1, <1>1 DEF IInv, QueueInv
      <4>3. Len(got) + (i + 1) = Len(got') + i
        BY <1>5, <2>5, <4>1
      <4> QED
        BY <4>1, <4>2, <4>3, <1>3, <1>4
    <3>4. fate' = "error" => queue' # <<>> /\ queue'[Len(queue')] = 0
      BY <1>1, <1>2, <1>3, <1>4, <2>2 DEF IInv, QueueInv, Chunks
    <3> QED
      BY <3>2, <3>3, <3>4 DEF QueueInv
  <2>9. Stream!Receive
    BY <1>1, <1>3, <2>1, <2>3, <2>4 DEF Stream!Receive
  <2> QED
    BY <1>6, <2>6, <2>7, <2>8, <2>9 DEF IInv, Stream!Next
<1> QED
  BY <1>7, <1>8

\* The closed channel is empty only when every chunk was received and no error
\* was reported: the end the reader is told, now or after the delay, is true.
LEMMA EndIsTrue ==
  ASSUME IInv, Open, outcome = "none", tx = "gone", queue = <<>>
  PROVE  fate \in {"clean", "cut"} /\ Len(got) = Len(sent)
<1>1. fate \in {"clean", "cut"}
  BY DEF IInv, SenderInv, QueueInv, Typed
<1>2. Chunks = 0
  BY <1>1 DEF Chunks
<1> QED
  BY <1>1, <1>2 DEF IInv, QueueInv, Typed

\* A step that tells the reader the end preserves the invariant.
LEMMA EndStep ==
  ASSUME IInv, Open, outcome = "none", tx = "gone", queue = <<>>,
         outcome' = "end", delay' = "none", rx' = "idle",
         UNCHANGED <<queue, parked, want, tx, sent, fate, got>>
  PROVE  IInv' /\ Stream!Next
<1>1. Typed' /\ SenderInv' /\ ReaderInv' /\ QueueInv'
  BY DEF IInv, Typed, SenderInv, ReaderInv, QueueInv, Delays
<1>2. Stream!Conclude
  BY EndIsTrue DEF Stream!Conclude
<1> QED
  BY <1>1, <1>2 DEF IInv, Stream!Next

\* The receiver closes: from here on nothing is promised.
LEMMA CloseChannelStep ==
  ASSUME IInv, CloseChannel
  PROVE  IInv' /\ UNCHANGED Stream!vars
<1>1. rx' = "gone" /\ queue' = <<>> /\ parked' = FALSE
      /\ UNCHANGED <<want, delay, tx, sent, fate, got, outcome>>
  BY DEF CloseChannel, history
<1>2. Typed'
  <2>1. queue' \in Seq(Sizes \cup {0})
    BY <1>1
  <2> QED
    BY <1>1, <2>1 DEF IInv, Typed
<1>3. SenderInv' /\ ReaderInv' /\ QueueInv'
  BY <1>1 DEF IInv, SenderInv, ReaderInv, QueueInv, Open
<1> QED
  BY <1>1, <1>2, <1>3 DEF IInv, Stream!vars

------------------------------------------------------------------------------
(* The invariant, the refinement and the other theorems.                     *)

\* Every step preserves the invariant and is a step of BodyStream or leaves it
\* alone.
LEMMA StepInv == IInv /\ [Next]_vars => IInv' /\ [Stream!Next]_(Stream!vars)
<1> SUFFICES ASSUME IInv, [Next]_vars PROVE IInv' /\ [Stream!Next]_(Stream!vars)
  OBVIOUS
<1> USE DEF channel, reader, history
<1>1. CASE PollReady
  BY <1>1, SenderMoves DEF PollReady, data, Stream!vars
<1>2. CASE LoadWant
  <2>1. tx' \in {"wanted", "ready"} => want # "PENDING" /\ tx' = "wanted"
    BY <1>2 DEF LoadWant, IInv, Typed
  <2>2. tx' # "gone"
    BY <1>2 DEF LoadWant, IInv, Typed
  <2> QED
    BY <1>2, <2>1, <2>2, SenderMoves DEF LoadWant, data, Stream!vars
<1>3. CASE PollCapacity
  <2>1. want # "PENDING"
    BY <1>3 DEF PollCapacity, IInv, SenderInv
  <2> QED
    BY <1>3, <2>1, SenderMoves DEF PollCapacity, data, Stream!vars
<1>4. CASE SendRefused \/ SendCanceled \/ ReadPending
  BY <1>4, SenderMoves DEF SendRefused, SendCanceled, ReadPending, data, Stream!vars
<1>5. CASE SendTrailers
  BY <1>5, SenderMoves DEF SendTrailers, data, Stream!vars
<1>6. CASE PollData
  <2>1. delay' = delay /\ Open /\ delay \in Delays /\ want' = "READY" /\ UNCHANGED <<data, tx>>
    BY <1>6 DEF PollData, RxRuns, Open, IInv, Typed, data
  <2>2. outcome = "none" /\ delay # "Eof"
    BY <1>6 DEF PollData
  <2> QED
    BY <2>1, <2>2, ReaderMoves DEF data, Stream!vars
<1>7. CASE WakeWanted
  <2>1. delay' = delay /\ Open /\ delay \in Delays /\ want' = want /\ UNCHANGED <<data, tx>>
    BY <1>7 DEF WakeWanted, Open, IInv, Typed, data
  <2>2. rx' = "polling" => rx = "waking"
    BY <1>7 DEF WakeWanted
  <2>3. rx' \in {"polling", "closing"}
    BY <1>7 DEF WakeWanted
  <2>4. delay = "Eof" => tx = "gone" /\ queue = <<>>
    BY DEF IInv, ReaderInv
  <2>5. rx = "waking" => outcome = "none" /\ delay # "Eof"
    BY DEF IInv, ReaderInv
  <2> QED
    BY <2>1, <2>2, <2>3, <2>4, <2>5, ReaderMoves DEF data, Stream!vars
<1>8. CASE PopPending
  <2>1. delay' = delay /\ Open /\ delay \in Delays /\ want' = want /\ UNCHANGED <<data, tx>>
        /\ rx' = "asleep"
    BY <1>8 DEF PopPending, Open, IInv, Typed, data
  <2>2. delay = "Eof" => tx = "gone" /\ queue = <<>>
    BY DEF IInv, ReaderInv
  <2> QED
    BY <2>1, <2>2, ReaderMoves DEF data, Stream!vars
<1>9. CASE PopEnd
  <2>1. Open /\ outcome = "none" /\ tx = "gone" /\ queue = <<>>
        /\ UNCHANGED <<queue, parked, want, tx, sent, fate, got>>
    BY <1>9 DEF PopEnd, Open, IInv, ReaderInv
  <2>2. CASE delay = "NotEof" /\ ~idle
    <3>1. delay' = "Eof" /\ rx' = "delayed" /\ outcome' = outcome
      BY <1>9, <2>2 DEF PopEnd
    <3> QED
      BY <2>1, <3>1, ReaderMoves DEF data, Delays, Stream!vars
  <2>3. CASE ~(delay = "NotEof" /\ ~idle)
    <3>1. outcome' = "end" /\ delay' = "none" /\ rx' = "idle"
      BY <1>9, <2>3 DEF PopEnd
    <3> QED
      BY <2>1, <3>1, EndStep
  <2> QED
    BY <2>2, <2>3
<1>10. CASE PollEof
  <2>1. Open /\ outcome = "none" /\ tx = "gone" /\ queue = <<>> /\ delay = "Eof"
        /\ UNCHANGED <<queue, parked, want, tx, sent, fate, got>>
    BY <1>10 DEF PollEof, RxRuns, Open, IInv, ReaderInv
  <2>2. CASE idle
    <3>1. outcome' = "end" /\ delay' = "none" /\ rx' = "idle"
      BY <1>10, <2>2 DEF PollEof
    <3> QED
      BY <2>1, <3>1, EndStep
  <2>3. CASE ~idle
    <3>1. delay' = delay /\ rx' = "delayed" /\ outcome' = outcome
      BY <1>10, <2>3 DEF PollEof
    <3> QED
      BY <2>1, <3>1, ReaderMoves DEF data, Delays, Stream!vars
  <2> QED
    BY <2>2, <2>3
<1>11. CASE PollTrailers
  <2>1. delay' = delay /\ Open /\ delay \in Delays /\ want' = want /\ UNCHANGED <<data, tx>>
        /\ rx' \in {"idle", "asleep"}
    BY <1>11 DEF PollTrailers, RxRuns, Open, IInv, Typed, data
  <2>2. delay = "Eof" => tx = "gone" /\ queue = <<>>
    BY DEF IInv, ReaderInv
  <2> QED
    BY <2>1, <2>2, ReaderMoves DEF data, Stream!vars
<1>12. CASE DropBody
  <2>1. delay' = "none" /\ Open /\ want' = "CLOSED" /\ UNCHANGED <<data, tx>>
        /\ rx' \in {"closing", "closed"}
    BY <1>12 DEF DropBody, Open, data
  <2> QED
    BY <2>1, ReaderMoves DEF data, Delays, Stream!vars
<1>13. CASE BackInPool
  <2>1. UNCHANGED <<data, delay, rx, want, tx>>
    BY <1>13 DEF BackInPool, data
  <2>2. Typed' /\ SenderInv' /\ ReaderInv' /\ QueueInv'
    BY <2>1 DEF IInv, Typed, SenderInv, ReaderInv, QueueInv, Chunks, Open, data
  <2> QED
    BY <2>1, <2>2 DEF IInv, data, Stream!vars
<1>14. CASE UNCHANGED vars
  <2>1. UNCHANGED <<data, delay, rx, want, tx>>
    BY <1>14 DEF vars, data
  <2>2. Typed' /\ SenderInv' /\ ReaderInv' /\ QueueInv'
    BY <2>1 DEF IInv, Typed, SenderInv, ReaderInv, QueueInv, Chunks, Open, data
  <2> QED
    BY <2>1, <2>2 DEF IInv, data, Stream!vars
<1>15. CASE SendData \/ SendError \/ Abort \/ DropSender \/ PopChunk \/ CloseChannel
  BY <1>15, SendDataStep, ErrorStep, DropSenderStep, PopChunkStep, CloseChannelStep, Zenon
<1> QED
  BY <1>1, <1>2, <1>3, <1>4, <1>5, <1>6, <1>7, <1>8, <1>9, <1>10, <1>11, <1>12,
     <1>13, <1>14, <1>15 DEF Next, SenderSteps, ReaderSteps

\* A body is what BodyStream promises (body.rs Sender, Body::poll_inner): chunks in
\* order and once each, then the error the sender reported or, if it reported none,
\* an end.
THEOREM ImplementsCorrect == Spec => Implements
<1>1. Init => Stream!Init
  BY DEF Init, Stream!Init
<1>2. QED
  BY <1>1, InitInv, StepInv, PTL DEF Spec, Implements, Stream!Spec

\* The invariant holds in every reachable state.
LEMMA InvAlways == Spec => []IInv
BY InitInv, StepInv, PTL DEF Spec

\* The values IInv says nothing about.
OtherTypes ==
    /\ conn \in BOOLEAN /\ idle \in BOOLEAN
    /\ len \in 0 .. U64Max /\ wire \in 0 .. U64Max
    /\ trailers \in {"none", "sent", "taken"}
    /\ tx \in {"idle", "loading", "wanted", "asleep", "ready", "refused", "gone"}
    /\ rx \in {"idle", "waking", "polling", "asleep", "delayed", "closed", "closing", "gone"}
    /\ txWakers \subseteq {"want", "slot"}
    /\ rxWakers \subseteq {"data", "trailers", "delay"}
    /\ woken \subseteq {"tx", "rx"}

\* DecodedLength::sub_if stays within u64.
LEMMA SubIfType ==
  ASSUME NEW l \in 0 .. U64Max, NEW n \in Nat
  PROVE  SubIf(l, n) \in 0 .. U64Max
BY BodyAssumption DEF SubIf, BodyAssumption

\* Every step keeps the other values in their types.
LEMMA StepTypes == IInv /\ OtherTypes /\ [Next]_vars => OtherTypes'
<1> SUFFICES ASSUME IInv, OtherTypes, [Next]_vars PROVE OtherTypes'
  OBVIOUS
<1> USE DEF OtherTypes, channel, reader, history, WakeTx, WakeRx, TrySend
<1>1. CASE SenderSteps
  <2>1. want \in {"PENDING", "READY", "CLOSED"}
    BY DEF IInv, Typed
  <2> QED
    BY <1>1, <2>1 DEF SenderSteps, PollReady, LoadWant, PollCapacity
<1>2. CASE SendData
  <2>1. PICK n \in Sizes : wire' = SubIf(wire, n)
    BY <1>2 DEF SendData
  <2>2. wire' \in 0 .. U64Max
    BY <2>1, SubIfType, BodyAssumption DEF BodyAssumption
  <2> QED
    BY <1>2, <2>2 DEF SendData
<1>3. CASE SendRefused \/ SendCanceled \/ ReadPending \/ SendError \/ Abort \/ SendTrailers \/ DropSender
  BY <1>3 DEF SendRefused, SendCanceled, ReadPending, SendError, Abort, SendTrailers, DropSender
<1>4. CASE PollData \/ WakeWanted \/ PopPending \/ PopEnd \/ PollEof
  BY <1>4 DEF PollData, WakeWanted, PopPending, PopEnd, PollEof
<1>5. CASE PopChunk
  <2>1. Head(queue) \in Nat
    <3>1. queue \in Seq(Sizes \cup {0}) /\ queue # <<>>
      BY <1>5 DEF PopChunk, IInv, Typed
    <3>2. Head(queue) \in Sizes \cup {0}
      BY <3>1, HeadTailProperties, Zenon
    <3>3. Sizes \cup {0} \subseteq Nat
      BY BodyAssumption DEF BodyAssumption
    <3> QED
      BY <3>2, <3>3, Zenon
  <2>2. len' \in {len, SubIf(len, Head(queue))}
    BY <1>5 DEF PopChunk
  <2>3. len' \in 0 .. U64Max
    BY <2>1, <2>2, SubIfType
  <2> QED
    BY <1>5, <2>3 DEF PopChunk
<1>6. CASE PollTrailers \/ CloseChannel \/ DropBody \/ BackInPool
  BY <1>6 DEF PollTrailers, CloseChannel, DropBody, BackInPool
<1>7. CASE UNCHANGED vars
  BY <1>7 DEF vars
<1> QED
  BY <1>1, <1>2, <1>3, <1>4, <1>5, <1>6, <1>7 DEF Next, ReaderSteps

\* They are in their types initially.
LEMMA InitTypes == Init => OtherTypes
<1> SUFFICES ASSUME Init PROVE OtherTypes
  OBVIOUS
<1>1. len \in 0 .. U64Max
  BY BodyAssumption DEF Init, BodyAssumption, CHUNKED
<1> QED
  BY <1>1 DEF Init, OtherTypes

\* The state is one the code has, and the channel never holds more than the
\* sender's chunk and an abort's error.
THEOREM TypeCorrect == Spec => []TypeOK
<1>2. IInv /\ OtherTypes => TypeOK
  BY DEF IInv, Typed, SenderInv, OtherTypes, TypeOK
<1>3. QED
  BY <1>2, InitInv, StepInv, InitTypes, StepTypes, PTL DEF Spec

------------------------------------------------------------------------------
(* The length a reader is told.                                              *)

\* A connection's body: its sender has one slot, its length and the decoder's are
\* known together, and differ by what is in the channel.
LenInv ==
    conn =>
        /\ Len(queue) <= 1
        /\ Known(len) <=> Known(wire)
        /\ ~Known(len) => len # 0
        /\ Known(len) /\ Open => len = wire + Queued

\* sub_if takes what fits from a known length, and leaves an unknown one alone.
LEMMA SubIfFits ==
  ASSUME NEW l \in 0 .. U64Max, NEW n \in Nat, Known(l) => n <= l
  PROVE  /\ Known(SubIf(l, n)) <=> Known(l)
         /\ Known(l) => SubIf(l, n) = l - n
         /\ ~Known(l) => SubIf(l, n) = l
<1> USE BodyAssumption DEF BodyAssumption, SubIf, Known, CHUNKED
<1>1. CASE Known(l)
  <2>1. l - n \in 0 .. U64Max /\ l - n < CHUNKED
    BY <1>1
  <2>2. (l - n) % (U64Max + 1) = l - n
    BY <2>1
  <2> QED
    BY <1>1, <2>1, <2>2
<1>2. CASE ~Known(l)
  BY <1>2
<1> QED
  BY <1>1, <1>2

\* What is first in the channel is a number of bytes.
LEMMA FirstIsNat ==
  ASSUME NEW q \in Seq(Sizes \cup {0}), Len(q) >= 1
  PROVE  q[1] \in Nat
<1>1. q[1] \in Sizes \cup {0}
  OBVIOUS
<1>2. Sizes \cup {0} \subseteq Nat
  BY BodyAssumption DEF BodyAssumption
<1> QED
  BY <1>1, <1>2, Zenon

\* The initial lengths: the decoder expects what the reader is told.
LEMMA InitLen == Init => LenInv
<1> SUFFICES ASSUME Init, conn PROVE LenInv
  BY DEF LenInv
<1>1. len # 0 /\ len \in Nat /\ wire = len /\ queue = <<>>
  BY BodyAssumption DEF Init, BodyAssumption
<1> QED
  BY <1>1 DEF LenInv, Queued

\* Every step keeps the two lengths in step.
LEMMA StepLen == IInv /\ OtherTypes /\ LenInv /\ [Next]_vars => LenInv'
<1> SUFFICES ASSUME IInv, OtherTypes, LenInv, [Next]_vars, conn' PROVE LenInv'
  BY DEF LenInv
<1> USE DEF channel, reader, history
<1>a. conn
  BY DEF Next, SenderSteps, ReaderSteps, PollReady, LoadWant, PollCapacity, SendData,
         SendRefused, SendCanceled, ReadPending, SendError, Abort, SendTrailers, DropSender, PollData,
         WakeWanted, PopChunk, PopPending, PopEnd, PollEof, PollTrailers, CloseChannel,
         DropBody, BackInPool, vars
<1>b. /\ len \in 0 .. U64Max /\ wire \in 0 .. U64Max
      /\ queue \in Seq(Sizes \cup {0}) /\ Len(queue) <= 1
      /\ Known(len) <=> Known(wire)
      /\ ~Known(len) => len # 0
  BY <1>a DEF OtherTypes, IInv, Typed, LenInv
<1>1. CASE UNCHANGED <<queue, len, wire>> /\ (Open' => Open)
  BY <1>1, <1>a, <1>b DEF LenInv, Queued
<1>2. CASE SendData
  <2>1. PICK n \in Sizes : /\ Known(wire) => n <= wire
                           /\ queue' = Append(queue, n)
                           /\ wire' = SubIf(wire, n)
    BY <1>2 DEF SendData, TrySend
  <2>2. queue = <<>> /\ len' = len /\ Open /\ n \in Nat
    BY <1>2, <2>1, BodyAssumption DEF SendData, IInv, SenderInv, BodyAssumption
  <2>3. Queued = 0 /\ Queued' = n /\ Len(queue') = 1
    BY <2>1, <2>2 DEF Queued
  <2>4. /\ Known(wire') <=> Known(wire)
        /\ Known(wire) => wire' = wire - n
        /\ ~Known(wire) => wire' = wire
    BY <1>b, <2>1, <2>2, SubIfFits
  <2>5. Known(len) => len = wire
    BY <1>a, <1>b, <2>2, <2>3 DEF LenInv
  <2> QED
    BY <1>b, <2>2, <2>3, <2>4, <2>5 DEF LenInv, Known
<1>3. CASE SendError
  <2>1. CASE UNCHANGED queue
    BY <1>3, <2>1, <1>1 DEF SendError, Open
  <2>2. CASE queue' = Append(queue, 0) /\ Open /\ ~parked
    <3>1. queue = <<>> /\ queue' = <<0>> /\ UNCHANGED <<len, wire>>
      BY <1>3, <2>2 DEF SendError, IInv, SenderInv
    <3>2. Queued = 0 /\ Queued' = 0 /\ Len(queue') = 1
      BY <3>1 DEF Queued
    <3>3. Known(len) => len = wire
      BY <1>a, <1>b, <2>2, <3>2 DEF LenInv
    <3> QED
      BY <1>b, <3>1, <3>2, <3>3 DEF LenInv, Known
  <2> QED
    BY <1>3, <2>1, <2>2 DEF SendError, TrySend
<1>4. CASE PopChunk
  <2>1. queue # <<>> /\ queue' = Tail(queue) /\ wire' = wire /\ Open
    BY <1>4 DEF PopChunk, Open
  <2>2. Len(queue) = 1 /\ Head(queue) = queue[1] /\ queue[1] \in Nat
    <3>1. Len(queue) \in Nat /\ Len(queue) # 0
      BY <1>b, <2>1, EmptySeq
    <3>2. \A n \in Nat : n # 0 /\ n <= 1 => n = 1
      OBVIOUS
    <3>3. Len(queue) = 1
      BY <1>b, <3>1, <3>2, Zenon
    <3>4. Head(queue) = queue[1]
      BY <1>b, <2>1
    <3> QED
      BY <1>b, <3>3, <3>4, FirstIsNat
  <2>3. Queued = queue[1] /\ Queued' = 0 /\ Len(queue') = 0
    BY <1>b, <2>1, <2>2 DEF Queued
  <2>4. Known(len) => len = wire + queue[1]
    BY <1>a, <2>1, <2>3 DEF LenInv
  <2>5. CASE queue[1] = 0
    <3>1. len' = len
      BY <1>4, <2>2, <2>5 DEF PopChunk
    <3> QED
      BY <1>b, <2>1, <2>3, <2>4, <2>5, <3>1 DEF LenInv, Known
  <2>6. CASE queue[1] # 0
    <3>1. len' = SubIf(len, queue[1])
      BY <1>4, <2>2, <2>6 DEF PopChunk
    <3>2. /\ Known(len') <=> Known(len)
          /\ Known(len) => len' = len - queue[1]
          /\ ~Known(len) => len' = len
      BY <1>b, <2>2, <2>4, <3>1, SubIfFits
    <3> QED
      BY <1>b, <2>1, <2>2, <2>3, <2>4, <3>2 DEF LenInv, Known
  <2> QED
    BY <2>5, <2>6
<1>5. CASE CloseChannel
  BY <1>5, <1>b DEF CloseChannel, LenInv, Open, Known
<1>6. CASE Abort
  BY <1>6, <1>a DEF Abort
<1>7. CASE \/ SenderSteps \/ SendRefused \/ SendCanceled \/ ReadPending \/ SendTrailers \/ DropSender
           \/ PollData \/ WakeWanted \/ PopPending \/ PopEnd \/ PollEof \/ PollTrailers
           \/ DropBody \/ BackInPool \/ UNCHANGED vars
  <2>1. UNCHANGED <<queue, len, wire>> /\ (Open' => Open)
    BY <1>7 DEF SenderSteps, PollReady, LoadWant, PollCapacity, SendRefused, SendCanceled,
           ReadPending, SendTrailers, DropSender, PollData, WakeWanted, PopPending, PopEnd, PollEof,
           PollTrailers, DropBody, BackInPool, RxRuns, Open, vars
  <2> QED
    BY <2>1, <1>1
<1> QED
  BY <1>2, <1>3, <1>4, <1>5, <1>6, <1>7 DEF Next, ReaderSteps

\* A reader that is told a length is told how much is left (Body::size_hint,
\* is_end_stream): sub_if never wraps, for bodies and chunks of any size.
THEOREM LengthTrueCorrect == Spec => []LengthTrue
<1>1. IInv /\ OtherTypes /\ LenInv => LengthTrue
  <2> SUFFICES ASSUME IInv, OtherTypes, LenInv, conn, Open
               PROVE  /\ SizeHint # NONE => SizeHint = wire + Queued
                      /\ IsEndStream => wire = 0 /\ Queued = 0
    BY DEF LengthTrue
  <2>1. Queued \in Nat /\ wire \in Nat /\ len \in Nat
    <3>1. queue \in Seq(Sizes \cup {0}) /\ Len(queue) <= 1
      BY DEF IInv, Typed, LenInv
    <3>2. Len(queue) >= 1 => queue[1] \in Nat
      BY <3>1, FirstIsNat
    <3> QED
      BY <3>1, <3>2 DEF Queued, OtherTypes
  <2>2. Known(len) => len = wire + Queued
    BY DEF LenInv
  <2>3. ~Known(len) => len # 0
    BY DEF LenInv
  <2> QED
    BY <2>1, <2>2, <2>3 DEF SizeHint, IsEndStream, NONE
<1>2. QED
  BY <1>1, InitInv, StepInv, InitTypes, StepTypes, InitLen, StepLen, PTL DEF Spec

------------------------------------------------------------------------------
(* The want signal and the delayed end.                                      *)

\* No byte of a body whose peer waits for 100 Continue is read before the body
\* was polled: the connection passes the want signal first.
THEOREM WantedFirstCorrect == Spec => WantedFirst
<1>1. IInv /\ [Next]_vars => [tx' = "ready" => want # "PENDING"]_vars
  <2> SUFFICES ASSUME IInv, Next, tx' = "ready" PROVE want # "PENDING"
    OBVIOUS
  <2>1. tx \in {"wanted", "ready"}
    BY DEF Next, SenderSteps, ReaderSteps, PollReady, LoadWant, PollCapacity, SendData,
           SendRefused, SendCanceled, ReadPending, SendError, Abort, SendTrailers, DropSender, PollData,
           WakeWanted, PopChunk, PopPending, PopEnd, PollEof, PollTrailers, CloseChannel,
           DropBody, BackInPool, IInv, Typed
  <2> QED
    BY <2>1 DEF IInv, SenderInv
<1>2. QED
  BY <1>1, InvAlways, PTL DEF Spec, WantedFirst

\* The end of a delayed body is told only when its connection is idle again.
THEOREM EndAfterIdleCorrect == Spec => EndAfterIdle
<1>1. IInv /\ [Next]_vars => [outcome' = "end" /\ delay # "none" => idle]_vars
  <2> SUFFICES ASSUME IInv, Next, outcome' = "end", delay # "none" PROVE idle
    OBVIOUS
  <2>1. CASE PopEnd
    BY <2>1 DEF PopEnd, IInv, ReaderInv, Typed, Delays
  <2>2. CASE PollEof
    BY <2>2 DEF PollEof
  <2>3. ASSUME ~PopEnd, ~PollEof PROVE FALSE
    <3>1. outcome' = outcome \/ outcome' = "error"
      BY <2>3 DEF Next, SenderSteps, ReaderSteps, PollReady, LoadWant, PollCapacity, SendData,
           SendRefused, SendCanceled, ReadPending, SendError, Abort, SendTrailers, DropSender, PollData,
           WakeWanted, PopChunk, PopPending, PollTrailers, CloseChannel,
           DropBody, BackInPool, history
    <3> QED
      BY <3>1 DEF IInv, ReaderInv
  <2> QED
    BY <2>1, <2>2, <2>3
<1>2. QED
  BY <1>1, InvAlways, PTL DEF Spec, EndAfterIdle

==============================================================================
