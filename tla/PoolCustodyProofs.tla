-------------------------- MODULE PoolCustodyProofs --------------------------
(***************************************************************************)
(* More proofs about Pool, for every value of its constants: where waiters *)
(* are, where connections are, under which key, and when one is let go.    *)
(***************************************************************************)
EXTENDS PoolProofs

Inv == TypeOK /\ SlotMatches /\ IdleExcludesWaiters

\* What PoolProofs proves, as one invariant.
LEMMA InvAlways == Spec => []Inv
BY TypeInit, TypeStep, ExclusionInit, ExclusionStep, PTL DEF Spec, Inv

\* The invariant holds after a step when it holds before it.
LEMMA InvStep == Inv /\ [Next]_vars => Inv'
BY TypeStep, ExclusionStep DEF Inv

-----------------------------------------------------------------------------
(* Waiters can be reached.                                                 *)

\* Every element of the queue of k waits for k or was just dropped, once.
QueueOK(q, k, s, ck) ==
    \A i \in 1..Len(q) :
        /\ s[q[i]] \in {"waiting", "dropped"} /\ ck[q[i]] = k
        /\ \A j \in 1..Len(q) : q[i] = q[j] => i = j

\* x is in the queue of its key.
Queued(x, w, ck) == ck[x] \in DOMAIN w /\ \E i \in 1..Len(w[ck[x]]) : w[ck[x]][i] = x

Reach(s, w, ck) ==
    /\ \A k \in DOMAIN w : QueueOK(w[k], k, s, ck)
    /\ \A x \in Checkouts : s[x] = "waiting" => Queued(x, w, ck)

\* WaitersReachable, said of the queues one by one.
LEMMA ReachIff == ASSUME TypeOK, SlotMatches PROVE WaitersReachable <=> Reach(co, waiters, coKey)
<1>1. \A x \in Checkouts : (\E i \in 1..Len(Queue(coKey[x])) : Queue(coKey[x])[i] = x)
                            <=> Queued(x, waiters, coKey)
  <2> TAKE x \in Checkouts
  <2>1. CASE coKey[x] \in DOMAIN waiters
    BY <2>1 DEF Queued, Queue
  <2>2. CASE coKey[x] \notin DOMAIN waiters
    <3>1. Queue(coKey[x]) = <<>>
      BY <2>2 DEF Queue
    <3>2. 1..Len(Queue(coKey[x])) = {}
      BY <3>1
    <3> QED
      BY <2>2, <3>2 DEF Queued
  <2> QED
    BY <2>1, <2>2
<1> QED
  BY <1>1 DEF WaitersReachable, Reach, QueueOK

\* Where an element of a queue stands.
LEMMA QueueElements ==
  ASSUME TypeOK, Reach(co, waiters, coKey), NEW k \in DOMAIN waiters, NEW i \in 1..Len(waiters[k])
  PROVE  /\ waiters[k][i] \in Checkouts /\ co[waiters[k][i]] \in {"waiting", "dropped"}
         /\ coKey[waiters[k][i]] = k /\ k \in Keys /\ waiters[k] \in Seq(Checkouts)
<1>1. waiters[k] \in Seq(Checkouts) /\ k \in Keys
  BY DEF TypeOK
<1>2. waiters[k][i] \in Checkouts
  BY <1>1, ElementOfSeq
<1> QED
  BY <1>1, <1>2 DEF Reach, QueueOK

\* A step that changes the state or the key of checkouts that are neither
\* waiting nor dropped, and makes none of them wait, leaves the rest reachable;
\* so does dropping a checkout that waits.
LEMMA OthersMove ==
  ASSUME TypeOK, Reach(co, waiters, coKey), waiters' = waiters, NEW x \in Checkouts,
         \A y \in Checkouts \ {x} : co'[y] = co[y] /\ coKey'[y] = coKey[y],
         co'[x] # "waiting",
         \/ co[x] \notin {"waiting", "dropped"}
         \/ co'[x] = "dropped" /\ coKey'[x] = coKey[x]
  PROVE  Reach(co', waiters', coKey')
<1>1. ASSUME NEW k \in DOMAIN waiters, NEW i \in 1..Len(waiters[k])
      PROVE  /\ co'[waiters[k][i]] \in {"waiting", "dropped"} /\ coKey'[waiters[k][i]] = k
             /\ \A j \in 1..Len(waiters[k]) : waiters[k][i] = waiters[k][j] => i = j
  <2>1. /\ waiters[k][i] \in Checkouts /\ co[waiters[k][i]] \in {"waiting", "dropped"}
        /\ coKey[waiters[k][i]] = k
    BY QueueElements
  <2>2. \A j \in 1..Len(waiters[k]) : waiters[k][i] = waiters[k][j] => i = j
    BY DEF Reach, QueueOK
  <2> QED
    BY <2>1, <2>2
<1>2. \A k \in DOMAIN waiters : QueueOK(waiters[k], k, co', coKey')
  BY <1>1 DEF QueueOK
<1>3. \A y \in Checkouts : co'[y] = "waiting" => Queued(y, waiters, coKey')
  BY DEF Reach, Queued
<1> QED
  BY <1>2, <1>3 DEF Reach

\* A checkout joins the queue of its key.
LEMMA Joins ==
  ASSUME TypeOK, Reach(co, waiters, coKey), NEW x \in Checkouts, PollMiss(x)
  PROVE  Reach(co', waiters', coKey')
<1> DEFINE k == coKey[x]
           q == Queue(k)
           r == Append(q, x)
<1>1. /\ co[x] = "new" /\ waiters' = WithEntry(waiters, k, r)
      /\ co' = [co EXCEPT ![x] = "waiting"] /\ coKey' = coKey
  BY DEF PollMiss
<1>2. k \in Keys /\ q \in Seq(Checkouts) /\ Len(q) \in Nat
  BY ListTypes DEF TypeOK
<1>3. /\ Len(r) = Len(q) + 1 /\ r[Len(q) + 1] = x
      /\ \A i \in 1..Len(q) : r[i] = q[i]
  BY <1>2, AppendProperties
<1>4. ASSUME NEW i \in 1..Len(q)
      PROVE  /\ q[i] \in Checkouts /\ co[q[i]] \in {"waiting", "dropped"} /\ coKey[q[i]] = k
             /\ \A j \in 1..Len(q) : q[i] = q[j] => i = j
  <2>1. k \in DOMAIN waiters /\ q = waiters[k]
    BY DEF Queue
  <2> QED
    BY <2>1, QueueElements DEF Reach, QueueOK
<1>5. \A y \in Checkouts : co'[y] = IF y = x THEN "waiting" ELSE co[y]
  BY <1>1 DEF TypeOK
<1> HIDE DEF q, r, k
<1>6. \A i \in 1..Len(r) : i \in 1..Len(q) \/ i = Len(q) + 1
  BY <1>2, <1>3
<1>7. ASSUME NEW i \in 1..Len(r)
      PROVE  /\ co'[r[i]] \in {"waiting", "dropped"} /\ coKey[r[i]] = k
             /\ \A j \in 1..Len(r) : r[i] = r[j] => i = j
  <2>1. CASE i \in 1..Len(q)
    <3>1. r[i] = q[i] /\ r[i] # x /\ r[i] \in Checkouts /\ coKey[r[i]] = k
          /\ co'[r[i]] \in {"waiting", "dropped"}
      BY <1>1, <1>3, <1>4, <1>5, <2>1
    <3>2. \A j \in 1..Len(r) : r[i] = r[j] => i = j
      BY <1>3, <1>4, <1>6, <2>1, <3>1
    <3> QED
      BY <3>1, <3>2
  <2>2. CASE i = Len(q) + 1
    <3>1. r[i] = x /\ coKey[r[i]] = k /\ co'[r[i]] = "waiting"
      BY <1>3, <1>5, <2>2 DEF k
    <3>2. \A j \in 1..Len(r) : r[i] = r[j] => i = j
      BY <1>1, <1>3, <1>4, <1>6, <2>2, <3>1
    <3> QED
      BY <3>1, <3>2
  <2> QED
    BY <1>6, <2>1, <2>2
<1>8. QueueOK(r, k, co', coKey)
  BY <1>7 DEF QueueOK
<1>9. DOMAIN waiters' = DOMAIN waiters \cup {k} /\ waiters'[k] = r
      /\ \A l \in DOMAIN waiters \ {k} : waiters'[l] = waiters[l]
  BY <1>1 DEF WithEntry
<1>10. ASSUME NEW l \in DOMAIN waiters \ {k} PROVE QueueOK(waiters[l], l, co', coKey)
  <2>1. \A i \in 1..Len(waiters[l]) : waiters[l][i] \in Checkouts /\ waiters[l][i] # x
    BY <1>1, QueueElements
  <2> QED
    BY <1>5, <2>1 DEF Reach, QueueOK
<1>11. ASSUME NEW y \in Checkouts, co'[y] = "waiting" PROVE Queued(y, waiters', coKey)
  <2>1. CASE y = x
    <3>1. Len(q) + 1 \in 1..Len(r)
      BY <1>2, <1>3
    <3> QED
      BY <1>3, <1>9, <2>1, <3>1 DEF Queued, k
  <2>2. CASE y # x
    <3>1. coKey[y] \in DOMAIN waiters /\ \E i \in 1..Len(waiters[coKey[y]]) : waiters[coKey[y]][i] = y
      BY <1>5, <1>11, <2>2 DEF Reach, Queued
    <3>2. CASE coKey[y] # k
      BY <1>9, <3>1, <3>2 DEF Queued
    <3>3. CASE coKey[y] = k
      <4>1. q = waiters[k]
        BY <3>1, <3>3 DEF q, Queue
      <4>2. PICK i \in 1..Len(q) : q[i] = y
        BY <3>1, <3>3, <4>1
      <4>3. i \in 1..Len(r) /\ r[i] = y
        BY <1>2, <1>3, <4>2
      <4> QED
        BY <1>9, <3>3, <4>3 DEF Queued
    <3> QED
      BY <3>2, <3>3
  <2> QED
    BY <2>1, <2>2
<1> QED
  BY <1>1, <1>8, <1>9, <1>10, <1>11 DEF Reach

\* clean_waiters keeps the waiters that live.
LEMMA Cleans ==
  ASSUME TypeOK, Reach(co, waiters, coKey), NEW x \in Checkouts, CleanWaiters(x)
  PROVE  Reach(co', waiters', coKey')
<1> DEFINE k == coKey[x]
           q == Queue(k)
<1>1. PICK live \in Retained(Queue(k), LiveAt(k)) :
         waiters' = IF live = <<>> THEN WithoutKey(waiters, k) ELSE WithEntry(waiters, k, live)
  BY DEF CleanWaiters
<1>2. k \in Keys /\ q \in Seq(Checkouts) /\ Len(q) \in Nat
  BY ListTypes DEF TypeOK
<1>3. live \in Seq(Checkouts) /\ ReadsAt(live, q, LiveAt(k))
  BY <1>2, CleanedFacts
<1>4. PICK f \in [1..Len(live) -> LiveAt(k)] :
         /\ \A n \in 1..Len(live) : live[n] = q[f[n]]
         /\ \A n, m \in 1..Len(live) : n < m => f[n] < f[m]
         /\ \A i \in LiveAt(k) : \E n \in 1..Len(live) : f[n] = i
  BY <1>3 DEF ReadsAt
<1>5. co[x] = "dropped" /\ co' = [co EXCEPT ![x] = "none"] /\ coKey' = coKey
  BY DEF CleanWaiters
<1>6. \A y \in Checkouts : co'[y] = IF y = x THEN "none" ELSE co[y]
  BY <1>5 DEF TypeOK
<1>7. \A i \in LiveAt(k) : i \in 1..Len(q) /\ co[q[i]] = "waiting"
  BY DEF LiveAt
<1>8. q # <<>> => k \in DOMAIN waiters /\ q = waiters[k]
  BY DEF Queue
<1>9. \A i \in LiveAt(k) : k \in DOMAIN waiters /\ q = waiters[k]
  BY <1>7 DEF Queue
<1> HIDE DEF q, k
<1>10. ASSUME NEW n \in 1..Len(live)
       PROVE  /\ live[n] \in Checkouts /\ co'[live[n]] = "waiting" /\ coKey[live[n]] = k
              /\ \A m \in 1..Len(live) : live[n] = live[m] => n = m
  <2>1. f[n] \in LiveAt(k) /\ live[n] = q[f[n]]
    BY <1>4
  <2>2. f[n] \in 1..Len(q) /\ co[live[n]] = "waiting" /\ k \in DOMAIN waiters /\ q = waiters[k]
    BY <1>7, <1>9, <2>1
  <2>3. live[n] \in Checkouts /\ coKey[live[n]] = k
        /\ \A j \in 1..Len(q) : q[f[n]] = q[j] => f[n] = j
    BY <2>1, <2>2, QueueElements DEF Reach, QueueOK
  <2>4. live[n] # x
    BY <1>5, <2>2
  <2>5. ASSUME NEW m \in 1..Len(live), live[n] = live[m] PROVE n = m
    <3>1. f[m] \in 1..Len(q) /\ live[m] = q[f[m]]
      BY <1>4, <1>7
    <3>2. f[n] = f[m]
      BY <2>1, <2>3, <2>5, <3>1
    <3>3. Len(live) \in Nat
      BY <1>3
    <3>4. f[n] \in Nat /\ f[m] \in Nat
      BY <1>2, <2>2, <3>1
    <3> QED
      BY <1>4, <3>2, <3>3, <3>4
  <2> QED
    BY <1>6, <2>2, <2>3, <2>4, <2>5
<1>11. live # <<>> => QueueOK(live, k, co', coKey)
  BY <1>10 DEF QueueOK
<1>12. \A l \in DOMAIN waiters' : IF l = k THEN live # <<>> /\ waiters'[l] = live
                                  ELSE l \in DOMAIN waiters /\ waiters'[l] = waiters[l]
  BY <1>1 DEF WithEntry, WithoutKey, k
<1>13. /\ \A l \in DOMAIN waiters \ {k} : l \in DOMAIN waiters' /\ waiters'[l] = waiters[l]
       /\ live # <<>> => k \in DOMAIN waiters' /\ waiters'[k] = live
  BY <1>1 DEF WithEntry, WithoutKey, k
<1>14. ASSUME NEW l \in DOMAIN waiters \ {k} PROVE QueueOK(waiters[l], l, co', coKey)
  <2>1. \A i \in 1..Len(waiters[l]) : waiters[l][i] \in Checkouts /\ waiters[l][i] # x
    BY QueueElements DEF k
  <2> QED
    BY <1>6, <2>1 DEF Reach, QueueOK
<1>15. ASSUME NEW y \in Checkouts, co'[y] = "waiting" PROVE Queued(y, waiters', coKey)
  <2>1. co[y] = "waiting"
    BY <1>6, <1>15
  <2>2. coKey[y] \in DOMAIN waiters /\ \E i \in 1..Len(waiters[coKey[y]]) : waiters[coKey[y]][i] = y
    BY <2>1 DEF Reach, Queued
  <2>3. CASE coKey[y] # k
    BY <1>13, <2>2, <2>3 DEF Queued
  <2>4. CASE coKey[y] = k
    <3>1. q = waiters[k]
      BY <2>2, <2>4 DEF q, Queue
    <3>2. PICK i \in 1..Len(q) : q[i] = y
      BY <2>2, <2>4, <3>1
    <3>3. i \in LiveAt(k)
      BY <2>1, <3>2 DEF LiveAt, q
    <3>4. PICK n \in 1..Len(live) : f[n] = i
      BY <1>4, <3>3
    <3>5. live[n] = y /\ live # <<>>
      BY <1>4, <3>2, <3>4
    <3> QED
      BY <1>13, <2>4, <3>4, <3>5 DEF Queued
  <2> QED
    BY <2>3, <2>4
<1> QED
  BY <1>5, <1>11, <1>12, <1>14, <1>15 DEF Reach

\* put serves the waiters it takes off the queue and leaves the others in it.
LEMMA PutReach ==
  ASSUME TypeOK, Reach(co, waiters, coKey), NEW k \in Keys, NEW c \in Conns
  PROVE  Reach(PutCo(k, c), PutWaiters(k, c), coKey)
<1> DEFINE p == Popped(k, c)
           q == Queue(k)
           w == PutWaiters(k, c)
           s == PutCo(k, c)
<1>1. p \in 0..Len(q) /\ Len(q) \in Nat /\ q \in Seq(Checkouts)
  BY PoppedPrefix, ListTypes
<1>2. /\ DOMAIN w \subseteq DOMAIN waiters
      /\ \A l \in DOMAIN w \ {k} : w[l] = waiters[l]
      /\ k \in DOMAIN w => /\ Len(w[k]) = Len(waiters[k]) - p
                           /\ \A i \in 1..Len(w[k]) : w[k][i] = waiters[k][p + i]
      /\ \A l \in DOMAIN waiters \ {k} : l \in DOMAIN w
      /\ p < Len(q) => k \in DOMAIN w
  BY PutWaitersFacts
<1>3. \A y \in Checkouts : s[y] = IF y \in Served(k, c) THEN "sent" ELSE co[y]
  BY DEF PutCo
<1>4. \A y \in Served(k, c) : /\ y \in Checkouts /\ co[y] = "waiting" /\ k \in DOMAIN waiters
                              /\ \E i \in 1..Len(waiters[k]) : waiters[k][i] = y /\ i \in 1..p
  BY ServedWaiting
<1>5. \A i \in LiveAt(k) \cap (1..p) : q[i] \in Served(k, c)
  BY DEF Served
<1>6. k \in DOMAIN waiters => q = waiters[k]
  BY DEF Queue
<1> HIDE DEF p, q, w, s
<1>7. ASSUME NEW l \in DOMAIN w \ {k} PROVE QueueOK(w[l], l, s, coKey)
  <2>1. l \in DOMAIN waiters /\ w[l] = waiters[l]
    BY <1>2
  <2>2. ASSUME NEW i \in 1..Len(waiters[l])
        PROVE  waiters[l][i] \in Checkouts /\ waiters[l][i] \notin Served(k, c)
    <3>1. waiters[l][i] \in Checkouts /\ coKey[waiters[l][i]] = l
      BY <2>1, QueueElements
    <3>2. \A y \in Served(k, c) : coKey[y] = k
      BY <1>4, QueueElements
    <3> QED
      BY <3>1, <3>2
  <2> QED
    BY <1>3, <2>1, <2>2 DEF Reach, QueueOK
<1>8. ASSUME k \in DOMAIN w PROVE QueueOK(w[k], k, s, coKey)
  <2>1. k \in DOMAIN waiters /\ q = waiters[k] /\ Len(w[k]) = Len(q) - p
        /\ \A i \in 1..Len(w[k]) : w[k][i] = q[p + i]
    BY <1>2, <1>6, <1>8
  <2>2. \A i \in 1..Len(w[k]) : p + i \in 1..Len(q)
    BY <1>1, <2>1
  <2>3. ASSUME NEW i \in 1..Len(w[k])
        PROVE  /\ s[w[k][i]] \in {"waiting", "dropped"} /\ coKey[w[k][i]] = k
               /\ \A j \in 1..Len(w[k]) : w[k][i] = w[k][j] => i = j
    <3>1. /\ q[p + i] \in Checkouts /\ co[q[p + i]] \in {"waiting", "dropped"} /\ coKey[q[p + i]] = k
          /\ \A j \in 1..Len(q) : q[p + i] = q[j] => p + i = j
      BY <2>1, <2>2, QueueElements DEF Reach, QueueOK
    <3>2. q[p + i] \notin Served(k, c)
      <4> SUFFICES ASSUME q[p + i] \in Served(k, c) PROVE FALSE
        OBVIOUS
      <4>1. PICK j \in 1..Len(q) : q[j] = q[p + i] /\ j \in 1..p
        BY <1>4, <2>1
      <4>2. p + i = j
        BY <3>1, <4>1
      <4> QED
        BY <1>1, <2>2, <4>1, <4>2
    <3>3. \A j \in 1..Len(w[k]) : w[k][i] = w[k][j] => p + i = p + j
      BY <2>1, <2>2, <3>1
    <3>4. \A j \in 1..Len(w[k]) : p + i = p + j => i = j
      BY <1>1, <2>1
    <3> QED
      BY <1>3, <2>1, <3>1, <3>2, <3>3, <3>4
  <2> QED
    BY <2>3 DEF QueueOK
<1>9. ASSUME NEW y \in Checkouts, s[y] = "waiting" PROVE Queued(y, w, coKey)
  <2>1. y \notin Served(k, c) /\ co[y] = "waiting"
    BY <1>3, <1>9
  <2>2. coKey[y] \in DOMAIN waiters /\ \E i \in 1..Len(waiters[coKey[y]]) : waiters[coKey[y]][i] = y
    BY <2>1 DEF Reach, Queued
  <2>3. CASE coKey[y] # k
    BY <1>2, <2>2, <2>3 DEF Queued
  <2>4. CASE coKey[y] = k
    <3>1. q = waiters[k] /\ k \in DOMAIN waiters
      BY <1>6, <2>2, <2>4
    <3>2. PICK i \in 1..Len(q) : q[i] = y
      BY <2>2, <2>4, <3>1
    <3>3. i \in LiveAt(k)
      BY <2>1, <3>2 DEF LiveAt, q
    <3>4. i \notin 1..p
      BY <1>5, <2>1, <3>2, <3>3
    <3>5. p < i /\ p < Len(q) /\ i - p \in 1..(Len(q) - p) /\ p + (i - p) = i
      BY <1>1, <3>2, <3>4
    <3>6. k \in DOMAIN w /\ w[k][i - p] = y /\ i - p \in 1..Len(w[k])
      BY <1>2, <3>1, <3>2, <3>5
    <3> QED
      BY <2>4, <3>6 DEF Queued
  <2> QED
    BY <2>3, <2>4
<1>10. Reach(s, w, coKey)
  BY <1>7, <1>8, <1>9 DEF Reach
<1> QED
  BY <1>10 DEF s, w

\* A failed attempt drops the whole queue of its key.
LEMMA CancelReach ==
  ASSUME TypeOK, Reach(co, waiters, coKey), NEW k \in Keys
  PROVE  Reach(Canceled(co, waiters, k), WithoutKey(waiters, k), coKey)
<1> DEFINE s == Canceled(co, waiters, k)
           w == WithoutKey(waiters, k)
<1>1. DOMAIN w = DOMAIN waiters \ {k} /\ \A l \in DOMAIN w : w[l] = waiters[l]
  BY DEF WithoutKey
<1>2. \A x \in Checkouts : s[x] = IF co[x] = "waiting" /\ k \in DOMAIN waiters
                                     /\ \E i \in 1..Len(waiters[k]) : waiters[k][i] = x
                                  THEN "canceled" ELSE co[x]
  BY DEF Canceled
<1> HIDE DEF s, w
<1>3. ASSUME NEW l \in DOMAIN w PROVE QueueOK(w[l], l, s, coKey)
  <2>1. l \in DOMAIN waiters /\ l # k /\ w[l] = waiters[l]
    BY <1>1
  <2>2. ASSUME NEW i \in 1..Len(waiters[l])
        PROVE  waiters[l][i] \in Checkouts /\ s[waiters[l][i]] = co[waiters[l][i]]
    <3>1. waiters[l][i] \in Checkouts /\ coKey[waiters[l][i]] = l
      BY <2>1, QueueElements
    <3>2. k \in DOMAIN waiters => \A j \in 1..Len(waiters[k]) : coKey[waiters[k][j]] = k
      BY QueueElements
    <3> QED
      BY <1>2, <2>1, <3>1, <3>2
  <2> QED
    BY <2>1, <2>2 DEF Reach, QueueOK
<1>4. ASSUME NEW x \in Checkouts, s[x] = "waiting" PROVE Queued(x, w, coKey)
  <2>1. co[x] = "waiting" /\ ~(k \in DOMAIN waiters /\ \E i \in 1..Len(waiters[k]) : waiters[k][i] = x)
    BY <1>2, <1>4
  <2>2. coKey[x] \in DOMAIN waiters /\ \E i \in 1..Len(waiters[coKey[x]]) : waiters[coKey[x]][i] = x
    BY <2>1 DEF Reach, Queued
  <2>3. coKey[x] # k
    BY <2>1, <2>2
  <2> QED
    BY <1>1, <2>2, <2>3 DEF Queued
<1>5. Reach(s, w, coKey)
  BY <1>3, <1>4 DEF Reach
<1> QED
  BY <1>5 DEF s, w

\* connected finds nothing to cancel after put.
LEMMA SharedPut ==
  ASSUME Inv, NEW t \in Connects, NEW c \in Conns, NEW s, PooledShared(t, c, s)
  PROVE  LET k == ctKey[t] IN
         /\ k \in Keys /\ Shared(c) /\ HostOf[c] = k
         /\ co' = PutCo(k, c) /\ waiters' = PutWaiters(k, c) /\ slot' = PutSlot(k, c)
         /\ idle' = PutIdle(k, c) /\ coKey' = coKey
<1> DEFINE k == ctKey[t]
<1>1. k \in Keys /\ Shared(c)
  BY DEF PooledShared, Inv, TypeOK
<1>2. k \notin DOMAIN PutWaiters(k, c)
  BY <1>1, NothingLeftToCancel DEF Inv
<1>3. PutWaiters(k, c) = [l \in DOMAIN PutWaiters(k, c) |-> PutWaiters(k, c)[l]]
  BY <1>1, PutWaitersFacts DEF Inv
<1>4. WithoutKey(PutWaiters(k, c), k) = PutWaiters(k, c)
  BY <1>2, <1>3 DEF WithoutKey
<1>5. Canceled(PutCo(k, c), PutWaiters(k, c), k) = PutCo(k, c)
  BY <1>2 DEF Canceled, PutCo
<1> QED
  BY <1>1, <1>4, <1>5 DEF PooledShared

\* The connection and the key of a Pooled that is being re-inserted.
LEMMA DroppingTypes ==
  ASSUME TypeOK, NEW o \in Owners, PutBack(o)
  PROVE  handle[o].key \in Keys /\ handle[o].conn \in Conns
BY DEF PutBack, TypeOK, NoHandle, Handles

\* Every step keeps the waiters reachable.
LEMMA ReachStep ==
  Inv /\ Reach(co, waiters, coKey) /\ [Next]_vars => Reach(co', waiters', coKey')
<1> SUFFICES ASSUME Inv, Reach(co, waiters, coKey), [Next]_vars
             PROVE  Reach(co', waiters', coKey')
  OBVIOUS
<1>t. TypeOK
  BY DEF Inv
<1> USE DEF inner
<1>1. ASSUME UNCHANGED <<co, waiters, coKey>> PROVE Reach(co', waiters', coKey')
  BY <1>1
<1>2. ASSUME NEW x \in Checkouts,
             \/ \E k \in Keys : Checkout(x, k)
             \/ PollHit(x) \/ PollReceived(x) \/ PollCanceled(x) \/ DropCheckout(x)
      PROVE  Reach(co', waiters', coKey')
  <2>1. /\ waiters' = waiters
        /\ \A y \in Checkouts \ {x} : co'[y] = co[y] /\ coKey'[y] = coKey[y]
        /\ co'[x] # "waiting"
        /\ \/ co[x] \notin {"waiting", "dropped"}
           \/ co'[x] = "dropped" /\ coKey'[x] = coKey[x]
    BY <1>t, <1>2 DEF TypeOK, Checkout, PollHit, PollReceived, PollCanceled, DropCheckout
  <2> QED
    BY <1>t, <2>1, OthersMove
<1>3. ASSUME NEW x \in Checkouts, PollMiss(x) PROVE Reach(co', waiters', coKey')
  BY <1>t, <1>3, Joins
<1>4. ASSUME NEW x \in Checkouts, CleanWaiters(x) PROVE Reach(co', waiters', coKey')
  BY <1>t, <1>4, Cleans
<1>5. ASSUME NEW t \in Connects, DropConnecting(t) PROVE Reach(co', waiters', coKey')
  <2>1. CASE ct[t] = "locked"
    <3>1. ctKey[t] \in Keys
      BY <1>t DEF TypeOK
    <3> QED
      BY <1>t, <1>5, <2>1, <3>1, CancelReach DEF DropConnecting
  <2>2. CASE ct[t] # "locked"
    BY <1>1, <1>5, <2>2 DEF DropConnecting
  <2> QED
    BY <2>1, <2>2
<1>6. ASSUME NEW t \in Connects, NEW c \in Conns, NEW s \in {"ready", "closed"}, PooledShared(t, c, s)
      PROVE  Reach(co', waiters', coKey')
  BY <1>t, <1>6, SharedPut, PutReach
<1>7. ASSUME NEW o \in Owners, PutBack(o) PROVE Reach(co', waiters', coKey')
  <2>1. handle[o].key \in Keys /\ handle[o].conn \in Conns
    BY <1>t, <1>7, DroppingTypes
  <2> QED
    BY <1>t, <1>7, <2>1, PutReach DEF PutBack, Put
<1>8. CASE DropPool
  BY <1>8, <1>t DEF DropPool, Reach
<1>9. ASSUME NEW t \in Connects,
             \/ \E k \in Keys : ConnectAuto(t, k) \/ ConnectHttp2(t, k)
             \/ AlpnH2(t)
             \/ \E c \in Conns, s \in {"ready", "closed"} : PooledUnique(t, c, s)
      PROVE  Reach(co', waiters', coKey')
  BY <1>1, <1>9 DEF ConnectAuto, ConnectHttp2, AlpnH2, PooledUnique
<1>10. ASSUME NEW o \in Owners, Use(o) \/ DropPooled(o) PROVE Reach(co', waiters', coKey')
  BY <1>1, <1>10 DEF Use, DropPooled
<1>11. ASSUME NEW c \in Conns, ConnReady(c) \/ ConnClosed(c) PROVE Reach(co', waiters', coKey')
  BY <1>1, <1>11 DEF ConnReady, ConnClosed
<1>12. CASE ClearExpired \/ IdleTaskEnds \/ Tick \/ UNCHANGED vars
  BY <1>1, <1>12 DEF ClearExpired, IdleTaskEnds, Tick, vars
<1> QED
  BY <1>2, <1>3, <1>4, <1>5, <1>6, <1>7, <1>8, <1>9, <1>10, <1>11, <1>12, Zenon DEF Next

\* A checkout that waits is in the queue of its key, whatever happens to the
\* others (PoolInner::put, clean_waiters, connected).
THEOREM WaitersReachableCorrect == Spec => []WaitersReachable
<1>1. Init => Reach(co, waiters, coKey)
  <2> SUFFICES ASSUME Init PROVE Reach(co, waiters, coKey)
    OBVIOUS
  <2>1. DOMAIN waiters = {} /\ \A x \in Checkouts : co[x] = "none"
    BY DEF Init
  <2> QED
    BY <2>1 DEF Reach
<1>2. Inv /\ Reach(co, waiters, coKey) => WaitersReachable
  BY ReachIff DEF Inv
<1> DEFINE R == Reach(co, waiters, coKey)
<1>3. Inv /\ R /\ [Next]_vars => R'
  BY ReachStep
<1>4. Init => R
  BY <1>1
<1>5. Inv /\ R => WaitersReachable
  BY <1>2
<1> HIDE DEF R
<1> QED
  BY <1>3, <1>4, <1>5, InvAlways, PTL DEF Spec

-----------------------------------------------------------------------------
(* First come, first served.                                               *)

\* put serves no waiter and passes over an older one that lives.
LEMMA PutOldest ==
  ASSUME TypeOK, Reach(co, waiters, coKey), NEW k \in Keys, NEW c \in Conns, co' = PutCo(k, c)
  PROVE  OldestStep
<1> SUFFICES ASSUME NEW l \in DOMAIN waiters, NEW i \in 1..Len(waiters[l]),
                    NEW j \in 1..Len(waiters[l]), i < j, co[waiters[l][i]] = "waiting",
                    co'[waiters[l][j]] = "sent"
             PROVE  co'[waiters[l][i]] = "sent"
  BY DEF OldestStep
<1> DEFINE q == Queue(k)
           p == Popped(k, c)
<1>1. /\ waiters[l][i] \in Checkouts /\ waiters[l][j] \in Checkouts
      /\ co[waiters[l][j]] \in {"waiting", "dropped"} /\ coKey[waiters[l][j]] = l
      /\ \A n \in 1..Len(waiters[l]) : waiters[l][n] = waiters[l][j] => n = j
  BY QueueElements DEF Reach, QueueOK
<1>2. waiters[l][j] \in Served(k, c)
  BY <1>1 DEF PutCo
<1>3. PICK n \in 1..Len(waiters[k]) :
         k \in DOMAIN waiters /\ n \in LiveAt(k) /\ waiters[k][n] = waiters[l][j] /\ n \in 1..p
  BY <1>2, ServedWaiting
<1>4. k = l /\ q = waiters[l]
  BY <1>1, <1>3, QueueElements DEF Queue
<1>5. n = j /\ Len(q) \in Nat
  BY <1>1, <1>3, <1>4, ListTypes
<1>6. i \in LiveAt(k)
  BY <1>4 DEF LiveAt
<1>7. p \in 0..Len(q)
  BY PoppedPrefix
<1>8. i \in 1..p
  BY <1>3, <1>4, <1>5, <1>7
<1>9. q[i] \in Served(k, c)
  BY <1>6, <1>8 DEF Served
<1> QED
  BY <1>1, <1>4, <1>9 DEF PutCo

\* Only put serves a waiter, and it serves the oldest.
LEMMA OldestFirstStep ==
  Inv /\ Reach(co, waiters, coKey) /\ [Next]_vars => [OldestStep]_vars
<1> SUFFICES ASSUME Inv, Reach(co, waiters, coKey), Next PROVE OldestStep
  OBVIOUS
<1>t. TypeOK
  BY DEF Inv
<1> USE DEF inner
<1>1. ASSUME \A x \in Checkouts : co'[x] = "sent" => co[x] = "sent" PROVE OldestStep
  <2>1. \A l \in DOMAIN waiters : \A j \in 1..Len(waiters[l]) :
           waiters[l][j] \in Checkouts /\ co[waiters[l][j]] # "sent"
    BY <1>t, QueueElements
  <2> QED
    BY <1>1, <2>1 DEF OldestStep
<1>2. ASSUME NEW t \in Connects, NEW c \in Conns, NEW s \in {"ready", "closed"}, PooledShared(t, c, s)
      PROVE  OldestStep
  BY <1>t, <1>2, SharedPut, PutOldest
<1>3. ASSUME NEW o \in Owners, PutBack(o) PROVE OldestStep
  <2>1. handle[o].key \in Keys /\ handle[o].conn \in Conns
    BY <1>t, <1>3, DroppingTypes
  <2> QED
    BY <1>t, <1>3, <2>1, PutOldest DEF PutBack, Put
<1>4. ASSUME NEW x \in Checkouts,
             \/ \E k \in Keys : Checkout(x, k)
             \/ PollHit(x) \/ PollMiss(x) \/ PollReceived(x) \/ PollCanceled(x)
             \/ DropCheckout(x) \/ CleanWaiters(x)
      PROVE  OldestStep
  BY <1>t, <1>1, <1>4 DEF TypeOK, Checkout, PollHit, PollMiss, PollReceived, PollCanceled,
                          DropCheckout, CleanWaiters
<1>5. ASSUME NEW t \in Connects, DropConnecting(t) PROVE OldestStep
  BY <1>1, <1>5 DEF DropConnecting, Canceled
<1>6. ASSUME NEW t \in Connects,
             \/ \E k \in Keys : ConnectAuto(t, k) \/ ConnectHttp2(t, k)
             \/ AlpnH2(t)
             \/ \E c \in Conns, s \in {"ready", "closed"} : PooledUnique(t, c, s)
      PROVE  OldestStep
  BY <1>1, <1>6 DEF ConnectAuto, ConnectHttp2, AlpnH2, PooledUnique
<1>7. ASSUME NEW o \in Owners, Use(o) \/ DropPooled(o) PROVE OldestStep
  BY <1>1, <1>7 DEF Use, DropPooled
<1>8. ASSUME NEW c \in Conns, ConnReady(c) \/ ConnClosed(c) PROVE OldestStep
  BY <1>1, <1>8 DEF ConnReady, ConnClosed
<1>9. CASE ClearExpired \/ IdleTaskEnds \/ DropPool \/ Tick
  BY <1>1, <1>9 DEF ClearExpired, IdleTaskEnds, DropPool, Tick
<1> QED
  BY <1>2, <1>3, <1>4, <1>5, <1>6, <1>7, <1>8, <1>9, Zenon DEF Next

\* Waiters of a key are served in the order they came (PoolInner::put).
THEOREM OldestFirstCorrect == Spec => OldestFirst
<1> DEFINE R == Inv /\ Reach(co, waiters, coKey)
<1>1. Init => R
  <2> SUFFICES ASSUME Init PROVE R
    OBVIOUS
  <2>1. DOMAIN waiters = {} /\ \A x \in Checkouts : co[x] = "none"
    BY DEF Init
  <2> QED
    BY <2>1, TypeInit, ExclusionInit DEF Reach, Inv
<1>2. R /\ [Next]_vars => R'
  BY InvStep, ReachStep
<1>3. R /\ [Next]_vars => [OldestStep]_vars
  BY OldestFirstStep
<1> HIDE DEF R
<1> QED
  BY <1>1, <1>2, <1>3, PTL DEF Spec, OldestFirst

-----------------------------------------------------------------------------
(* What a step does to the idle lists: it puts a connection in, or it only *)
(* takes some out.                                                         *)

\* The list r keeps entries of s in their order; the last one may be dated anew.
Within(r, s) ==
    /\ Len(r) <= Len(s)
    /\ \E f \in [1..Len(r) -> 1..Len(s)] :
          /\ \A n, m \in 1..Len(r) : n < m => f[n] < f[m]
          /\ \A n \in 1..Len(r) : /\ r[n].conn = s[f[n]].conn
                                  /\ r[n].at = s[f[n]].at \/ (n = Len(r) /\ r[n].at = now)

Shrinks == DOMAIN idle' \subseteq DOMAIN idle /\ \A k \in DOMAIN idle' : Within(idle'[k], idle[k])

\* A list is within itself.
LEMMA WithinSelf ==
  ASSUME NEW s \in Seq(Entries)
  PROVE  Within(s, s)
<1>1. Len(s) \in Nat
  OBVIOUS
<1> DEFINE f == [n \in 1..Len(s) |-> n]
<1>2. /\ f \in [1..Len(s) -> 1..Len(s)]
      /\ \A n, m \in 1..Len(s) : n < m => f[n] < f[m]
      /\ \A n \in 1..Len(s) : s[n].conn = s[f[n]].conn /\ s[n].at = s[f[n]].at
  OBVIOUS
<1> HIDE DEF f
<1> QED
  BY <1>1, <1>2 DEF Within

\* Lists that stay as they are, for fewer keys perhaps.
LEMMA FewerKeys ==
  ASSUME TypeOK, DOMAIN idle' \subseteq DOMAIN idle, \A k \in DOMAIN idle' : idle'[k] = idle[k]
  PROVE  Shrinks
<1>1. \A k \in DOMAIN idle : idle[k] \in Seq(Entries)
  BY DEF TypeOK
<1>2. ASSUME NEW k \in DOMAIN idle' PROVE Within(idle'[k], idle[k])
  <2>1. idle'[k] = idle[k] /\ idle[k] \in Seq(Entries)
    BY <1>1
  <2> QED
    BY <2>1, WithinSelf
<1> QED
  BY <1>2 DEF Shrinks

\* A checkout that finds a connection.
LEMMA HitShrinks ==
  ASSUME TypeOK, NEW x \in Checkouts, PollHit(x)
  PROVE  /\ Shrinks
         /\ \A l \in DOMAIN idle' \ {coKey[x]} : l \in DOMAIN idle /\ idle'[l] = idle[l]
         /\ coKey[x] \in DOMAIN idle' => idle'[coKey[x]] = Leftover(coKey[x])
         /\ Leftover(coKey[x]) # <<>> => coKey[x] \in DOMAIN idle'
         /\ DOMAIN idle \ {coKey[x]} \subseteq DOMAIN idle'
<1> DEFINE k == coKey[x]
           q == IdleList(k)
           r == Leftover(k)
           top == Top(k)
<1>1. k \in Keys /\ Usable(k) # {}
  BY DEF PollHit, TypeOK
<1>2. /\ r \in Seq(Entries)
      /\ Len(r) = IF Shared(q[top].conn) THEN top ELSE top - 1
      /\ \A i \in 1..(top - 1) : r[i] = q[i]
      /\ Shared(q[top].conn) => r[top] = [conn |-> q[top].conn, at |-> now]
  BY <1>1, LeftoverFacts
<1>3. q \in Seq(Entries) /\ Len(q) \in Nat /\ top \in 1..Len(q) /\ k \in DOMAIN idle /\ q = idle[k]
  BY <1>1, ListTypes, TopIsUsable DEF IdleList
<1>4. /\ \A l \in DOMAIN idle' \ {k} : l \in DOMAIN idle /\ idle'[l] = idle[l]
      /\ k \in DOMAIN idle' => idle'[k] = r
      /\ r # <<>> => k \in DOMAIN idle'
      /\ DOMAIN idle \ {k} \subseteq DOMAIN idle'
  BY DEF PollHit, WithEntry, WithoutKey
<1> HIDE DEF q, r, top, k
<1>5. Within(r, q)
  <2> DEFINE f == [n \in 1..Len(r) |-> n]
  <2>1. Len(r) <= top /\ Len(r) \in Nat /\ top \in Nat
    BY <1>2, <1>3
  <2>2. /\ f \in [1..Len(r) -> 1..Len(q)]
        /\ \A n, m \in 1..Len(r) : n < m => f[n] < f[m]
        /\ \A n \in 1..Len(r) : f[n] = n
    BY <1>3, <2>1
  <2>3. ASSUME NEW n \in 1..Len(r)
        PROVE  r[n].conn = q[n].conn /\ (r[n].at = q[n].at \/ (n = Len(r) /\ r[n].at = now))
    <3>1. CASE n \in 1..(top - 1)
      BY <1>2, <3>1
    <3>2. CASE n \notin 1..(top - 1)
      <4>1. n = top /\ Shared(q[top].conn) /\ Len(r) = top
        BY <1>2, <1>3, <2>1, <3>2
      <4> QED
        BY <1>2, <4>1
    <3> QED
      BY <3>1, <3>2
  <2> HIDE DEF f
  <2>4. Len(r) <= Len(q)
    BY <1>3, <2>1
  <2> QED
    BY <2>2, <2>3, <2>4 DEF Within
<1>6. ASSUME NEW l \in DOMAIN idle' PROVE l \in DOMAIN idle /\ Within(idle'[l], idle[l])
  <2>1. CASE l = k
    BY <1>3, <1>4, <1>5, <2>1
  <2>2. CASE l # k
    <3>1. l \in DOMAIN idle /\ idle'[l] = idle[l]
      BY <1>4, <2>2
    <3>2. idle[l] \in Seq(Entries)
      BY <3>1 DEF TypeOK
    <3> QED
      BY <3>1, <3>2, WithinSelf
  <2> QED
    BY <2>1, <2>2
<1> QED
  BY <1>4, <1>6 DEF Shrinks, k, r

\* The idle interval.
LEMMA ClearShrinks ==
  ASSUME TypeOK, ClearExpired
  PROVE  Shrinks
<1>1. ASSUME NEW k \in DOMAIN idle' PROVE k \in DOMAIN idle /\ Within(idle'[k], idle[k])
  <2>1. k \in DOMAIN idle /\ Len(idle'[k]) <= Len(idle[k]) /\ ReadsAt(idle'[k], idle[k], Kept(k))
    BY ClearExpiredFacts
  <2>2. PICK f \in [1..Len(idle'[k]) -> Kept(k)] :
           /\ \A n \in 1..Len(idle'[k]) : idle'[k][n] = idle[k][f[n]]
           /\ \A n, m \in 1..Len(idle'[k]) : n < m => f[n] < f[m]
    BY <2>1 DEF ReadsAt
  <2>3. Kept(k) \subseteq 1..Len(idle[k])
    BY DEF Kept
  <2>4. f \in [1..Len(idle'[k]) -> 1..Len(idle[k])]
    BY <2>2, <2>3
  <2> QED
    BY <2>1, <2>2, <2>4 DEF Within
<1> QED
  BY <1>1 DEF Shrinks

\* A step puts a connection in the pool, or takes connections out of it.
Puts(k, c) == /\ k \in Keys /\ c \in Conns /\ idle' = PutIdle(k, c)
              /\ co' = PutCo(k, c) /\ slot' = PutSlot(k, c) /\ coKey' = coKey

\* What a step does to the idle lists: it takes connections out, or it puts one in.
LEMMA IdleSteps ==
  ASSUME Inv, [Next]_vars
  PROVE  \/ Shrinks
         \/ \E t \in Connects, c \in Conns, s \in {"ready", "closed"} :
               PooledShared(t, c, s) /\ Puts(ctKey[t], c) /\ HostOf[c] = ctKey[t]
         \/ \E o \in Owners : PutBack(o) /\ Puts(handle[o].key, handle[o].conn)
<1>t. TypeOK
  BY DEF Inv
<1> USE DEF inner
<1>1. ASSUME NEW x \in Checkouts, PollHit(x) PROVE Shrinks
  BY <1>t, <1>1, HitShrinks
<1>2. ASSUME NEW x \in Checkouts, PollMiss(x) PROVE Shrinks
  BY <1>t, <1>2, FewerKeys DEF PollMiss, WithoutKey
<1>3. CASE ClearExpired
  BY <1>t, <1>3, ClearShrinks
<1>4. CASE DropPool
  <2>1. DOMAIN idle' = {}
    BY <1>4 DEF DropPool
  <2> QED
    BY <1>t, <2>1, FewerKeys
<1>5. ASSUME NEW t \in Connects, NEW c \in Conns, NEW s \in {"ready", "closed"}, PooledShared(t, c, s)
      PROVE  Puts(ctKey[t], c) /\ HostOf[c] = ctKey[t]
  BY <1>5, SharedPut DEF Puts
<1>6. ASSUME NEW o \in Owners, PutBack(o) PROVE Puts(handle[o].key, handle[o].conn)
  BY <1>t, <1>6, DroppingTypes DEF Puts, PutBack, Put
<1>7. ASSUME idle' = idle PROVE Shrinks
  BY <1>t, <1>7, FewerKeys
<1>8. ASSUME NEW x \in Checkouts,
             \/ \E k \in Keys : Checkout(x, k)
             \/ PollReceived(x) \/ PollCanceled(x) \/ DropCheckout(x) \/ CleanWaiters(x)
      PROVE  Shrinks
  BY <1>7, <1>8 DEF Checkout, PollReceived, PollCanceled, DropCheckout, CleanWaiters
<1>9. ASSUME NEW t \in Connects,
             \/ \E k \in Keys : ConnectAuto(t, k) \/ ConnectHttp2(t, k)
             \/ AlpnH2(t) \/ DropConnecting(t)
             \/ \E c \in Conns, s \in {"ready", "closed"} : PooledUnique(t, c, s)
      PROVE  Shrinks
  BY <1>7, <1>9 DEF ConnectAuto, ConnectHttp2, AlpnH2, DropConnecting, PooledUnique
<1>10. ASSUME NEW o \in Owners, Use(o) \/ DropPooled(o) PROVE Shrinks
  BY <1>7, <1>10 DEF Use, DropPooled
<1>11. ASSUME NEW c \in Conns, ConnReady(c) \/ ConnClosed(c) PROVE Shrinks
  BY <1>7, <1>11 DEF ConnReady, ConnClosed
<1>12. CASE IdleTaskEnds \/ Tick \/ UNCHANGED vars
  BY <1>7, <1>12 DEF IdleTaskEnds, Tick, vars
<1> DEFINE A == \E t \in Connects, c \in Conns, s \in {"ready", "closed"} :
                    PooledShared(t, c, s) /\ Puts(ctKey[t], c) /\ HostOf[c] = ctKey[t]
           B == \E o \in Owners : PutBack(o) /\ Puts(handle[o].key, handle[o].conn)
<1>13. ASSUME NEW t \in Connects, NEW c \in Conns, NEW s \in {"ready", "closed"}, PooledShared(t, c, s)
       PROVE  A
  BY <1>5, <1>13, Zenon
<1>14. ASSUME NEW o \in Owners, PutBack(o) PROVE B
  BY <1>6, <1>14, Zenon
<1> HIDE DEF A, B
<1>15. Shrinks \/ A \/ B
  BY <1>1, <1>2, <1>3, <1>4, <1>8, <1>9, <1>10, <1>11, <1>12, <1>13, <1>14, Zenon DEF Next
<1> QED
  BY <1>15 DEF A, B

-----------------------------------------------------------------------------
(* Connections are kept under the key they were opened for.                *)

IdleHost == \A k \in DOMAIN idle : \A i \in 1..Len(idle[k]) : HostOf[idle[k][i].conn] = k
SlotHost == \A x \in Checkouts : slot[x] # NoConn => HostOf[slot[x]] = coKey[x]
HandleHost == \A o \in Owners : handle[o] # NoHandle => HostOf[handle[o].conn] = handle[o].key

\* Taking connections out keeps the others where they are.
LEMMA ShrinksHost ==
  ASSUME Shrinks, IdleHost
  PROVE  IdleHost'
<1>1. ASSUME NEW k \in DOMAIN idle', NEW i \in 1..Len(idle'[k]) PROVE HostOf[idle'[k][i].conn] = k
  <2>1. k \in DOMAIN idle /\ \E j \in 1..Len(idle[k]) : idle'[k][i].conn = idle[k][j].conn
    BY DEF Shrinks, Within
  <2> QED
    BY <2>1 DEF IdleHost
<1> QED
  BY <1>1 DEF IdleHost

\* put stores a connection under its own key.
LEMMA PutsHost ==
  ASSUME TypeOK, IdleHost, NEW k, NEW c, Puts(k, c), HostOf[c] = k
  PROVE  IdleHost'
<1>1. /\ \A l \in DOMAIN idle' \ {k} : l \in DOMAIN idle /\ idle'[l] = idle[l]
      /\ ~Remains(k, c) => idle' = idle
      /\ Remains(k, c) => idle'[k] = PutList(k, c)
      /\ PutList(k, c) \in Seq(Entries)
      /\ \/ PutList(k, c) = IdleList(k)
         \/ /\ Len(PutList(k, c)) = Len(IdleList(k)) + 1
            /\ \A i \in 1..Len(IdleList(k)) : PutList(k, c)[i] = IdleList(k)[i]
            /\ PutList(k, c)[Len(IdleList(k)) + 1] = [conn |-> c, at |-> now]
  BY PutIdleFacts DEF Puts
<1>2. Len(IdleList(k)) \in Nat
  BY ListTypes DEF Puts
<1>3. \A i \in 1..Len(IdleList(k)) : HostOf[IdleList(k)[i].conn] = k
  BY DEF IdleList, IdleHost
<1>4. ASSUME NEW i \in 1..Len(PutList(k, c)) PROVE HostOf[PutList(k, c)[i].conn] = k
  <2>1. i \in 1..Len(IdleList(k)) \/ (i = Len(IdleList(k)) + 1 /\ PutList(k, c)[i] = [conn |-> c, at |-> now])
    BY <1>1, <1>2
  <2>2. CASE i \in 1..Len(IdleList(k))
    <3>1. PutList(k, c)[i] = IdleList(k)[i]
      BY <1>1, <2>2
    <3> QED
      BY <1>3, <2>2, <3>1
  <2>3. CASE PutList(k, c)[i] = [conn |-> c, at |-> now]
    BY <2>3
  <2> QED
    BY <2>1, <2>2, <2>3
<1>5. ASSUME NEW l \in DOMAIN idle', NEW i \in 1..Len(idle'[l]) PROVE HostOf[idle'[l][i].conn] = l
  <2>1. CASE l # k
    BY <1>1, <2>1 DEF IdleHost
  <2>2. CASE l = k /\ Remains(k, c)
    BY <1>1, <1>4, <2>2
  <2>3. CASE ~Remains(k, c)
    BY <1>1, <2>3 DEF IdleHost
  <2> QED
    BY <2>1, <2>2, <2>3
<1> QED
  BY <1>5 DEF IdleHost

\* put sends a connection to checkouts of its own key.
LEMMA PutsSlot ==
  ASSUME TypeOK, Reach(co, waiters, coKey), SlotHost, NEW k, NEW c, Puts(k, c), HostOf[c] = k
  PROVE  SlotHost'
<1>1. k \in Keys /\ c \in Conns /\ slot' = PutSlot(k, c) /\ coKey' = coKey
  BY DEF Puts
<1>2. \A x \in Served(k, c) : coKey[x] = k
  BY <1>1, ServedWaiting, QueueElements
<1> QED
  BY <1>1, <1>2 DEF SlotHost, PutSlot

Hosts == IdleHost /\ SlotHost /\ HandleHost

\* Every step keeps connections under their key.
LEMMA HostStep ==
  Inv /\ Reach(co, waiters, coKey) /\ Hosts /\ [Next]_vars => Hosts'
<1> SUFFICES ASSUME Inv, Reach(co, waiters, coKey), Hosts, [Next]_vars PROVE Hosts'
  OBVIOUS
<1>t. TypeOK /\ SlotMatches /\ IdleHost /\ SlotHost /\ HandleHost
  BY DEF Inv, Hosts
<1> USE DEF inner
<1>1. \/ Shrinks
      \/ \E t \in Connects, c \in Conns, s \in {"ready", "closed"} :
            PooledShared(t, c, s) /\ Puts(ctKey[t], c) /\ HostOf[c] = ctKey[t]
      \/ \E o \in Owners : PutBack(o) /\ Puts(handle[o].key, handle[o].conn)
  BY IdleSteps
<1>2. ASSUME NEW t \in Connects, NEW c \in Conns, NEW s \in {"ready", "closed"},
             PooledShared(t, c, s), Puts(ctKey[t], c), HostOf[c] = ctKey[t]
      PROVE  Hosts'
  <2>1. IdleHost' /\ SlotHost'
    BY <1>t, <1>2, PutsHost, PutsSlot
  <2>2. handle' = [handle EXCEPT ![t] = [st |-> "held", conn |-> c, key |-> ctKey[t]]] /\ t \in Owners
    BY <1>2 DEF PooledShared, Owners
  <2>3. HandleHost'
    BY <1>t, <1>2, <2>2 DEF HandleHost, TypeOK
  <2> QED
    BY <2>1, <2>3 DEF Hosts
<1>3. ASSUME NEW o \in Owners, PutBack(o), Puts(handle[o].key, handle[o].conn) PROVE Hosts'
  <2>1. handle[o] # NoHandle
    BY <1>3 DEF PutBack, NoHandle
  <2>2. HostOf[handle[o].conn] = handle[o].key
    BY <1>t, <2>1 DEF HandleHost
  <2>3. IdleHost' /\ SlotHost'
    BY <1>t, <1>3, <2>2, PutsHost, PutsSlot
  <2>4. HandleHost'
    BY <1>t, <1>3 DEF PutBack, HandleHost, TypeOK
  <2> QED
    BY <2>3, <2>4 DEF Hosts
<1>4. ASSUME Shrinks, UNCHANGED <<slot, coKey, handle>> PROVE Hosts'
  BY <1>t, <1>4, ShrinksHost DEF Hosts, SlotHost, HandleHost
<1>5. ASSUME Shrinks, NEW x \in Checkouts, NEW k \in Keys, Checkout(x, k) PROVE Hosts'
  <2>1. slot[x] = NoConn
    BY <1>t, <1>5 DEF Checkout, SlotMatches
  <2>2. SlotHost' /\ HandleHost'
    BY <1>t, <1>5, <2>1 DEF Checkout, SlotHost, HandleHost, TypeOK
  <2> QED
    BY <1>t, <1>5, <2>2, ShrinksHost DEF Hosts
<1>6. ASSUME Shrinks, NEW x \in Checkouts, PollHit(x) PROVE Hosts'
  <2> DEFINE k == coKey[x]
             d == IdleList(k)[Top(k)].conn
  <2>1. k \in Keys /\ Usable(k) # {} /\ x \in Owners
    BY <1>t, <1>6 DEF PollHit, TypeOK, Owners
  <2>2. Top(k) \in 1..Len(IdleList(k)) /\ k \in DOMAIN idle
    BY <1>t, <2>1, TopIsUsable
  <2>3. HostOf[d] = k
    BY <1>t, <2>2 DEF IdleHost, IdleList
  <2>4. handle' = [handle EXCEPT ![x] = [st |-> "held", conn |-> d, key |-> k]]
        /\ UNCHANGED <<slot, coKey>>
    BY <1>6 DEF PollHit
  <2> HIDE DEF d, k
  <2>5. SlotHost' /\ HandleHost'
    BY <1>t, <2>1, <2>3, <2>4 DEF SlotHost, HandleHost, TypeOK
  <2> QED
    BY <1>t, <1>6, <2>5, ShrinksHost DEF Hosts
<1>7. ASSUME Shrinks, NEW x \in Checkouts, PollReceived(x) PROVE Hosts'
  <2>1. x \in Owners /\ co[x] = "sent" /\ slot[x] # NoConn /\ HostOf[slot[x]] = coKey[x]
    BY <1>t, <1>7 DEF PollReceived, SlotMatches, SlotHost, Owners
  <2>2. SlotHost'
    BY <1>t, <1>7 DEF PollReceived, SlotHost, TypeOK
  <2>3. HandleHost'
    BY <1>t, <1>7, <2>1 DEF PollReceived, HandleHost, TypeOK
  <2> QED
    BY <1>t, <1>7, <2>2, <2>3, ShrinksHost DEF Hosts
<1>8. ASSUME Shrinks, NEW x \in Checkouts, DropCheckout(x) PROVE Hosts'
  <2>1. SlotHost' /\ HandleHost'
    BY <1>t, <1>8 DEF DropCheckout, SlotHost, HandleHost, TypeOK
  <2> QED
    BY <1>t, <1>8, <2>1, ShrinksHost DEF Hosts
<1>9. ASSUME Shrinks, NEW t \in Connects, NEW c \in Conns, NEW s \in {"ready", "closed"},
             PooledUnique(t, c, s)
      PROVE  Hosts'
  <2>1. t \in Owners
    BY DEF Owners
  <2>2. SlotHost' /\ HandleHost'
    BY <1>t, <1>9, <2>1 DEF PooledUnique, SlotHost, HandleHost, TypeOK
  <2> QED
    BY <1>t, <1>9, <2>2, ShrinksHost DEF Hosts
<1>10. ASSUME Shrinks, NEW o \in Owners, DropPooled(o) PROVE Hosts'
  <2>1. handle[o] # NoHandle /\ handle[o] \in Handles
    BY <1>t, <1>10 DEF DropPooled, NoHandle, TypeOK
  <2>2. handle' = [handle EXCEPT ![o] = handle'[o]]
        /\ (handle'[o] = NoHandle \/ handle'[o] = [handle[o] EXCEPT !.st = "dropping"])
    BY <1>t, <1>10 DEF DropPooled, TypeOK
  <2>3. [handle[o] EXCEPT !.st = "dropping"].conn = handle[o].conn
        /\ [handle[o] EXCEPT !.st = "dropping"].key = handle[o].key
    BY <2>1 DEF Handles
  <2>4. HandleHost'
    <3>1. \A p \in Owners \ {o} : handle'[p] = handle[p]
      BY <1>t, <2>2 DEF TypeOK
    <3> QED
      BY <1>t, <2>1, <2>2, <2>3, <3>1 DEF HandleHost
  <2>5. SlotHost'
    BY <1>t, <1>10 DEF DropPooled, SlotHost
  <2> QED
    BY <1>t, <1>10, <2>4, <2>5, ShrinksHost DEF Hosts
<1>11. ASSUME Shrinks, NEW x \in Checkouts, PollMiss(x) \/ PollCanceled(x) \/ CleanWaiters(x)
       PROVE  Hosts'
  BY <1>4, <1>11 DEF PollMiss, PollCanceled, CleanWaiters
<1>12. ASSUME Shrinks, NEW t \in Connects,
              \/ \E k \in Keys : ConnectAuto(t, k) \/ ConnectHttp2(t, k)
              \/ AlpnH2(t) \/ DropConnecting(t)
       PROVE  Hosts'
  BY <1>4, <1>12 DEF ConnectAuto, ConnectHttp2, AlpnH2, DropConnecting
<1>13. ASSUME Shrinks, NEW o \in Owners, Use(o) PROVE Hosts'
  BY <1>4, <1>13 DEF Use
<1>14. ASSUME Shrinks, NEW c \in Conns, ConnReady(c) \/ ConnClosed(c) PROVE Hosts'
  BY <1>4, <1>14 DEF ConnReady, ConnClosed
<1>15. ASSUME Shrinks, ClearExpired \/ IdleTaskEnds \/ DropPool \/ Tick \/ UNCHANGED vars PROVE Hosts'
  BY <1>4, <1>15 DEF ClearExpired, IdleTaskEnds, DropPool, Tick, vars
<1>16. ASSUME NEW t \in Connects, NEW c \in Conns, NEW s \in {"ready", "closed"}, PooledShared(t, c, s)
       PROVE  Hosts'
  <2>1. Puts(ctKey[t], c) /\ HostOf[c] = ctKey[t]
    BY <1>16, SharedPut DEF Puts
  <2> QED
    BY <1>2, <1>16, <2>1
<1>17. ASSUME NEW o \in Owners, PutBack(o) PROVE Hosts'
  <2>1. Puts(handle[o].key, handle[o].conn)
    BY <1>t, <1>17, DroppingTypes DEF Puts, PutBack, Put
  <2> QED
    BY <1>3, <1>17, <2>1
<1>18. CASE Shrinks
  BY <1>5, <1>6, <1>7, <1>8, <1>9, <1>10, <1>11, <1>12, <1>13, <1>14, <1>15, <1>16, <1>17, <1>18,
     Zenon DEF Next
<1> QED
  BY <1>1, <1>2, <1>3, <1>18, Zenon

Waits == Inv /\ Reach(co, waiters, coKey)

\* The invariant of the waiters is inductive.
LEMMA WaitsInductive == (Init => Waits) /\ (Waits /\ [Next]_vars => Waits')
<1>1. Init => Waits
  <2> SUFFICES ASSUME Init PROVE Waits
    OBVIOUS
  <2>1. DOMAIN waiters = {} /\ \A x \in Checkouts : co[x] = "none"
    BY DEF Init
  <2> QED
    BY <2>1, TypeInit, ExclusionInit DEF Reach, Inv, Waits
<1>2. Waits /\ [Next]_vars => Waits'
  BY InvStep, ReachStep DEF Waits
<1> QED
  BY <1>1, <1>2

\* A request to one host is never sent on a connection to another: connections
\* are stored, delivered and handed out under the key they were opened for.
THEOREM RightHostCorrect == Spec => []RightHost
<1>1. Init => Hosts
  BY DEF Init, Hosts, IdleHost, SlotHost, HandleHost
<1>2. Waits /\ Hosts /\ [Next]_vars => Hosts'
  BY HostStep DEF Waits
<1>3. Hosts => RightHost
  BY DEF Hosts, IdleHost, SlotHost, HandleHost, RightHost
<1>4. (Init => Waits) /\ (Waits /\ [Next]_vars => Waits')
  BY WaitsInductive
<1> QED
  BY <1>1, <1>2, <1>3, <1>4, PTL DEF Spec

-----------------------------------------------------------------------------
(* The idle lists.                                                         *)

\* A list is not too long, is ordered by age, and has one HTTP/2 connection.
ListOK(s, t) ==
    /\ Len(s) <= MaxIdle
    /\ \A i \in 1..Len(s) : s[i].at <= t
    /\ \A i, j \in 1..Len(s) : /\ i < j => s[i].at <= s[j].at
                               /\ Shared(s[i].conn) /\ Shared(s[j].conn) => i = j

\* So is a list within it.
LEMMA WithinOK ==
  ASSUME NEW s \in Seq(Entries), NEW r \in Seq(Entries), now \in Nat, ListOK(s, now), Within(r, s)
  PROVE  ListOK(r, now)
<1>1. Len(r) \in Nat /\ Len(s) \in Nat /\ MaxIdle \in Nat /\ Len(r) <= Len(s)
  BY PoolAssumption DEF Within
<1>2. PICK f \in [1..Len(r) -> 1..Len(s)] :
         /\ \A n, m \in 1..Len(r) : n < m => f[n] < f[m]
         /\ \A n \in 1..Len(r) : /\ r[n].conn = s[f[n]].conn
                                 /\ r[n].at = s[f[n]].at \/ (n = Len(r) /\ r[n].at = now)
  BY DEF Within
<1>3. (\A n \in 1..Len(r) : r[n] \in Entries) /\ (\A n \in 1..Len(s) : s[n] \in Entries)
  BY ElementOfSeq
<1>4. (\A n \in 1..Len(r) : r[n].at \in Nat) /\ (\A n \in 1..Len(s) : s[n].at \in Nat)
  BY <1>3 DEF Entries
<1>5. \A n \in 1..Len(r) : r[n].at <= now
  BY <1>2, <1>4 DEF ListOK
<1>6. ASSUME NEW n \in 1..Len(r), NEW m \in 1..Len(r), n < m PROVE r[n].at <= r[m].at
  <2>1. n # Len(r) /\ r[n].at = s[f[n]].at
    BY <1>1, <1>2, <1>6
  <2>2. f[n] \in 1..Len(s) /\ f[m] \in 1..Len(s) /\ f[n] < f[m]
    BY <1>2, <1>6
  <2>3. s[f[n]].at <= s[f[m]].at /\ s[f[n]].at <= now
    BY <2>2 DEF ListOK
  <2> QED
    BY <1>2, <2>1, <2>3
<1>7. ASSUME NEW n \in 1..Len(r), NEW m \in 1..Len(r), Shared(r[n].conn), Shared(r[m].conn)
      PROVE  n = m
  <2>1. f[n] = f[m]
    <3>1. /\ f[n] \in 1..Len(s) /\ f[m] \in 1..Len(s)
          /\ r[n].conn = s[f[n]].conn /\ r[m].conn = s[f[m]].conn
      BY <1>2
    <3> QED
      BY <1>7, <3>1 DEF ListOK
  <2>2. f[n] \in Nat /\ f[m] \in Nat
    BY <1>1, <1>2
  <2>3. ~(n < m) /\ ~(m < n)
    BY <1>2, <2>1, <2>2
  <2> QED
    BY <1>1, <2>3
<1>8. Len(r) <= MaxIdle
  BY <1>1 DEF ListOK
<1> QED
  BY <1>5, <1>6, <1>7, <1>8 DEF ListOK

\* put appends the youngest, and an HTTP/2 connection only to a list it starts.
LEMMA PutOK ==
  ASSUME TypeOK, NEW k \in Keys, NEW c \in Conns, Remains(k, c),
         k \in DOMAIN idle => ListOK(idle[k], now)
  PROVE  ListOK(PutList(k, c), now)
<1> DEFINE q == IdleList(k)
           r == PutList(k, c)
<1>1. q \in Seq(Entries) /\ Len(q) \in Nat /\ MaxIdle \in Nat \ {0} /\ now \in Nat
  BY ListTypes, PoolAssumption DEF TypeOK
<1>2. ListOK(q, now)
  <2>1. CASE k \in DOMAIN idle
    BY <2>1 DEF IdleList
  <2>2. CASE k \notin DOMAIN idle
    <3>1. q = <<>>
      BY <2>2 DEF IdleList
    <3>2. Len(q) = 0 /\ 1..Len(q) = {}
      BY <3>1
    <3> QED
      BY <1>1, <3>2 DEF ListOK
  <2> QED
    BY <2>1, <2>2
<1>3. r \in Seq(Entries)
      /\ \/ r = q
         \/ /\ Len(q) < MaxIdle /\ Len(r) = Len(q) + 1
            /\ \A i \in 1..Len(q) : r[i] = q[i]
            /\ r[Len(q) + 1] = [conn |-> c, at |-> now]
  BY PutIdleFacts
<1>4. Shared(c) => Len(q) = 0
  <2>1. Shared(c) => k \notin DOMAIN idle
    BY DEF Remains, Rejects
  <2> QED
    BY <2>1 DEF IdleList
<1> HIDE DEF q, r
<1>5. CASE r = q
  BY <1>2, <1>5 DEF r
<1>6. CASE /\ Len(q) < MaxIdle /\ Len(r) = Len(q) + 1
           /\ \A i \in 1..Len(q) : r[i] = q[i]
           /\ r[Len(q) + 1] = [conn |-> c, at |-> now]
  <2>1. \A i \in 1..Len(r) : i \in 1..Len(q) \/ i = Len(q) + 1
    BY <1>1, <1>6
  <2>2. \A i \in 1..Len(q) : q[i] \in Entries /\ q[i].at \in Nat /\ q[i].at <= now
    <3>1. \A i \in 1..Len(q) : q[i] \in Entries
      BY <1>1, ElementOfSeq
    <3> QED
      BY <1>2, <3>1 DEF ListOK, Entries
  <2>3. r[Len(q) + 1].at = now /\ r[Len(q) + 1].conn = c
    BY <1>6
  <2>4. \A i \in 1..Len(r) : r[i].at <= now
    BY <1>1, <1>6, <2>1, <2>2, <2>3
  <2>5. ASSUME NEW i \in 1..Len(r), NEW j \in 1..Len(r), i < j PROVE r[i].at <= r[j].at
    <3>1. i \in 1..Len(q)
      BY <1>1, <1>6, <2>5
    <3>2. CASE j \in 1..Len(q)
      BY <1>2, <1>6, <2>5, <3>1, <3>2 DEF ListOK
    <3>3. CASE j = Len(q) + 1
      BY <1>6, <2>2, <2>3, <3>1, <3>3
    <3> QED
      BY <2>1, <3>2, <3>3
  <2>6. ASSUME NEW i \in 1..Len(r), NEW j \in 1..Len(r), Shared(r[i].conn), Shared(r[j].conn)
        PROVE  i = j
    <3>1. CASE Shared(c)
      BY <1>1, <1>4, <1>6, <3>1
    <3>2. CASE ~Shared(c)
      <4>1. i \in 1..Len(q) /\ j \in 1..Len(q)
        BY <2>1, <2>3, <2>6, <3>2
      <4> QED
        BY <1>2, <1>6, <2>6, <4>1 DEF ListOK
    <3> QED
      BY <3>1, <3>2
  <2>7. Len(r) <= MaxIdle
    BY <1>1, <1>6
  <2>8. ListOK(r, now)
    BY <2>4, <2>5, <2>6, <2>7 DEF ListOK
  <2> QED
    BY <2>8 DEF r
<1> QED
  BY <1>3, <1>5, <1>6

Shapes == \A k \in DOMAIN idle : ListOK(idle[k], now)

\* Every step keeps the lists in shape.
LEMMA ShapeStep == Inv /\ Shapes /\ [Next]_vars => Shapes'
<1> SUFFICES ASSUME Inv, Shapes, [Next]_vars PROVE Shapes'
  OBVIOUS
<1>t. TypeOK /\ TypeOK'
  BY InvStep DEF Inv
<1> USE DEF inner
<1>1. CASE Tick
  <2>1. idle' = idle /\ now' = now + 1 /\ now \in Nat
    BY <1>t, <1>1 DEF Tick, TypeOK
  <2>2. \A k \in DOMAIN idle : \A i \in 1..Len(idle[k]) : idle[k][i].at \in Nat
    <3>1. \A k \in DOMAIN idle : \A i \in 1..Len(idle[k]) : idle[k][i] \in Entries
      BY <1>t, ElementOfSeq DEF TypeOK
    <3> QED
      BY <3>1 DEF Entries
  <2> QED
    BY <2>1, <2>2 DEF Shapes, ListOK
<1>2. now' = now \/ Tick
  BY DEF Next, Checkout, PollHit, PollMiss, PollReceived, PollCanceled, DropCheckout, CleanWaiters,
         ConnectAuto, ConnectHttp2, AlpnH2, DropConnecting, PooledShared, PooledUnique, Use, DropPooled,
         PutBack, ConnReady, ConnClosed, ClearExpired, IdleTaskEnds, DropPool, vars
<1>3. ASSUME now' = now, Shrinks PROVE Shapes'
  <2>1. ASSUME NEW k \in DOMAIN idle' PROVE ListOK(idle'[k], now)
    <3>1. k \in DOMAIN idle /\ Within(idle'[k], idle[k]) /\ ListOK(idle[k], now)
      BY <1>3 DEF Shrinks, Shapes
    <3>2. idle[k] \in Seq(Entries) /\ idle'[k] \in Seq(Entries) /\ now \in Nat
      BY <1>t, <3>1 DEF TypeOK
    <3> QED
      BY <3>1, <3>2, WithinOK
  <2> QED
    BY <1>3, <2>1 DEF Shapes
<1>4. ASSUME NEW k, NEW c, now' = now, Puts(k, c) PROVE Shapes'
  <2>1. /\ k \in Keys /\ c \in Conns
        /\ \A l \in DOMAIN idle' \ {k} : l \in DOMAIN idle /\ idle'[l] = idle[l]
        /\ ~Remains(k, c) => idle' = idle
        /\ Remains(k, c) => idle'[k] = PutList(k, c)
    BY <1>t, <1>4, PutIdleFacts DEF Puts
  <2>2. Remains(k, c) => ListOK(PutList(k, c), now)
    BY <1>t, <2>1, PutOK DEF Shapes
  <2>3. ASSUME NEW l \in DOMAIN idle' PROVE ListOK(idle'[l], now)
    <3>1. CASE l # k \/ ~Remains(k, c)
      BY <2>1, <3>1 DEF Shapes
    <3>2. CASE l = k /\ Remains(k, c)
      BY <2>1, <2>2, <3>2
    <3> QED
      BY <3>1, <3>2
  <2> QED
    BY <1>4, <2>3 DEF Shapes
<1>5. \/ Shrinks
      \/ \E t \in Connects, c \in Conns, s \in {"ready", "closed"} :
            PooledShared(t, c, s) /\ Puts(ctKey[t], c) /\ HostOf[c] = ctKey[t]
      \/ \E o \in Owners : PutBack(o) /\ Puts(handle[o].key, handle[o].conn)
  BY IdleSteps
<1> QED
  BY <1>1, <1>2, <1>3, <1>4, <1>5

\* An idle list never outgrows max_idle_per_host, is ordered by age, which the
\* TODO in IdlePopper::pop asks for, and holds at most one HTTP/2 connection.
THEOREM IdleListShapeCorrect == Spec => []IdleListShape
<1>1. Init => Shapes
  BY DEF Init, Shapes
<1>2. Inv /\ Shapes /\ [Next]_vars => Shapes'
  BY ShapeStep
<1>3. Shapes => IdleListShape
  BY DEF Shapes, ListOK, IdleListShape
<1> QED
  BY <1>1, <1>2, <1>3, InvAlways, PTL DEF Spec

-----------------------------------------------------------------------------
(* An HTTP/1 connection is in one place.                                   *)

IdleOnce(c) ==
    \A k, l \in DOMAIN idle : \A i \in 1..Len(idle[k]), j \in 1..Len(idle[l]) :
        idle[k][i].conn = c /\ idle[l][j].conn = c => k = l /\ i = j
SlotOnce(c) == \A x, y \in Checkouts : slot[x] = c /\ slot[y] = c => x = y
HandleOnce(c) == \A o, p \in Owners : handle[o].conn = c /\ handle[p].conn = c => o = p

Custody(c) ==
    /\ status[c] = "unborn" => ~(InIdle(c) \/ InSlot(c) \/ InHandle(c))
    /\ IdleOnce(c) /\ SlotOnce(c) /\ HandleOnce(c)
    /\ ~(InIdle(c) /\ InSlot(c))
    /\ ~(InIdle(c) /\ InHandle(c))
    /\ ~(InSlot(c) /\ InHandle(c))

\* Taking connections out of the pool.
LEMMA ShrinksCustody ==
  ASSUME TypeOK, Shrinks, NEW c, IdleOnce(c)
  PROVE  IdleOnce(c)' /\ (InIdle(c)' => InIdle(c))
<1>1. ASSUME NEW k \in DOMAIN idle', NEW i \in 1..Len(idle'[k]), idle'[k][i].conn = c
      PROVE  InIdle(c)
  BY <1>1 DEF Shrinks, Within, InIdle
<1>2. ASSUME NEW k \in DOMAIN idle', NEW l \in DOMAIN idle', NEW i \in 1..Len(idle'[k]),
             NEW j \in 1..Len(idle'[l]), idle'[k][i].conn = c, idle'[l][j].conn = c
      PROVE  k = l /\ i = j
  <2>1. k \in DOMAIN idle /\ l \in DOMAIN idle /\ Len(idle[k]) \in Nat
    BY DEF Shrinks, TypeOK
  <2>2. PICK f \in [1..Len(idle'[k]) -> 1..Len(idle[k])] :
           /\ \A n, m \in 1..Len(idle'[k]) : n < m => f[n] < f[m]
           /\ \A n \in 1..Len(idle'[k]) : idle'[k][n].conn = idle[k][f[n]].conn
    BY DEF Shrinks, Within
  <2>3. PICK g \in [1..Len(idle'[l]) -> 1..Len(idle[l])] :
           \A n \in 1..Len(idle'[l]) : idle'[l][n].conn = idle[l][g[n]].conn
    BY DEF Shrinks, Within
  <2>4. k = l
    <3>1. f[i] \in 1..Len(idle[k]) /\ idle[k][f[i]].conn = c
      BY <1>2, <2>2
    <3>2. g[j] \in 1..Len(idle[l]) /\ idle[l][g[j]].conn = c
      BY <1>2, <2>3
    <3> QED
      BY <2>1, <3>1, <3>2 DEF IdleOnce
  <2>5. f[i] = f[j] /\ f[i] \in Nat /\ f[j] \in Nat /\ i \in Int /\ j \in Int
    <3>1. j \in 1..Len(idle'[k]) /\ idle'[k][j].conn = c
      BY <1>2, <2>4
    <3>2. f[i] \in 1..Len(idle[k]) /\ f[j] \in 1..Len(idle[k])
          /\ idle[k][f[i]].conn = c /\ idle[k][f[j]].conn = c
      <4>1. f[i] \in 1..Len(idle[k]) /\ f[j] \in 1..Len(idle[k])
        BY <1>2, <2>2, <3>1
      <4>2. idle'[k][i].conn = idle[k][f[i]].conn /\ idle'[k][j].conn = idle[k][f[j]].conn
        BY <1>2, <2>2, <3>1
      <4> QED
        BY <1>2, <3>1, <4>1, <4>2
    <3> QED
      BY <2>1, <3>2 DEF IdleOnce
  <2>6. j \in 1..Len(idle'[k])
    BY <2>4
  <2>7. ~(i < j) /\ ~(j < i)
    BY <2>2, <2>5, <2>6
  <2> QED
    BY <2>4, <2>5, <2>7
<1>3. InIdle(c)' => InIdle(c)
  BY <1>1 DEF InIdle
<1>4. IdleOnce(c)'
  BY <1>2 DEF IdleOnce
<1> QED
  BY <1>3, <1>4

\* A step that only lets c go.
LEMMA LetsGo ==
  ASSUME NEW c, Custody(c), status[c] = "unborn" \/ status'[c] # "unborn",
         IdleOnce(c)', SlotOnce(c)', HandleOnce(c)',
         InIdle(c)' => InIdle(c), InSlot(c)' => InSlot(c), InHandle(c)' => InHandle(c)
  PROVE  Custody(c)'
BY DEF Custody

\* A slot or a handle that is changed to something else than c.
LEMMA SlotsLess ==
  ASSUME NEW c, SlotOnce(c), \A x \in Checkouts : slot'[x] = slot[x] \/ slot'[x] # c
  PROVE  SlotOnce(c)' /\ (InSlot(c)' => InSlot(c))
BY DEF SlotOnce, InSlot

\* Pooled values that only go away or turn to other connections.
LEMMA HandlesLess ==
  ASSUME NEW c, HandleOnce(c),
         \A o \in Owners : handle'[o].conn = handle[o].conn \/ handle'[o].conn # c
  PROVE  HandleOnce(c)' /\ (InHandle(c)' => InHandle(c))
<1>1. \A o \in Owners : handle'[o].conn = c => handle[o].conn = c
  OBVIOUS
<1> QED
  BY <1>1 DEF HandleOnce, InHandle

\* put of another connection.
LEMMA PutOther ==
  ASSUME TypeOK, NEW k, NEW d, Puts(k, d), NEW c, c # d, IdleOnce(c)
  PROVE  IdleOnce(c)' /\ (InIdle(c)' => InIdle(c))
<1>1. /\ k \in Keys /\ d \in Conns
      /\ \A l \in DOMAIN idle' \ {k} : l \in DOMAIN idle /\ idle'[l] = idle[l]
      /\ ~Remains(k, d) => idle' = idle
      /\ Remains(k, d) => idle'[k] = PutList(k, d)
      /\ \/ PutList(k, d) = IdleList(k)
         \/ /\ Len(PutList(k, d)) = Len(IdleList(k)) + 1
            /\ \A i \in 1..Len(IdleList(k)) : PutList(k, d)[i] = IdleList(k)[i]
            /\ PutList(k, d)[Len(IdleList(k)) + 1] = [conn |-> d, at |-> now]
  BY PutIdleFacts DEF Puts
<1>2. Len(IdleList(k)) \in Nat
  BY <1>1, ListTypes
<1>3. ASSUME NEW l \in DOMAIN idle', NEW i \in 1..Len(idle'[l]), idle'[l][i].conn = c
      PROVE  l \in DOMAIN idle /\ i \in 1..Len(idle[l]) /\ idle[l][i].conn = c
  <2>1. CASE l # k \/ ~Remains(k, d)
    BY <1>1, <1>3, <2>1
  <2>2. CASE l = k /\ Remains(k, d)
    <3>1. idle'[l] = PutList(k, d)
      BY <1>1, <2>2
    <3>2. i \in 1..Len(IdleList(k)) /\ PutList(k, d)[i] = IdleList(k)[i]
      <4>1. CASE PutList(k, d) = IdleList(k)
        BY <3>1, <4>1
      <4>2. CASE /\ Len(PutList(k, d)) = Len(IdleList(k)) + 1
                 /\ \A n \in 1..Len(IdleList(k)) : PutList(k, d)[n] = IdleList(k)[n]
                 /\ PutList(k, d)[Len(IdleList(k)) + 1] = [conn |-> d, at |-> now]
        <5>1. i # Len(IdleList(k)) + 1
          BY <1>3, <3>1, <4>2
        <5> QED
          BY <1>2, <3>1, <4>2, <5>1
      <4> QED
        BY <1>1, <4>1, <4>2
    <3>3. k \in DOMAIN idle
      BY <3>2 DEF IdleList
    <3> QED
      BY <1>3, <2>2, <3>1, <3>2, <3>3 DEF IdleList
  <2> QED
    BY <2>1, <2>2
<1> QED
  BY <1>3 DEF IdleOnce, InIdle

\* put of c itself, which is nowhere in the pool.
LEMMA PutSelf ==
  ASSUME TypeOK, NEW k, NEW c, Puts(k, c), ~Shared(c), ~InIdle(c), ~InSlot(c)
  PROVE  IdleOnce(c)' /\ SlotOnce(c)' /\ ~(InIdle(c)' /\ InSlot(c)')
<1>1. /\ k \in Keys /\ c \in Conns
      /\ \A l \in DOMAIN idle' \ {k} : l \in DOMAIN idle /\ idle'[l] = idle[l]
      /\ ~Remains(k, c) => idle' = idle
      /\ Remains(k, c) => idle'[k] = PutList(k, c)
      /\ \/ PutList(k, c) = IdleList(k)
         \/ /\ Len(PutList(k, c)) = Len(IdleList(k)) + 1
            /\ \A i \in 1..Len(IdleList(k)) : PutList(k, c)[i] = IdleList(k)[i]
            /\ PutList(k, c)[Len(IdleList(k)) + 1] = [conn |-> c, at |-> now]
  BY PutIdleFacts DEF Puts
<1>2. Len(IdleList(k)) \in Nat
  BY <1>1, ListTypes
<1>3. \A i \in 1..Len(IdleList(k)) : IdleList(k)[i].conn # c
  BY DEF IdleList, InIdle
<1>4. ASSUME NEW l \in DOMAIN idle', NEW i \in 1..Len(idle'[l]), idle'[l][i].conn = c
      PROVE  l = k /\ Remains(k, c) /\ i = Len(IdleList(k)) + 1
  <2>1. l = k /\ Remains(k, c)
    BY <1>1, <1>4 DEF InIdle
  <2>2. i \in 1..Len(PutList(k, c)) /\ PutList(k, c)[i].conn = c
    BY <1>1, <1>4, <2>1
  <2>3. PutList(k, c) # IdleList(k)
    BY <1>3, <2>2
  <2> QED
    BY <1>1, <1>2, <1>3, <2>1, <2>2, <2>3
<1>5. IdleOnce(c)' /\ (InIdle(c)' => Remains(k, c))
  BY <1>4 DEF IdleOnce, InIdle
<1>6. \A x \in Checkouts : slot'[x] = c => x \in Served(k, c)
  BY DEF Puts, PutSlot, InSlot
<1>7. Remains(k, c) => Served(k, c) = {}
  BY DEF Remains
<1>8. \A x, y \in Served(k, c) : x = y
  <2>1. CASE LiveAt(k) = {}
    BY <2>1 DEF Served
  <2>2. CASE LiveAt(k) # {}
    <3>1. Popped(k, c) = Oldest(k)
      BY <2>2 DEF Popped, Rejects
    <3>2. Oldest(k) \in 1..Len(Queue(k)) /\ \A j \in LiveAt(k) : Oldest(k) <= j
      BY <1>1, <2>2, OldestIsLive
    <3>3. LiveAt(k) \subseteq 1..Len(Queue(k)) /\ Len(Queue(k)) \in Nat
      BY <1>1, ListTypes DEF LiveAt
    <3>4. \A j \in LiveAt(k) \cap (1..Popped(k, c)) : j = Oldest(k)
      BY <3>1, <3>2, <3>3
    <3> QED
      BY <3>4 DEF Served
  <2> QED
    BY <2>1, <2>2
<1> QED
  BY <1>5, <1>6, <1>7, <1>8 DEF SlotOnce, InSlot

\* A checkout takes an HTTP/1 connection out of the pool.
LEMMA HitTakes ==
  ASSUME TypeOK, NEW x \in Checkouts, PollHit(x), NEW c, ~Shared(c), IdleOnce(c),
         IdleList(coKey[x])[Top(coKey[x])].conn = c
  PROVE  InIdle(c) /\ ~InIdle(c)'
<1> DEFINE k == coKey[x]
<1>1. k \in Keys /\ Usable(k) # {}
  BY DEF PollHit, TypeOK
<1>2. Top(k) \in 1..Len(idle[k]) /\ k \in DOMAIN idle /\ IdleList(k) = idle[k] /\ idle[k][Top(k)].conn = c
  BY <1>1, TopIsUsable DEF IdleList
<1>3. /\ \A l \in DOMAIN idle' \ {k} : l \in DOMAIN idle /\ idle'[l] = idle[l]
      /\ k \in DOMAIN idle' => idle'[k] = Leftover(k)
  BY HitShrinks
<1>4. Len(Leftover(k)) = Top(k) - 1 /\ \A i \in 1..(Top(k) - 1) : Leftover(k)[i] = idle[k][i]
  BY <1>1, <1>2, LeftoverFacts
<1>5. Len(idle[k]) \in Nat
  BY <1>2 DEF TypeOK
<1>6. ASSUME NEW l \in DOMAIN idle', NEW i \in 1..Len(idle'[l]), idle'[l][i].conn = c PROVE FALSE
  <2>1. CASE l # k
    <3>1. l \in DOMAIN idle /\ i \in 1..Len(idle[l]) /\ idle[l][i].conn = c
      BY <1>3, <1>6, <2>1
    <3> QED
      BY <1>2, <2>1, <3>1 DEF IdleOnce
  <2>2. CASE l = k
    <3>1. i \in 1..(Top(k) - 1) /\ idle[k][i].conn = c
      BY <1>3, <1>4, <1>6, <2>2
    <3>2. i \in 1..Len(idle[k]) /\ i # Top(k)
      BY <1>2, <1>5, <3>1
    <3> QED
      BY <1>2, <3>1, <3>2 DEF IdleOnce
  <2> QED
    BY <2>1, <2>2
<1> QED
  BY <1>2, <1>6 DEF InIdle

\* Every step keeps an HTTP/1 connection in one place.
LEMMA CustodyStep ==
  ASSUME Inv, [Next]_vars, NEW c \in Conns, ~Shared(c), Custody(c)
  PROVE  Custody(c)'
<1>t. TypeOK /\ SlotMatches /\ c # NoConn
  BY PoolAssumption DEF Inv
<1>c. IdleOnce(c) /\ SlotOnce(c) /\ HandleOnce(c)
  BY DEF Custody
<1> USE DEF inner
<1>1. ASSUME Shrinks, status[c] = "unborn" \/ status'[c] # "unborn",
             \A x \in Checkouts : slot'[x] = slot[x] \/ slot'[x] # c,
             \A o \in Owners : handle'[o].conn = handle[o].conn \/ handle'[o].conn # c
      PROVE  Custody(c)'
  <2>1. IdleOnce(c)' /\ (InIdle(c)' => InIdle(c))
    BY <1>t, <1>c, <1>1, ShrinksCustody
  <2>2. SlotOnce(c)' /\ (InSlot(c)' => InSlot(c))
    BY <1>c, <1>1, SlotsLess
  <2>3. HandleOnce(c)' /\ (InHandle(c)' => InHandle(c))
    BY <1>c, <1>1, HandlesLess
  <2> QED
    BY <1>1, <2>1, <2>2, <2>3, LetsGo
<1>2. ASSUME Shrinks, UNCHANGED <<status, slot, handle>> PROVE Custody(c)'
  BY <1>1, <1>2
<1>3. ASSUME Shrinks, NEW x \in Checkouts, PollHit(x) PROVE Custody(c)'
  <2> DEFINE d == IdleList(coKey[x])[Top(coKey[x])].conn
  <2>1. handle' = [handle EXCEPT ![x] = [st |-> "held", conn |-> d, key |-> coKey[x]]]
        /\ UNCHANGED <<status, slot>> /\ x \in Owners
    BY <1>3 DEF PollHit, Owners
  <2> HIDE DEF d
  <2>2. \A o \in Owners : handle'[o].conn = IF o = x THEN d ELSE handle[o].conn
    BY <1>t, <2>1 DEF TypeOK
  <2>3. CASE d # c
    BY <1>1, <1>3, <2>1, <2>2, <2>3
  <2>4. CASE d = c
    <3>1. InIdle(c) /\ ~InIdle(c)'
      BY <1>t, <1>c, <1>3, <2>4, HitTakes DEF d
    <3>2. ~InSlot(c) /\ ~InHandle(c) /\ status[c] # "unborn"
      BY <3>1 DEF Custody
    <3>3. SlotOnce(c)' /\ ~InSlot(c)'
      BY <2>1, <3>2 DEF SlotOnce, InSlot
    <3>4. HandleOnce(c)'
      BY <2>2, <3>2 DEF HandleOnce, InHandle
    <3>5. IdleOnce(c)'
      BY <1>t, <1>c, <1>3, ShrinksCustody
    <3> QED
      BY <2>1, <3>1, <3>2, <3>3, <3>4, <3>5 DEF Custody
  <2> QED
    BY <2>3, <2>4
<1>4. ASSUME Shrinks, NEW x \in Checkouts, PollReceived(x) PROVE Custody(c)'
  <2>1. /\ co[x] = "sent" /\ slot' = [slot EXCEPT ![x] = NoConn] /\ status' = status /\ x \in Owners
        /\ handle' = IF IsOpen(slot[x])
                     THEN [handle EXCEPT ![x] = [st |-> "held", conn |-> slot[x], key |-> coKey[x]]]
                     ELSE handle
    BY <1>4 DEF PollReceived, Owners
  <2>2. \A y \in Checkouts : slot'[y] = IF y = x THEN NoConn ELSE slot[y]
    BY <1>t, <2>1 DEF TypeOK
  <2>3. \A o \in Owners : handle'[o].conn = IF o = x /\ IsOpen(slot[x]) THEN slot[x] ELSE handle[o].conn
    BY <1>t, <2>1 DEF TypeOK
  <2>4. CASE slot[x] # c
    BY <1>t, <1>1, <1>4, <2>1, <2>2, <2>3, <2>4
  <2>5. CASE slot[x] = c
    <3>1. InSlot(c)
      BY <2>5 DEF InSlot
    <3>2. ~InIdle(c) /\ ~InHandle(c) /\ status[c] # "unborn"
      BY <3>1 DEF Custody
    <3>3. ~InSlot(c)' /\ SlotOnce(c)'
      BY <1>t, <1>c, <2>2, <2>5 DEF InSlot, SlotOnce
    <3>4. HandleOnce(c)'
      BY <2>3, <3>2 DEF HandleOnce, InHandle
    <3>5. IdleOnce(c)' /\ ~InIdle(c)'
      BY <1>t, <1>c, <1>4, <3>2, ShrinksCustody
    <3> QED
      BY <2>1, <3>2, <3>3, <3>4, <3>5 DEF Custody
  <2> QED
    BY <2>4, <2>5
<1>5. ASSUME Shrinks, NEW x \in Checkouts, DropCheckout(x) PROVE Custody(c)'
  <2>1. \A y \in Checkouts : slot'[y] = IF y = x THEN NoConn ELSE slot[y]
    BY <1>t, <1>5 DEF DropCheckout, TypeOK
  <2>2. UNCHANGED <<status, handle>>
    BY <1>5 DEF DropCheckout
  <2> QED
    BY <1>t, <1>1, <1>5, <2>1, <2>2
<1>6. ASSUME Shrinks, NEW t \in Connects, NEW d \in Conns, NEW s \in {"ready", "closed"},
             PooledUnique(t, d, s)
      PROVE  Custody(c)'
  <2>1. /\ status[d] = "unborn" /\ slot' = slot /\ status' = [status EXCEPT ![d] = s] /\ t \in Owners
        /\ handle' = [handle EXCEPT ![t] = [st |-> "held", conn |-> d, key |-> ctKey[t]]]
    BY <1>6 DEF PooledUnique, Owners
  <2>2. \A o \in Owners : handle'[o].conn = IF o = t THEN d ELSE handle[o].conn
    BY <1>t, <2>1 DEF TypeOK
  <2>3. status'[c] = IF c = d THEN s ELSE status[c]
    BY <1>t, <2>1 DEF TypeOK
  <2>4. CASE d # c
    BY <1>1, <1>6, <2>1, <2>2, <2>3, <2>4
  <2>5. CASE d = c
    <3>1. ~InIdle(c) /\ ~InSlot(c) /\ ~InHandle(c)
      BY <2>1, <2>5 DEF Custody
    <3>2. ~InSlot(c)' /\ SlotOnce(c)'
      BY <2>1, <3>1 DEF InSlot, SlotOnce
    <3>3. HandleOnce(c)'
      BY <2>2, <3>1 DEF HandleOnce, InHandle
    <3>4. IdleOnce(c)' /\ ~InIdle(c)'
      BY <1>t, <1>c, <1>6, <3>1, ShrinksCustody
    <3> QED
      BY <2>3, <2>5, <3>2, <3>3, <3>4 DEF Custody
  <2> QED
    BY <2>4, <2>5
<1>7. ASSUME Shrinks, NEW o \in Owners, DropPooled(o) PROVE Custody(c)'
  <2>1. handle[o] \in Handles /\ UNCHANGED <<status, slot>>
    BY <1>t, <1>7 DEF DropPooled, NoHandle, TypeOK
  <2>2. \A p \in Owners : handle'[p] = IF p = o THEN handle'[o] ELSE handle[p]
    BY <1>t, <1>7 DEF DropPooled, TypeOK
  <2>3. handle'[o] = NoHandle \/ handle'[o] = [handle[o] EXCEPT !.st = "dropping"]
    BY <1>t, <1>7 DEF DropPooled, TypeOK
  <2>4. [handle[o] EXCEPT !.st = "dropping"].conn = handle[o].conn /\ NoHandle.conn # c
    BY <1>t, <2>1 DEF Handles, NoHandle
  <2>5. \A p \in Owners : handle'[p].conn = handle[p].conn \/ handle'[p].conn # c
    BY <2>2, <2>3, <2>4
  <2> QED
    BY <1>1, <1>7, <2>1, <2>5
<1>8. ASSUME Shrinks, NEW o \in Owners, Use(o) PROVE Custody(c)'
  <2>1. UNCHANGED <<slot, handle>> /\ (status'[c] = status[c] \/ status'[c] = "busy")
    BY <1>t, <1>8 DEF Use, TypeOK
  <2> QED
    BY <1>1, <1>8, <2>1
<1>9. ASSUME Shrinks, NEW d \in Conns, ConnReady(d) \/ ConnClosed(d) PROVE Custody(c)'
  <2>1. UNCHANGED <<slot, handle>> /\ (status'[c] = status[c] \/ status'[c] # "unborn")
    BY <1>t, <1>9 DEF ConnReady, ConnClosed, TypeOK
  <2> QED
    BY <1>1, <1>9, <2>1
<1>10. ASSUME Shrinks, NEW x \in Checkouts,
              \/ \E k \in Keys : Checkout(x, k)
              \/ PollMiss(x) \/ PollCanceled(x) \/ CleanWaiters(x)
       PROVE  Custody(c)'
  BY <1>2, <1>10 DEF Checkout, PollMiss, PollCanceled, CleanWaiters
<1>11. ASSUME Shrinks, NEW t \in Connects,
              \/ \E k \in Keys : ConnectAuto(t, k) \/ ConnectHttp2(t, k)
              \/ AlpnH2(t) \/ DropConnecting(t)
       PROVE  Custody(c)'
  BY <1>2, <1>11 DEF ConnectAuto, ConnectHttp2, AlpnH2, DropConnecting
<1>12. ASSUME Shrinks, ClearExpired \/ IdleTaskEnds \/ DropPool \/ Tick \/ UNCHANGED vars
       PROVE  Custody(c)'
  BY <1>2, <1>12 DEF ClearExpired, IdleTaskEnds, DropPool, Tick, vars
<1>13. ASSUME NEW t \in Connects, NEW d \in Conns, NEW s \in {"ready", "closed"}, PooledShared(t, d, s)
       PROVE  Custody(c)'
  <2>1. Puts(ctKey[t], d) /\ Shared(d) /\ d # c
    BY <1>13, SharedPut DEF Puts
  <2>2. IdleOnce(c)' /\ (InIdle(c)' => InIdle(c))
    BY <1>t, <1>c, <2>1, PutOther
  <2>3. SlotOnce(c)' /\ (InSlot(c)' => InSlot(c))
    <3>1. \A x \in Checkouts : slot'[x] = slot[x] \/ slot'[x] # c
      BY <2>1 DEF Puts, PutSlot
    <3> QED
      BY <1>c, <3>1, SlotsLess
  <2>4. HandleOnce(c)' /\ (InHandle(c)' => InHandle(c))
    <3>1. handle' = [handle EXCEPT ![t] = [st |-> "held", conn |-> d, key |-> ctKey[t]]] /\ t \in Owners
      BY <1>13 DEF PooledShared, Owners
    <3>2. \A o \in Owners : handle'[o].conn = IF o = t THEN d ELSE handle[o].conn
      BY <1>t, <3>1 DEF TypeOK
    <3> QED
      BY <1>c, <2>1, <3>2, HandlesLess
  <2>5. status'[c] = status[c]
    BY <1>t, <1>13, <2>1 DEF PooledShared, TypeOK
  <2> QED
    BY <2>2, <2>3, <2>4, <2>5, LetsGo
<1>14. ASSUME NEW o \in Owners, PutBack(o) PROVE Custody(c)'
  <2> DEFINE d == handle[o].conn
             k == handle[o].key
  <2>1. Puts(k, d)
    BY <1>t, <1>14, DroppingTypes DEF Puts, PutBack, Put
  <2>2. status' = status /\ \A p \in Owners : handle'[p].conn = IF p = o THEN NoConn ELSE handle[p].conn
    BY <1>t, <1>14 DEF PutBack, TypeOK, NoHandle
  <2>3. HandleOnce(c)' /\ (InHandle(c)' => InHandle(c))
    BY <1>t, <1>c, <2>2, HandlesLess
  <2> HIDE DEF d, k
  <2>4. CASE d # c
    <3>1. IdleOnce(c)' /\ (InIdle(c)' => InIdle(c))
      BY <1>t, <1>c, <2>1, <2>4, PutOther
    <3>2. \A x \in Checkouts : slot'[x] = slot[x] \/ slot'[x] # c
      BY <2>1, <2>4 DEF Puts, PutSlot
    <3>3. SlotOnce(c)' /\ (InSlot(c)' => InSlot(c))
      BY <1>c, <3>2, SlotsLess
    <3> QED
      BY <2>2, <2>3, <3>1, <3>3, LetsGo
  <2>5. CASE d = c
    <3>1. InHandle(c)
      BY <2>5 DEF InHandle, d
    <3>2. ~InIdle(c) /\ ~InSlot(c) /\ status[c] # "unborn"
      BY <3>1 DEF Custody
    <3>3. IdleOnce(c)' /\ SlotOnce(c)' /\ ~(InIdle(c)' /\ InSlot(c)')
      BY <1>t, <2>1, <2>5, <3>2, PutSelf
    <3>4. ~InHandle(c)'
      BY <1>t, <1>c, <2>2, <2>5 DEF InHandle, HandleOnce, d
    <3> QED
      BY <2>2, <2>3, <3>2, <3>3, <3>4 DEF Custody
  <2> QED
    BY <2>4, <2>5
<1>15. CASE Shrinks
  BY <1>3, <1>4, <1>5, <1>6, <1>7, <1>8, <1>9, <1>10, <1>11, <1>12, <1>13, <1>14, <1>15, Zenon DEF Next
<1>16. Shrinks \/ (\E t \in Connects, d \in Conns, s \in {"ready", "closed"} : PooledShared(t, d, s))
       \/ (\E o \in Owners : PutBack(o))
  BY IdleSteps
<1> QED
  BY <1>13, <1>14, <1>15, <1>16, Zenon

\* An HTTP/1 connection is never in two places: what put, pop, the oneshots and
\* Drop for Pooled pass around is moved and never copied.
THEOREM UniqueCustodyCorrect == Spec => []UniqueCustody
<1> DEFINE All == \A c \in Conns \ SharedConns : Custody(c)
<1>1. Init => All
  BY PoolAssumption DEF Init, Custody, IdleOnce, SlotOnce, HandleOnce, InIdle, InSlot, InHandle, NoHandle
<1>2. Inv /\ All /\ [Next]_vars => All'
  BY CustodyStep DEF Shared
<1>3. All => UniqueCustody
  BY DEF UniqueCustody, Custody, IdleOnce, SlotOnce, HandleOnce
<1> HIDE DEF All
<1> QED
  BY <1>1, <1>2, <1>3, InvAlways, PTL DEF Spec

-----------------------------------------------------------------------------
(* An open HTTP/1 connection is not lost.                                  *)

\* A checkout or a connection attempt under way has no Pooled yet, so none is
\* overwritten when it resolves.
NoPooledYet ==
    /\ \A x \in Checkouts : co[x] # "none" => handle[x] = NoHandle
    /\ \A t \in Connects : ct[t] # "none" => handle[t] = NoHandle

\* Every step keeps it so.
LEMMA NoPooledYetStep == Inv /\ NoPooledYet /\ [Next]_vars => NoPooledYet'
<1> SUFFICES ASSUME Inv, NoPooledYet, [Next]_vars PROVE NoPooledYet'
  OBVIOUS
<1>t. TypeOK /\ SlotMatches
  BY DEF Inv
<1>o. /\ \A x \in Checkouts : x \in Owners /\ x \notin Connects
      /\ \A t \in Connects : t \in Owners /\ t \notin Checkouts
      /\ NoHandle.st = "none"
  BY PoolAssumption DEF Owners, NoHandle
<1> USE DEF inner
<1>1. ASSUME \A x \in Checkouts : co'[x] # "none" => co[x] # "none",
             \A t \in Connects : ct'[t] # "none" => ct[t] # "none", handle' = handle
      PROVE  NoPooledYet'
  BY <1>1 DEF NoPooledYet
<1>2. ASSUME NEW x \in Checkouts, NEW k \in Keys, Checkout(x, k) PROVE NoPooledYet'
  BY <1>t, <1>2 DEF Checkout, NoPooledYet, TypeOK
<1>3. ASSUME NEW x \in Checkouts, PollHit(x) \/ PollReceived(x) PROVE NoPooledYet'
  <2>1. /\ co' = [co EXCEPT ![x] = "none"] /\ ct' = ct
        /\ \A o \in Owners \ {x} : handle'[o] = handle[o]
    BY <1>t, <1>3 DEF PollHit, PollReceived, TypeOK
  <2> QED
    BY <1>t, <1>o, <2>1 DEF NoPooledYet, TypeOK
<1>4. ASSUME NEW x \in Checkouts, PollMiss(x) \/ PollCanceled(x) \/ DropCheckout(x) \/ CleanWaiters(x)
      PROVE  NoPooledYet'
  BY <1>t, <1>1, <1>4 DEF PollMiss, PollCanceled, DropCheckout, CleanWaiters, TypeOK
<1>5. ASSUME NEW t \in Connects, NEW k \in Keys, ConnectAuto(t, k) \/ ConnectHttp2(t, k)
      PROVE  NoPooledYet'
  BY <1>t, <1>5 DEF ConnectAuto, ConnectHttp2, NoPooledYet, TypeOK
<1>6. ASSUME NEW t \in Connects, AlpnH2(t) PROVE NoPooledYet'
  BY <1>t, <1>1, <1>6 DEF AlpnH2, TypeOK
<1>7. ASSUME NEW t \in Connects, DropConnecting(t) PROVE NoPooledYet'
  BY <1>t, <1>1, <1>7 DEF DropConnecting, Canceled, TypeOK
<1>8. ASSUME NEW t \in Connects, NEW c \in Conns, NEW s \in {"ready", "closed"},
             PooledShared(t, c, s) \/ PooledUnique(t, c, s)
      PROVE  NoPooledYet'
  <2>1. /\ ct' = [ct EXCEPT ![t] = "none"]
        /\ \A o \in Owners \ {t} : handle'[o] = handle[o]
    BY <1>t, <1>8 DEF PooledShared, PooledUnique, TypeOK
  <2>2. \A x \in Checkouts : co'[x] # "none" => co[x] # "none"
    <3>1. CASE PooledUnique(t, c, s)
      BY <3>1 DEF PooledUnique
    <3>2. CASE PooledShared(t, c, s)
      <4>1. ctKey[t] \in Keys /\ co' = PutCo(ctKey[t], c)
        BY <3>2, SharedPut
      <4> QED
        BY <1>t, <4>1, ServedWaiting DEF PutCo
    <3> QED
      BY <1>8, <3>1, <3>2
  <2> QED
    BY <1>t, <1>o, <2>1, <2>2 DEF NoPooledYet, TypeOK
<1>9. ASSUME NEW o \in Owners, DropPooled(o) \/ PutBack(o) PROVE NoPooledYet'
  <2>1. handle[o] # NoHandle /\ ct' = ct /\ \A p \in Owners \ {o} : handle'[p] = handle[p]
    BY <1>t, <1>o, <1>9 DEF DropPooled, PutBack, TypeOK
  <2>2. \A x \in Checkouts : co'[x] # "none" => co[x] # "none"
    <3>1. CASE DropPooled(o)
      BY <3>1 DEF DropPooled
    <3>2. CASE PutBack(o)
      <4>1. handle[o].key \in Keys /\ handle[o].conn \in Conns
            /\ co' = PutCo(handle[o].key, handle[o].conn)
        BY <1>t, <3>2, DroppingTypes DEF PutBack, Put
      <4> QED
        BY <1>t, <4>1, ServedWaiting DEF PutCo
    <3> QED
      BY <1>9, <3>1, <3>2
  <2> QED
    BY <1>o, <2>1, <2>2 DEF NoPooledYet
<1>10. ASSUME NEW o \in Owners, Use(o) PROVE NoPooledYet'
  BY <1>1, <1>10 DEF Use
<1>11. ASSUME NEW c \in Conns, ConnReady(c) \/ ConnClosed(c) PROVE NoPooledYet'
  BY <1>1, <1>11 DEF ConnReady, ConnClosed
<1>12. CASE ClearExpired \/ IdleTaskEnds \/ DropPool \/ Tick \/ UNCHANGED vars
  BY <1>1, <1>12 DEF ClearExpired, IdleTaskEnds, DropPool, Tick, vars
<1> QED
  BY <1>2, <1>3, <1>4, <1>5, <1>6, <1>7, <1>8, <1>9, <1>10, <1>11, <1>12, Zenon DEF Next

Somewhere(c) == InIdle(c) \/ InSlot(c) \/ InHandle(c)

\* The only ways an open connection may be let go.
Excused(c) ==
    \/ \E x \in Checkouts : slot[x] = c /\ co'[x] = "dropped"
    \/ Len(IdleList(HostOf[c])) = MaxIdle
    \/ \E i \in 1..Len(IdleList(HostOf[c])) :
          IdleList(HostOf[c])[i].conn = c /\ Expired(IdleList(HostOf[c])[i])
    \/ ~alive'

\* An open entry that pop or clear_expired throws away has expired.
LEMMA ThrownAway ==
  ASSUME IdleHost, NEW c \in Conns, IsOpen(c), NEW k \in DOMAIN idle, NEW i \in 1..Len(idle[k]),
         idle[k][i].conn = c, ~(IsOpen(idle[k][i].conn) /\ ~Expired(idle[k][i]))
  PROVE  Excused(c)
<1>1. HostOf[c] = k /\ IdleList(k) = idle[k] /\ Expired(idle[k][i])
  BY DEF IdleHost, IdleList
<1> QED
  BY <1>1, Zenon DEF Excused

\* put leaves every connection that the pool has where it is.
LEMMA PutKeeps ==
  ASSUME TypeOK, SlotMatches, NEW k, NEW d, Puts(k, d), NEW c \in Conns
  PROVE  (InIdle(c) => InIdle(c)') /\ (InSlot(c) => InSlot(c)')
<1>1. /\ k \in Keys /\ d \in Conns /\ c # NoConn
      /\ ~Remains(k, d) => idle' = idle
      /\ Remains(k, d) => idle'[k] = PutList(k, d) /\ idle' = WithEntry(idle, k, PutList(k, d))
      /\ \/ PutList(k, d) = IdleList(k)
         \/ /\ Len(PutList(k, d)) = Len(IdleList(k)) + 1
            /\ \A i \in 1..Len(IdleList(k)) : PutList(k, d)[i] = IdleList(k)[i]
  BY PutIdleFacts, PoolAssumption DEF Puts, PutIdle
<1>2. Len(IdleList(k)) \in Nat
  BY <1>1, ListTypes
<1>3. ASSUME NEW l \in DOMAIN idle, NEW i \in 1..Len(idle[l]), idle[l][i].conn = c PROVE InIdle(c)'
  <2>1. CASE ~Remains(k, d)
    BY <1>1, <1>3, <2>1 DEF InIdle
  <2>2. CASE Remains(k, d) /\ l # k
    <3>1. l \in DOMAIN idle' /\ idle'[l] = idle[l]
      BY <1>1, <2>2 DEF WithEntry
    <3> QED
      BY <1>3, <3>1 DEF InIdle
  <2>3. CASE Remains(k, d) /\ l = k
    <3>1. IdleList(k) = idle[k]
      BY <2>3 DEF IdleList
    <3>2. k \in DOMAIN idle' /\ idle'[k] = PutList(k, d)
      BY <1>1, <2>3 DEF WithEntry
    <3>3. i \in 1..Len(PutList(k, d)) /\ PutList(k, d)[i] = idle[k][i]
      BY <1>1, <1>2, <2>3, <3>1
    <3> QED
      BY <1>3, <2>3, <3>2, <3>3 DEF InIdle
  <2> QED
    BY <2>1, <2>2, <2>3
<1>4. ASSUME NEW x \in Checkouts, slot[x] = c PROVE slot'[x] = c
  <2>1. co[x] = "sent"
    BY <1>1, <1>4 DEF SlotMatches
  <2>2. x \notin Served(k, d)
    BY <1>1, <2>1, ServedWaiting
  <2> QED
    BY <1>4, <2>2 DEF Puts, PutSlot
<1> QED
  BY <1>3, <1>4 DEF InIdle, InSlot

\* put sends the connection to a waiter or stores it, unless the list is full.
LEMMA PutPlaces ==
  ASSUME TypeOK, NEW k, NEW c, Puts(k, c), ~Shared(c), Len(IdleList(k)) < MaxIdle
  PROVE  InIdle(c)' \/ InSlot(c)'
<1>1. k \in Keys /\ c \in Conns
  BY DEF Puts
<1>2. CASE Remains(k, c)
  <2>1. Len(IdleList(k)) \in Nat /\ MaxIdle \in Nat /\ now \in Nat /\ IdleList(k) \in Seq(Entries)
    BY <1>1, ListTypes, PoolAssumption DEF TypeOK
  <2>2. PutList(k, c) = Append(IdleList(k), [conn |-> c, at |-> now])
    BY <2>1 DEF PutList
  <2>3. [conn |-> c, at |-> now] \in Entries
    BY <1>1, <2>1 DEF Entries
  <2>4. Len(PutList(k, c)) = Len(IdleList(k)) + 1
        /\ PutList(k, c)[Len(IdleList(k)) + 1] = [conn |-> c, at |-> now]
    BY <2>1, <2>2, <2>3, AppendProperties
  <2>5. k \in DOMAIN idle' /\ idle'[k] = PutList(k, c)
    BY <1>1, <1>2, PutIdleFacts DEF Puts
  <2>6. Len(IdleList(k)) + 1 \in 1..Len(idle'[k])
    BY <2>1, <2>4, <2>5
  <2> QED
    BY <2>4, <2>5, <2>6 DEF InIdle
<1>3. CASE ~Remains(k, c)
  <2>1. Served(k, c) # {}
    BY <1>3 DEF Remains, Rejects
  <2>2. PICK x \in Served(k, c) : TRUE
    BY <2>1
  <2>3. x \in Checkouts
    BY <1>1, <2>2, ServedWaiting
  <2> QED
    BY <2>2, <2>3 DEF Puts, PutSlot, InSlot
<1> QED
  BY <1>2, <1>3

\* Of two positions of a list the smaller one is below the other.
LEMMA BelowTop ==
  ASSUME NEW n \in Nat, NEW S \in SUBSET (1..n), NEW i \in S, NEW top \in S, i <= top, i # top
  PROVE  i \in 1..(top - 1) /\ top \in Nat
<1>1. i \in 1..n /\ top \in 1..n
  OBVIOUS
<1> QED
  BY <1>1

\* What is below the top stays in a list that is cut there or after it.
LEMMA BelowStays ==
  ASSUME NEW i, NEW top \in Nat, i \in 1..(top - 1), NEW s \in Seq(Entries),
         Len(s) \in {top, top - 1}
  PROVE  i \in 1..Len(s) /\ s # <<>>
OBVIOUS

\* A checkout that finds a connection, or none, throws away expired ones only.
LEMMA PollKeeps ==
  ASSUME TypeOK, IdleHost, NEW x \in Checkouts, handle[x] = NoHandle, PollHit(x) \/ PollMiss(x),
         NEW c \in Conns, ~Shared(c), IsOpen(c), Somewhere(c), ~Somewhere(c)'
  PROVE  Excused(c)
<1> DEFINE k == coKey[x]
<1>1. k \in Keys /\ x \in Owners /\ c # NoConn /\ slot' = slot
  BY PoolAssumption DEF PollHit, PollMiss, TypeOK, Owners
<1>2. \A o \in Owners \ {x} : handle'[o] = handle[o]
  BY DEF PollHit, PollMiss, TypeOK
<1>3. ~InIdle(c)' /\ ~InSlot(c)' /\ ~InHandle(c)'
  BY DEF Somewhere
<1>4. ~InSlot(c)
  BY <1>1, <1>3 DEF InSlot
<1>5. ~InHandle(c)
  <2>1. NoHandle.conn = NoConn
    BY DEF NoHandle
  <2> QED
    BY <1>1, <1>2, <1>3, <2>1 DEF InHandle
<1>6. ASSUME NEW l \in DOMAIN idle, NEW i \in 1..Len(idle[l]), idle[l][i].conn = c
      PROVE  Excused(c)
  <2>1. CASE l # k
    <3>1. l \in DOMAIN idle' /\ idle'[l] = idle[l]
      BY <2>1 DEF PollHit, PollMiss, WithEntry, WithoutKey
    <3> QED
      BY <1>3, <1>6, <3>1 DEF InIdle
  <2>2. CASE l = k /\ i \notin Usable(k)
    <3>1. ~(IsOpen(idle[l][i].conn) /\ ~Expired(idle[l][i]))
      BY <1>6, <2>2 DEF Usable, IdleList
    <3> QED
      BY <1>6, <3>1, ThrownAway
  <2>3. CASE l = k /\ i \in Usable(k)
    <3>1. PollHit(x)
      BY <2>3 DEF PollMiss
    <3>2. Usable(k) \in SUBSET (1..Len(IdleList(k))) /\ Len(IdleList(k)) \in Nat /\ IdleList(k) = idle[k]
      BY <1>1, <2>3, ListTypes DEF Usable, IdleList
    <3>3. \E n \in Usable(k) : \A j \in Usable(k) : j <= n
      BY <2>3, <3>2, LargestExists
    <3>4. Top(k) \in Usable(k) /\ i <= Top(k)
      BY <2>3, <3>3, Zenon DEF Top
    <3>5. CASE i = Top(k)
      <4>1. handle'[x].conn = c
        BY <1>1, <1>6, <2>3, <3>1, <3>2, <3>5 DEF PollHit, TypeOK
      <4> QED
        BY <1>1, <1>3, <4>1 DEF InHandle
    <3>6. CASE i # Top(k)
      <4>1. i \in 1..(Top(k) - 1) /\ Top(k) \in Nat
        BY <2>3, <3>2, <3>4, <3>6, BelowTop, Zenon
      <4>2. /\ Leftover(k) \in Seq(Entries)
            /\ Len(Leftover(k)) = IF Shared(IdleList(k)[Top(k)].conn) THEN Top(k) ELSE Top(k) - 1
            /\ \A j \in 1..(Top(k) - 1) : Leftover(k)[j] = IdleList(k)[j]
        BY <1>1, <3>4, LeftoverFacts
      <4>0. Len(Leftover(k)) \in {Top(k), Top(k) - 1}
        BY <4>2, Zenon
      <4>3. i \in 1..Len(Leftover(k)) /\ Leftover(k)[i] = idle[k][i] /\ Leftover(k) # <<>>
        BY <3>2, <4>0, <4>1, <4>2, BelowStays, Zenon
      <4>4. k \in DOMAIN idle' /\ idle'[k] = Leftover(k)
        BY <3>1, <4>3 DEF PollHit, WithEntry
      <4> QED
        BY <1>3, <1>6, <2>3, <4>3, <4>4 DEF InIdle
    <3> QED
      BY <3>5, <3>6
  <2> QED
    BY <2>1, <2>2, <2>3
<1> QED
  BY <1>4, <1>5, <1>6 DEF Somewhere, InIdle

\* clear_expired throws away expired ones only.
LEMMA ClearKeeps ==
  ASSUME TypeOK, IdleHost, ClearExpired, NEW c \in Conns, IsOpen(c), InIdle(c), ~InIdle(c)'
  PROVE  Excused(c)
<1>1. ASSUME NEW l \in DOMAIN idle, NEW i \in 1..Len(idle[l]), idle[l][i].conn = c
      PROVE  Excused(c)
  <2>1. CASE i \notin Kept(l)
    <3>1. ~(IsOpen(idle[l][i].conn) /\ ~Expired(idle[l][i]))
      BY <2>1 DEF Kept
    <3> QED
      BY <1>1, <3>1, ThrownAway
  <2>2. CASE i \in Kept(l)
    <3>1. l \in DOMAIN idle' /\ ReadsAt(idle'[l], idle[l], Kept(l))
      BY <2>2, ClearExpiredFacts
    <3>2. \E n \in 1..Len(idle'[l]) : idle'[l][n] = idle[l][i]
      BY <2>2, <3>1 DEF ReadsAt
    <3> QED
      BY <1>1, <3>1, <3>2 DEF InIdle
  <2> QED
    BY <2>1, <2>2
<1> QED
  BY <1>1 DEF InIdle

\* Every step that lets an open HTTP/1 connection go is excused.
LEMMA LostStep ==
  ASSUME Inv, Hosts, Shapes, NoPooledYet, [Next]_vars,
         NEW c \in Conns, ~Shared(c), IsOpen(c), Somewhere(c), ~Somewhere(c)'
  PROVE  Excused(c)
<1>t. TypeOK /\ SlotMatches /\ IdleHost /\ HandleHost /\ c # NoConn /\ NoHandle.conn = NoConn
  BY PoolAssumption DEF Inv, Hosts, NoHandle
<1>n. ~InIdle(c)' /\ ~InSlot(c)' /\ ~InHandle(c)'
  BY DEF Somewhere
<1> USE DEF inner
<1>1. ~(idle' = idle /\ slot' = slot /\ handle' = handle)
  BY DEF Somewhere, InIdle, InSlot, InHandle
<1>2. ASSUME NEW x \in Checkouts, PollHit(x) \/ PollMiss(x) PROVE Excused(c)
  <2>1. handle[x] = NoHandle
    BY <1>2 DEF PollHit, PollMiss, NoPooledYet
  <2> QED
    BY <1>t, <1>2, <2>1, PollKeeps
<1>3. ASSUME NEW x \in Checkouts, PollReceived(x) PROVE FALSE
  <2>1. /\ co[x] = "sent" /\ slot' = [slot EXCEPT ![x] = NoConn] /\ idle' = idle /\ x \in Owners
        /\ handle' = IF IsOpen(slot[x])
                     THEN [handle EXCEPT ![x] = [st |-> "held", conn |-> slot[x], key |-> coKey[x]]]
                     ELSE handle
    BY <1>3 DEF PollReceived, Owners
  <2>2. handle[x] = NoHandle
    BY <2>1 DEF NoPooledYet
  <2>3. \A y \in Checkouts : slot'[y] = IF y = x THEN NoConn ELSE slot[y]
    BY <1>t, <2>1 DEF TypeOK
  <2>4. \A o \in Owners : handle'[o].conn = IF o = x /\ IsOpen(slot[x]) THEN slot[x] ELSE handle[o].conn
    BY <1>t, <2>1 DEF TypeOK
  <2>5. ~InIdle(c)
    BY <1>n, <2>1 DEF InIdle
  <2>6. ~InHandle(c)
    BY <1>t, <1>n, <2>2, <2>4 DEF InHandle
  <2>7. ~InSlot(c)
    BY <1>n, <2>1, <2>3, <2>4 DEF InSlot, InHandle
  <2> QED
    BY <2>5, <2>6, <2>7 DEF Somewhere
<1>4. ASSUME NEW x \in Checkouts, DropCheckout(x) PROVE Excused(c)
  <2>1. \A y \in Checkouts : slot'[y] = IF y = x THEN NoConn ELSE slot[y]
    BY <1>t, <1>4 DEF DropCheckout, TypeOK
  <2>2. UNCHANGED <<idle, handle>> /\ (co[x] = "sent" => co'[x] = "dropped")
    BY <1>t, <1>4 DEF DropCheckout, TypeOK
  <2>3. slot[x] = c
    BY <1>n, <2>1, <2>2 DEF Somewhere, InIdle, InSlot, InHandle
  <2>4. co'[x] = "dropped"
    BY <1>t, <2>2, <2>3 DEF SlotMatches
  <2> QED
    BY <2>3, <2>4 DEF Excused
<1>5. ASSUME NEW t \in Connects, NEW d \in Conns, NEW s \in {"ready", "closed"},
             PooledShared(t, d, s) \/ PooledUnique(t, d, s)
      PROVE  FALSE
  <2>1. handle[t] = NoHandle /\ t \in Owners
    BY <1>5 DEF PooledShared, PooledUnique, NoPooledYet, Owners
  <2>2. \A o \in Owners \ {t} : handle'[o] = handle[o]
    BY <1>t, <1>5 DEF PooledShared, PooledUnique, TypeOK
  <2>3. ~InHandle(c)
    BY <1>t, <1>n, <2>1, <2>2 DEF InHandle
  <2>4. CASE PooledUnique(t, d, s)
    BY <1>n, <2>3, <2>4 DEF PooledUnique, Somewhere, InIdle, InSlot
  <2>5. CASE PooledShared(t, d, s)
    <3>1. Puts(ctKey[t], d)
      BY <2>5, SharedPut DEF Puts
    <3> QED
      BY <1>t, <1>n, <2>3, <3>1, PutKeeps DEF Somewhere
  <2> QED
    BY <1>5, <2>4, <2>5
<1>6. ASSUME NEW o \in Owners, DropPooled(o) PROVE Excused(c)
  <2>1. UNCHANGED <<idle, slot, alive>> /\ \A p \in Owners \ {o} : handle'[p] = handle[p]
    BY <1>t, <1>6 DEF DropPooled, TypeOK
  <2>2. handle[o].conn = c
    BY <1>n, <2>1 DEF Somewhere, InIdle, InSlot, InHandle
  <2>3. CASE alive
    <3>1. handle[o] \in Handles
      BY <1>t, <2>2 DEF TypeOK
    <3>2. handle'[o] = [handle[o] EXCEPT !.st = "dropping"]
      BY <1>t, <1>6, <2>2, <2>3 DEF DropPooled, TypeOK
    <3>3. handle'[o].conn = c
      BY <2>2, <3>1, <3>2 DEF Handles
    <3> QED
      BY <1>n, <3>3 DEF InHandle
  <2>4. CASE ~alive
    BY <2>1, <2>4 DEF Excused
  <2> QED
    BY <2>3, <2>4
<1>7. ASSUME NEW o \in Owners, PutBack(o) PROVE Excused(c)
  <2>1. Puts(handle[o].key, handle[o].conn)
    BY <1>t, <1>7, DroppingTypes DEF Puts, PutBack, Put
  <2>2. \A p \in Owners \ {o} : handle'[p] = handle[p]
    BY <1>t, <1>7 DEF PutBack, TypeOK
  <2>3. handle[o].conn = c
    <3>1. ~InIdle(c) /\ ~InSlot(c)
      BY <1>t, <1>n, <2>1, PutKeeps
    <3> QED
      BY <1>n, <2>2, <3>1 DEF Somewhere, InHandle
  <2>4. HostOf[c] = handle[o].key /\ handle[o].key \in Keys
    BY <1>t, <2>1, <2>3 DEF HandleHost, Puts
  <2>5. ~(Len(IdleList(HostOf[c])) < MaxIdle)
    BY <1>t, <1>n, <2>1, <2>3, <2>4, PutPlaces
  <2>6. Len(IdleList(HostOf[c])) \in Nat /\ MaxIdle \in Nat /\ Len(IdleList(HostOf[c])) <= MaxIdle
    <3>1. Len(IdleList(HostOf[c])) \in Nat /\ MaxIdle \in Nat
      BY <1>t, <2>4, ListTypes, PoolAssumption
    <3> QED
      BY <3>1 DEF IdleList, Shapes, ListOK
  <2>7. Len(IdleList(HostOf[c])) = MaxIdle
    BY <2>5, <2>6
  <2> QED
    BY <2>7 DEF Excused
<1>8. CASE ClearExpired
  <2>1. UNCHANGED <<slot, handle>>
    BY <1>8 DEF ClearExpired
  <2>2. InIdle(c)
    BY <1>n, <2>1 DEF Somewhere, InSlot, InHandle
  <2> QED
    BY <1>t, <1>n, <1>8, <2>2, ClearKeeps
<1>9. CASE DropPool
  BY <1>9 DEF DropPool, Excused
<1>10. ASSUME NEW x \in Checkouts,
              (\E k \in Keys : Checkout(x, k)) \/ PollCanceled(x) \/ CleanWaiters(x)
       PROVE  FALSE
  BY <1>1, <1>10 DEF Checkout, PollCanceled, CleanWaiters
<1>11. ASSUME NEW t \in Connects,
              \/ \E k \in Keys : ConnectAuto(t, k) \/ ConnectHttp2(t, k)
              \/ AlpnH2(t) \/ DropConnecting(t)
       PROVE  FALSE
  BY <1>1, <1>11 DEF ConnectAuto, ConnectHttp2, AlpnH2, DropConnecting
<1>12. ASSUME NEW o \in Owners, Use(o) PROVE FALSE
  BY <1>1, <1>12 DEF Use
<1>13. ASSUME NEW d \in Conns, ConnReady(d) \/ ConnClosed(d) PROVE FALSE
  BY <1>1, <1>13 DEF ConnReady, ConnClosed
<1>14. CASE IdleTaskEnds \/ Tick \/ UNCHANGED vars
  BY <1>1, <1>14 DEF IdleTaskEnds, Tick, vars
<1> QED
  BY <1>2, <1>3, <1>4, <1>5, <1>6, <1>7, <1>8, <1>9, <1>10, <1>11, <1>12, <1>13, <1>14, Zenon DEF Next

\* The pool does not lose an open HTTP/1 connection: put, pop, the oneshots,
\* Drop for Pooled and clear_expired let one go only in the cases NoConnLost
\* names.
THEOREM NoConnLostCorrect == Spec => NoConnLost
<1> DEFINE Lost == \A c \in Conns \ SharedConns :
              (IsOpen(c) /\ (InIdle(c) \/ InSlot(c) \/ InHandle(c))
                         /\ ~(InIdle(c) \/ InSlot(c) \/ InHandle(c))')
              => \/ \E x \in Checkouts : slot[x] = c /\ co'[x] = "dropped"
                 \/ Len(IdleList(HostOf[c])) = MaxIdle
                 \/ \E i \in 1..Len(IdleList(HostOf[c])) :
                       IdleList(HostOf[c])[i].conn = c /\ Expired(IdleList(HostOf[c])[i])
                 \/ ~alive'
<1>1. Init => Hosts /\ Shapes /\ NoPooledYet
  BY DEF Init, Hosts, IdleHost, SlotHost, HandleHost, Shapes, NoPooledYet
<1>2. Waits /\ Hosts /\ [Next]_vars => Hosts'
  BY HostStep DEF Waits
<1>3. (Init => Waits) /\ (Waits /\ [Next]_vars => Waits')
  BY WaitsInductive
<1>4. Waits /\ Shapes /\ [Next]_vars => Shapes'
  BY ShapeStep DEF Waits
<1>5. Waits /\ NoPooledYet /\ [Next]_vars => NoPooledYet'
  BY NoPooledYetStep DEF Waits
<1>6. Waits /\ Hosts /\ Shapes /\ NoPooledYet /\ [Next]_vars => [Lost]_vars
  BY LostStep DEF Waits, Somewhere, Excused, Shared
<1>7. NoConnLost <=> [][Lost]_vars
  BY PTL DEF NoConnLost
<1> HIDE DEF Lost
<1> QED
  BY <1>1, <1>2, <1>3, <1>4, <1>5, <1>6, <1>7, PTL DEF Spec

==============================================================================
