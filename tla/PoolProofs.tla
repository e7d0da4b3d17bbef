----------------------------- MODULE PoolProofs -----------------------------
(***************************************************************************)
(* Proofs about Pool, for every set of keys, connections, checkouts and    *)
(* connection attempts, every max_idle_per_host and every idle timeout.    *)
(***************************************************************************)
EXTENDS Pool, SequenceTheorems, WellFoundedInduction, TLAPS

-----------------------------------------------------------------------------
(* Smallest and largest elements, for Oldest and Top.                      *)

Less == {p \in Nat \X Nat : p[1] < p[2]}

\* The order of the naturals is well founded.
LEMMA LessWellFounded == IsWellFoundedOn(Less, Nat)
<1>1. Less = OpToRel(<, Nat)
  BY Zenon DEF Less, OpToRel
<1>2. QED
  BY <1>1, NatLessThanWellFounded, Zenon

\* Membership in Less is the order.
LEMMA LessIff ==
  ASSUME NEW x \in Nat, NEW y \in Nat
  PROVE  <<x, y>> \in Less <=> x < y
BY DEF Less

\* A nonempty set of naturals has a smallest element.
LEMMA SmallestExists ==
  ASSUME NEW S \in SUBSET Nat, S # {}
  PROVE  \E i \in S : \A j \in S : i <= j
<1>1. PICK x \in S : \A y \in S : ~ (<<y, x>> \in Less)
  BY LessWellFounded, WFMin, Zenon
<1>2. \A y \in S : ~ (y < x)
  BY <1>1, LessIff, Zenon
<1>3. \A y \in S : x <= y
  BY <1>2
<1>4. QED
  BY <1>3

\* A nonempty set of indices has a largest element.
LEMMA LargestExists ==
  ASSUME NEW n \in Nat, NEW S \in SUBSET (1..n), S # {}
  PROVE  \E i \in S : \A j \in S : j <= i
<1> DEFINE D == {n - i : i \in S}
<1>1. D \in SUBSET Nat
  OBVIOUS
<1>2. D # {}
  <2>1. PICK i \in S : TRUE
    OBVIOUS
  <2>2. n - i \in D
    BY <2>1
  <2>3. QED
    BY <2>2, Zenon
<1> HIDE DEF D
<1>3. PICK d \in D : \A e \in D : d <= e
  BY <1>1, <1>2, SmallestExists
<1>4. PICK i \in S : d = n - i
  BY <1>3 DEF D
<1>5. \A j \in S : n - i <= n - j
  BY <1>3, <1>4 DEF D
<1>6. \A j \in S : j <= i
  BY <1>5
<1>7. QED
  BY <1>6

-----------------------------------------------------------------------------
(* Maps and retained sequences.                                            *)

\* r reads s at increasing indices of I, all of them.
ReadsAt(r, s, I) ==
    \E f \in [1..Len(r) -> I] :
        /\ \A n \in 1..Len(r) : r[n] = s[f[n]]
        /\ \A n, m \in 1..Len(r) : n < m => f[n] < f[m]
        /\ \A i \in I : \E n \in 1..Len(r) : f[n] = i

\* A retained sequence reads s at increasing indices of I, all of them.
LEMMA RetainedProperties ==
  ASSUME NEW T, NEW s \in Seq(T), NEW I \in SUBSET (1..Len(s)),
         NEW r \in Retained(s, I)
  PROVE  /\ r \in Seq(T)
         /\ Len(r) <= Len(s)
         /\ ReadsAt(r, s, I)
<1>1. PICK f \in UNION {[1..m -> I] : m \in 0..Len(s)} :
         /\ r = [n \in DOMAIN f |-> s[f[n]]]
         /\ \A i \in I : \E n \in DOMAIN f : f[n] = i
         /\ \A n, o \in DOMAIN f : n < o => f[n] < f[o]
  BY Zenon DEF Retained
<1>p. PICK m \in 0..Len(s) : f \in [1..m -> I]
  OBVIOUS
<1>2. m \in Nat /\ Len(s) \in Nat /\ DOMAIN f = 1..m
  BY <1>p
<1>3. \A n \in 1..m : s[f[n]] \in T
  BY <1>p, <1>2, ElementOfSeq
<1>4. r \in [1..m -> T]
  BY <1>1, <1>2, <1>3
<1>5. r \in Seq(T) /\ Len(r) = m
  BY <1>2, <1>4, IsASeq, LenProperties
<1>6. /\ f \in [1..Len(r) -> I]
      /\ \A n \in 1..Len(r) : r[n] = s[f[n]]
      /\ \A n, o \in 1..Len(r) : n < o => f[n] < f[o]
      /\ \A i \in I : \E n \in 1..Len(r) : f[n] = i
  BY <1>1, <1>p, <1>2, <1>5
<1>7. Len(r) <= Len(s)
  BY <1>2, <1>5
<1>8. QED
  BY <1>5, <1>6, <1>7, Zenon DEF ReadsAt

-----------------------------------------------------------------------------
(* The queue and the put operation.                                        *)

\* IdleList and Queue are sequences whether or not the key has an entry.
LEMMA ListTypes ==
  ASSUME TypeOK, NEW k \in Keys
  PROVE  /\ IdleList(k) \in Seq(Entries)
         /\ Queue(k) \in Seq(Checkouts)
         /\ Len(IdleList(k)) \in Nat
         /\ Len(Queue(k)) \in Nat
BY DEF TypeOK, IdleList, Queue

\* The oldest live waiter, when there is one.
LEMMA OldestIsLive ==
  ASSUME TypeOK, NEW k \in Keys, LiveAt(k) # {}
  PROVE  /\ Oldest(k) \in LiveAt(k)
         /\ Oldest(k) \in 1..Len(Queue(k))
         /\ \A j \in LiveAt(k) : Oldest(k) <= j
<1>1. LiveAt(k) \in SUBSET Nat /\ LiveAt(k) \in SUBSET (1..Len(Queue(k)))
  BY ListTypes DEF LiveAt
<1>2. \E i \in LiveAt(k) : \A j \in LiveAt(k) : i <= j
  BY <1>1, SmallestExists
<1>3. Oldest(k) \in LiveAt(k) /\ \A j \in LiveAt(k) : Oldest(k) <= j
  BY <1>2, Zenon DEF Oldest
<1>4. QED
  BY <1>1, <1>3

\* The connection that IdlePopper::pop returns, when there is one.
LEMMA TopIsUsable ==
  ASSUME TypeOK, NEW k \in Keys, Usable(k) # {}
  PROVE  /\ Top(k) \in Usable(k)
         /\ Top(k) \in 1..Len(IdleList(k))
         /\ IdleList(k)[Top(k)] \in Entries
         /\ IdleList(k)[Top(k)].conn \in Conns
         /\ k \in DOMAIN idle
<1>1. Usable(k) \in SUBSET (1..Len(IdleList(k))) /\ Len(IdleList(k)) \in Nat
  BY ListTypes DEF Usable
<1>2. \E i \in Usable(k) : \A j \in Usable(k) : j <= i
  BY <1>1, LargestExists
<1>3. Top(k) \in Usable(k)
  BY <1>2, Zenon DEF Top
<1>4. Top(k) \in 1..Len(IdleList(k))
  BY <1>1, <1>3
<1>5. IdleList(k)[Top(k)] \in Entries
  BY <1>4, ListTypes, ElementOfSeq
<1>6. k \in DOMAIN idle
  BY <1>4 DEF IdleList
<1>7. QED
  BY <1>3, <1>4, <1>5, <1>6 DEF Entries

\* put takes a prefix of the queue off, all of it when a value remains.
LEMMA PoppedPrefix ==
  ASSUME TypeOK, NEW k \in Keys, NEW c \in Conns
  PROVE  /\ Popped(k, c) \in 0..Len(Queue(k))
         /\ Remains(k, c) => Popped(k, c) = Len(Queue(k))
<1>1. Len(Queue(k)) \in Nat
  BY ListTypes
<1>2. CASE LiveAt(k) = {}
  BY <1>1, <1>2 DEF Popped, Remains
<1>3. CASE LiveAt(k) # {}
  <2>1. Oldest(k) \in LiveAt(k) /\ Oldest(k) \in 1..Len(Queue(k))
    BY <1>3, OldestIsLive
  <2>2. ~Rejects(k, c) /\ ~Shared(c) => Served(k, c) # {}
    <3>1. SUFFICES ASSUME ~Rejects(k, c), ~Shared(c)
                   PROVE  Served(k, c) # {}
      OBVIOUS
    <3>2. Popped(k, c) = Oldest(k)
      BY <1>3, <3>1 DEF Popped
    <3>3. Oldest(k) \in LiveAt(k) \cap (1..Popped(k, c))
      BY <2>1, <3>2, <1>1
    <3>4. Queue(k)[Oldest(k)] \in Served(k, c)
      BY <3>3, Zenon DEF Served
    <3>5. QED
      BY <3>4, Zenon
  <2>3. QED
    BY <1>1, <1>3, <2>1, <2>2 DEF Popped, Remains
<1>4. QED
  BY <1>2, <1>3

\* Only live waiters of the key are served.
LEMMA ServedWaiting ==
  ASSUME TypeOK, NEW k \in Keys, NEW c \in Conns
  PROVE  \A x \in Served(k, c) :
            /\ x \in Checkouts
            /\ co[x] = "waiting"
            /\ k \in DOMAIN waiters
            /\ \E i \in 1..Len(waiters[k]) : i \in LiveAt(k) /\ waiters[k][i] = x
                                              /\ i \in 1..Popped(k, c)
<1>1. SUFFICES ASSUME NEW i \in LiveAt(k), i \in 1..Popped(k, c)
               PROVE  /\ Queue(k)[i] \in Checkouts
                      /\ co[Queue(k)[i]] = "waiting"
                      /\ k \in DOMAIN waiters
                      /\ i \in 1..Len(waiters[k]) /\ waiters[k][i] = Queue(k)[i]
  BY Zenon DEF Served
<1>2. i \in 1..Len(Queue(k)) /\ co[Queue(k)[i]] = "waiting"
  BY DEF LiveAt
<1>3. Queue(k)[i] \in Checkouts
  BY <1>2, ListTypes, ElementOfSeq
<1>4. k \in DOMAIN waiters
  BY <1>2 DEF Queue
<1>5. QED
  BY <1>2, <1>3, <1>4 DEF Queue

\* The waiters that put leaves.
LEMMA PutWaitersFacts ==
  ASSUME TypeOK, NEW k \in Keys, NEW c \in Conns
  PROVE  /\ DOMAIN PutWaiters(k, c) \subseteq DOMAIN waiters
         /\ PutWaiters(k, c) \in [DOMAIN PutWaiters(k, c) -> Seq(Checkouts)]
         /\ \A l \in DOMAIN PutWaiters(k, c) \ {k} : PutWaiters(k, c)[l] = waiters[l]
         /\ k \in DOMAIN PutWaiters(k, c) =>
               /\ PutWaiters(k, c)[k] # <<>>
               /\ Len(PutWaiters(k, c)[k]) = Len(waiters[k]) - Popped(k, c)
               /\ \A i \in 1..Len(PutWaiters(k, c)[k]) :
                     PutWaiters(k, c)[k][i] = waiters[k][Popped(k, c) + i]
         /\ \A l \in DOMAIN waiters \ {k} : l \in DOMAIN PutWaiters(k, c)
         /\ Popped(k, c) < Len(Queue(k)) => k \in DOMAIN PutWaiters(k, c)
         /\ Remains(k, c) => k \notin DOMAIN PutWaiters(k, c)
<1> DEFINE p    == Popped(k, c)
           q    == Queue(k)
           rest == SubSeq(q, p + 1, Len(q))
<1>1. p \in Nat /\ Len(q) \in Nat /\ p <= Len(q) /\ p + 1 \in Int /\ Len(q) \in Int
  BY PoppedPrefix, ListTypes
<1>2. \A i \in (p + 1)..Len(q) : q[i] \in Checkouts
  BY <1>1, ListTypes, ElementOfSeq
<1>3. /\ rest \in Seq(Checkouts)
      /\ Len(rest) = IF p + 1 <= Len(q) THEN Len(q) - (p + 1) + 1 ELSE 0
      /\ \A i \in 1..(Len(q) - (p + 1) + 1) : rest[i] = q[(p + 1) + i - 1]
  <2> HIDE DEF p, q
  <2>1. QED
    BY <1>1, <1>2, SubSeqProperties
<1>4. DOMAIN waiters \subseteq Keys /\ waiters \in [DOMAIN waiters -> Seq(Checkouts)]
  BY DEF TypeOK
<1>5. PutWaiters(k, c) = IF rest = <<>> THEN WithoutKey(waiters, k)
                         ELSE WithEntry(waiters, k, rest)
  BY DEF PutWaiters
<1>6. /\ Len(rest) = Len(q) - p
      /\ \A i \in 1..Len(rest) : rest[i] = q[p + i]
  <2> HIDE DEF p, q, rest
  <2>1. QED
    BY <1>1, <1>3
<1>7. Remains(k, c) => p = Len(q)
  BY PoppedPrefix
<1> HIDE DEF p, rest
<1>8. CASE rest = <<>>
  <2>1. Len(q) = p
    BY <1>1, <1>6, <1>8
  <2>2. QED
    BY <1>1, <1>4, <1>5, <1>8, <2>1 DEF p, WithoutKey
<1>9. CASE rest # <<>>
  <2>1. p < Len(q)
    BY <1>1, <1>3, <1>6, <1>9, EmptySeq
  <2>2. k \in DOMAIN waiters /\ q = waiters[k]
    BY <1>1, <2>1 DEF Queue
  <2>3. ~Remains(k, c)
    BY <1>1, <1>7, <2>1
  <2>4. /\ DOMAIN PutWaiters(k, c) = DOMAIN waiters \cup {k}
        /\ PutWaiters(k, c) \in [DOMAIN PutWaiters(k, c) -> Seq(Checkouts)]
        /\ PutWaiters(k, c)[k] = rest
        /\ \A l \in DOMAIN waiters \ {k} : PutWaiters(k, c)[l] = waiters[l]
    BY <1>3, <1>4, <1>5, <1>9 DEF WithEntry
  <2>5. QED
    BY <1>6, <1>9, <2>2, <2>3, <2>4 DEF p
<1>10. QED
  BY <1>8, <1>9

\* The idle lists that put leaves.
LEMMA PutIdleFacts ==
  ASSUME TypeOK, NEW k \in Keys, NEW c \in Conns
  PROVE  /\ DOMAIN PutIdle(k, c) \subseteq Keys
         /\ PutIdle(k, c) \in [DOMAIN PutIdle(k, c) -> Seq(Entries)]
         /\ DOMAIN PutIdle(k, c) = DOMAIN idle \/ Remains(k, c)
         /\ DOMAIN PutIdle(k, c) \subseteq DOMAIN idle \cup {k}
         /\ \A l \in DOMAIN PutIdle(k, c) \ {k} : l \in DOMAIN idle /\ PutIdle(k, c)[l] = idle[l]
         /\ ~Remains(k, c) => PutIdle(k, c) = idle
         /\ Remains(k, c) => k \in DOMAIN PutIdle(k, c) /\ PutIdle(k, c)[k] = PutList(k, c)
         /\ PutList(k, c) # <<>>
         /\ PutList(k, c) \in Seq(Entries)
         /\ \/ PutList(k, c) = IdleList(k)
            \/ /\ Len(IdleList(k)) < MaxIdle
               /\ Len(PutList(k, c)) = Len(IdleList(k)) + 1
               /\ \A i \in 1..Len(IdleList(k)) : PutList(k, c)[i] = IdleList(k)[i]
               /\ PutList(k, c)[Len(IdleList(k)) + 1] = [conn |-> c, at |-> now]
<1> DEFINE e == [conn |-> c, at |-> now]
<1>1. e \in Entries
  BY DEF TypeOK, Entries
<1>2. MaxIdle \in Nat \ {0}
  BY PoolAssumption
<1>3. IdleList(k) \in Seq(Entries) /\ Len(IdleList(k)) \in Nat
  BY ListTypes
<1> HIDE DEF e
<1>4. /\ Append(IdleList(k), e) \in Seq(Entries)
      /\ Append(IdleList(k), e) # <<>>
      /\ Len(Append(IdleList(k), e)) = Len(IdleList(k)) + 1
      /\ \A i \in 1..Len(IdleList(k)) : Append(IdleList(k), e)[i] = IdleList(k)[i]
      /\ Append(IdleList(k), e)[Len(IdleList(k)) + 1] = e
  BY <1>1, <1>3, AppendProperties
<1>5. PutList(k, c) = IF MaxIdle <= Len(IdleList(k)) THEN IdleList(k)
                      ELSE Append(IdleList(k), e)
  BY DEF PutList, e
<1>6. PutList(k, c) \in Seq(Entries)
  BY <1>3, <1>4, <1>5
<1>7. PutList(k, c) # <<>>
  BY <1>2, <1>3, <1>4, <1>5, EmptySeq
<1>8. \/ PutList(k, c) = IdleList(k)
      \/ /\ Len(IdleList(k)) < MaxIdle
         /\ Len(PutList(k, c)) = Len(IdleList(k)) + 1
         /\ \A i \in 1..Len(IdleList(k)) : PutList(k, c)[i] = IdleList(k)[i]
         /\ PutList(k, c)[Len(IdleList(k)) + 1] = [conn |-> c, at |-> now]
  BY <1>2, <1>3, <1>4, <1>5 DEF e
<1>9. DOMAIN idle \subseteq Keys /\ idle \in [DOMAIN idle -> Seq(Entries)]
  BY DEF TypeOK
<1>10. CASE Remains(k, c)
  <2>1. PutIdle(k, c) = WithEntry(idle, k, PutList(k, c))
    BY <1>10 DEF PutIdle
  <2>2. QED
    BY <1>6, <1>7, <1>8, <1>9, <1>10, <2>1 DEF WithEntry
<1>11. CASE ~Remains(k, c)
  <2>1. PutIdle(k, c) = idle
    BY <1>11 DEF PutIdle
  <2>2. QED
    BY <1>6, <1>7, <1>8, <1>9, <1>11, <2>1
<1>12. QED
  BY <1>10, <1>11

\* The list that IdlePopper::pop leaves: what was below the connection it
\* returns and, if that one is shared, a fresh entry for it on top.
LEMMA LeftoverFacts ==
  ASSUME TypeOK, NEW k \in Keys, Usable(k) # {}
  PROVE  /\ Leftover(k) \in Seq(Entries)
         /\ Len(Leftover(k)) = IF Shared(IdleList(k)[Top(k)].conn) THEN Top(k) ELSE Top(k) - 1
         /\ \A i \in 1..(Top(k) - 1) : Leftover(k)[i] = IdleList(k)[i]
         /\ Shared(IdleList(k)[Top(k)].conn) =>
               Leftover(k)[Top(k)] = [conn |-> IdleList(k)[Top(k)].conn, at |-> now]
<1> DEFINE q     == IdleList(k)
           top   == Top(k)
           below == SubSeq(q, 1, top - 1)
           e     == [conn |-> q[top].conn, at |-> now]
<1>1. q \in Seq(Entries) /\ Len(q) \in Nat /\ top \in 1..Len(q) /\ q[top].conn \in Conns
  BY ListTypes, TopIsUsable
<1>2. e \in Entries
  BY <1>1 DEF Entries, TypeOK
<1>3. Leftover(k) = IF Shared(q[top].conn) THEN Append(below, e) ELSE below
  BY DEF Leftover
<1> HIDE DEF q, top, e
<1>4. \A i \in 1..(top - 1) : q[i] \in Entries
  BY <1>1, ElementOfSeq
<1>5. /\ below \in Seq(Entries)
      /\ Len(below) = IF 1 <= top - 1 THEN top - 1 - 1 + 1 ELSE 0
      /\ \A i \in 1..(top - 1 - 1 + 1) : below[i] = q[1 + i - 1]
  <2>1. top - 1 \in Int
    BY <1>1
  <2> QED
    BY <1>1, <1>4, <2>1, SubSeqProperties
<1> HIDE DEF below
<1>6. Len(below) = top - 1 /\ \A i \in 1..(top - 1) : below[i] = q[i]
  BY <1>1, <1>5
<1>7. /\ Append(below, e) \in Seq(Entries)
      /\ Len(Append(below, e)) = Len(below) + 1
      /\ \A i \in 1..Len(below) : Append(below, e)[i] = below[i]
      /\ Append(below, e)[Len(below) + 1] = e
  BY <1>2, <1>5, AppendProperties
<1>8. Append(below, e)[top] = e /\ Len(below) + 1 = top
  BY <1>1, <1>6, <1>7
<1>9. QED
  BY <1>1, <1>3, <1>5, <1>6, <1>7, <1>8 DEF q, top, e

\* A retained sequence of a list is well typed.
LEMMA CleanedFacts ==
  ASSUME TypeOK, NEW k \in Keys, NEW live \in Retained(Queue(k), LiveAt(k))
  PROVE  /\ live \in Seq(Checkouts)
         /\ ReadsAt(live, Queue(k), LiveAt(k))
<1>1. Queue(k) \in Seq(Checkouts) /\ LiveAt(k) \in SUBSET (1..Len(Queue(k)))
  BY ListTypes DEF LiveAt
<1>2. QED
  BY <1>1, RetainedProperties, Zenon

\* What clear_expired leaves: for every key that keeps an open entry that has
\* not expired, exactly those entries, in order.
LEMMA ClearExpiredFacts ==
  ASSUME TypeOK, ClearExpired
  PROVE  /\ DOMAIN idle' = {k \in DOMAIN idle : Kept(k) # {}}
         /\ \A k \in DOMAIN idle' :
               /\ idle'[k] \in Seq(Entries)
               /\ Len(idle'[k]) <= Len(idle[k])
               /\ ReadsAt(idle'[k], idle[k], Kept(k))
<1> DEFINE keep == {k \in DOMAIN idle : Kept(k) # {}}
<1>1. DOMAIN idle' = keep /\ \A k \in keep : idle'[k] \in Retained(idle[k], Kept(k))
  BY Zenon DEF ClearExpired
<1>2. \A k \in DOMAIN idle : idle[k] \in Seq(Entries) /\ Kept(k) \in SUBSET (1..Len(idle[k]))
  BY DEF TypeOK, Kept
<1>3. QED
  BY <1>1, <1>2, RetainedProperties, Zenon

-----------------------------------------------------------------------------
(* Type correctness.  A oneshot holds a connection exactly when its        *)
(* checkout was sent one (SlotMatches); without it the handle that         *)
(* poll_waiter makes would have no type.                                   *)

\* What put, and connected after it, do to the checkouts.
LEMMA PutCheckouts ==
  ASSUME TypeOK, SlotMatches, NEW k \in Keys, NEW c \in Conns, NEW w
  PROVE  /\ PutCo(k, c) \in [Checkouts -> {"none", "new", "waiting", "sent", "canceled", "dropped"}]
         /\ PutSlot(k, c) \in [Checkouts -> Conns \cup {NoConn}]
         /\ \A x \in Checkouts : PutSlot(k, c)[x] # NoConn <=> PutCo(k, c)[x] = "sent"
         /\ Canceled(PutCo(k, c), w, k) \in
               [Checkouts -> {"none", "new", "waiting", "sent", "canceled", "dropped"}]
         /\ \A x \in Checkouts :
               PutSlot(k, c)[x] # NoConn <=> Canceled(PutCo(k, c), w, k)[x] = "sent"
         /\ PutInterval(k, c) \in {"unspawned", "running", "ended"}
<1>1. c # NoConn
  BY PoolAssumption
<1>2. QED
  BY <1>1 DEF TypeOK, SlotMatches, PutCo, PutSlot, Canceled, PutInterval

\* The initial state is well typed.
LEMMA TypeInit == Init => TypeOK /\ SlotMatches
<1> SUFFICES ASSUME Init PROVE TypeOK /\ SlotMatches
  OBVIOUS
<1>1. (CHOOSE k \in Keys : TRUE) \in Keys
  BY PoolAssumption
<1>2. DOMAIN <<>> = {}
  OBVIOUS
<1>3. QED
  BY <1>1, <1>2 DEF Init, TypeOK, SlotMatches

\* Every step keeps the state well typed.
LEMMA TypeStep == TypeOK /\ SlotMatches /\ [Next]_vars => TypeOK' /\ SlotMatches'
<1> SUFFICES ASSUME TypeOK, SlotMatches, [Next]_vars
             PROVE  TypeOK' /\ SlotMatches'
  OBVIOUS
<1> USE DEF inner
<1>1. ASSUME NEW x \in Checkouts, NEW k \in Keys, Checkout(x, k)
      PROVE  TypeOK' /\ SlotMatches'
  BY <1>1 DEF Checkout, TypeOK, SlotMatches
<1>2. ASSUME NEW x \in Checkouts, PollHit(x)
      PROVE  TypeOK' /\ SlotMatches'
  <2> DEFINE k == coKey[x]
  <2>1. k \in Keys /\ x \in Owners
    BY DEF TypeOK, Owners
  <2>2. Usable(k) # {}
    BY <1>2 DEF PollHit
  <2>3. Leftover(k) \in Seq(Entries)
    BY <2>1, <2>2, LeftoverFacts
  <2>4. DOMAIN idle' \subseteq Keys /\ idle' \in [DOMAIN idle' -> Seq(Entries)]
    BY <1>2, <2>1, <2>3 DEF PollHit, TypeOK, WithEntry, WithoutKey
  <2>5. [st |-> "held", conn |-> IdleList(k)[Top(k)].conn, key |-> k] \in Handles
    BY <2>1, <2>2, TopIsUsable DEF Handles
  <2>6. handle' \in [Owners -> Handles \cup {NoHandle}]
    BY <1>2, <2>1, <2>5 DEF PollHit, TypeOK
  <2>7. QED
    BY <1>2, <2>4, <2>6 DEF PollHit, TypeOK, SlotMatches
<1>3. ASSUME NEW x \in Checkouts, PollMiss(x)
      PROVE  TypeOK' /\ SlotMatches'
  <2> DEFINE k == coKey[x]
  <2>1. k \in Keys
    BY DEF TypeOK
  <2>2. Append(Queue(k), x) \in Seq(Checkouts)
    BY <2>1, ListTypes, AppendProperties
  <2>3. DOMAIN waiters' \subseteq Keys /\ waiters' \in [DOMAIN waiters' -> Seq(Checkouts)]
    BY <1>3, <2>1, <2>2 DEF PollMiss, TypeOK, WithEntry
  <2>4. DOMAIN idle' \subseteq Keys /\ idle' \in [DOMAIN idle' -> Seq(Entries)]
    BY <1>3 DEF PollMiss, TypeOK, WithoutKey
  <2>5. QED
    BY <1>3, <2>3, <2>4 DEF PollMiss, TypeOK, SlotMatches
<1>4. ASSUME NEW x \in Checkouts, PollReceived(x)
      PROVE  TypeOK' /\ SlotMatches'
  BY <1>4 DEF PollReceived, TypeOK, SlotMatches, Handles, Owners
<1>5. ASSUME NEW x \in Checkouts, PollCanceled(x)
      PROVE  TypeOK' /\ SlotMatches'
  BY <1>5 DEF PollCanceled, TypeOK, SlotMatches
<1>6. ASSUME NEW x \in Checkouts, DropCheckout(x)
      PROVE  TypeOK' /\ SlotMatches'
  BY <1>6 DEF DropCheckout, TypeOK, SlotMatches
<1>7. ASSUME NEW x \in Checkouts, CleanWaiters(x)
      PROVE  TypeOK' /\ SlotMatches'
  <2>1. coKey[x] \in Keys
    BY DEF TypeOK
  <2>2. PICK live \in Retained(Queue(coKey[x]), LiveAt(coKey[x])) :
           waiters' = IF live = <<>> THEN WithoutKey(waiters, coKey[x])
                      ELSE WithEntry(waiters, coKey[x], live)
    BY <1>7 DEF CleanWaiters
  <2>3. live \in Seq(Checkouts)
    BY <2>1, CleanedFacts
  <2>4. DOMAIN waiters' \subseteq Keys /\ waiters' \in [DOMAIN waiters' -> Seq(Checkouts)]
    BY <2>1, <2>2, <2>3 DEF TypeOK, WithEntry, WithoutKey
  <2>5. QED
    BY <1>7, <2>4 DEF CleanWaiters, TypeOK, SlotMatches
<1>8. ASSUME NEW t \in Connects, NEW k \in Keys, ConnectAuto(t, k) \/ ConnectHttp2(t, k)
      PROVE  TypeOK' /\ SlotMatches'
  BY <1>8 DEF ConnectAuto, ConnectHttp2, TypeOK, SlotMatches
<1>9. ASSUME NEW t \in Connects, AlpnH2(t)
      PROVE  TypeOK' /\ SlotMatches'
  BY <1>9 DEF AlpnH2, TypeOK, SlotMatches
<1>10. ASSUME NEW t \in Connects, DropConnecting(t)
       PROVE  TypeOK' /\ SlotMatches'
  <2>1. CASE ct[t] = "locked"
    <3>1. DOMAIN waiters' \subseteq Keys /\ waiters' \in [DOMAIN waiters' -> Seq(Checkouts)]
      BY <1>10, <2>1 DEF DropConnecting, TypeOK, WithoutKey
    <3>2. co' \in [Checkouts -> {"none", "new", "waiting", "sent", "canceled", "dropped"}]
      BY <1>10, <2>1 DEF DropConnecting, TypeOK, Canceled
    <3>3. \A x \in Checkouts : co'[x] = "sent" <=> co[x] = "sent"
      BY <1>10, <2>1, SMTT(30) DEF DropConnecting, TypeOK, Canceled
    <3>4. TypeOK'
      BY <1>10, <2>1, <3>1, <3>2 DEF DropConnecting, TypeOK
    <3> QED
      BY <1>10, <3>3, <3>4 DEF DropConnecting, SlotMatches
  <2>2. CASE ct[t] # "locked"
    BY <1>10, <2>2 DEF DropConnecting, TypeOK, SlotMatches
  <2> QED
    BY <2>1, <2>2
<1>11. ASSUME NEW t \in Connects, NEW c \in Conns, NEW s \in {"ready", "closed"},
              PooledShared(t, c, s)
       PROVE  TypeOK' /\ SlotMatches'
  <2> DEFINE k == ctKey[t]
  <2>1. k \in Keys /\ t \in Owners
    BY DEF TypeOK, Owners
  <2>2. DOMAIN idle' \subseteq Keys /\ idle' \in [DOMAIN idle' -> Seq(Entries)]
    BY <1>11, <2>1, PutIdleFacts DEF PooledShared
  <2>3. DOMAIN waiters' \subseteq Keys /\ waiters' \in [DOMAIN waiters' -> Seq(Checkouts)]
    BY <1>11, <2>1, PutWaitersFacts DEF PooledShared, WithoutKey, TypeOK
  <2>4. /\ co' \in [Checkouts -> {"none", "new", "waiting", "sent", "canceled", "dropped"}]
        /\ slot' \in [Checkouts -> Conns \cup {NoConn}]
        /\ interval' \in {"unspawned", "running", "ended"}
        /\ SlotMatches'
    BY <1>11, <2>1, PutCheckouts DEF PooledShared, SlotMatches
  <2>5. handle' \in [Owners -> Handles \cup {NoHandle}]
    BY <1>11, <2>1 DEF PooledShared, TypeOK, Handles
  <2>6. QED
    BY <1>11, <2>2, <2>3, <2>4, <2>5 DEF PooledShared, TypeOK
<1>12. ASSUME NEW t \in Connects, NEW c \in Conns, NEW s \in {"ready", "closed"},
              PooledUnique(t, c, s)
       PROVE  TypeOK' /\ SlotMatches'
  BY <1>12 DEF PooledUnique, TypeOK, SlotMatches, Handles, Owners
<1>13. ASSUME NEW o \in Owners, Use(o) \/ DropPooled(o)
       PROVE  TypeOK' /\ SlotMatches'
  <2>1. handle[o] \in Handles
    BY <1>13 DEF Use, DropPooled, TypeOK, NoHandle
  <2>2. CASE Use(o)
    BY <2>1, <2>2 DEF Use, TypeOK, SlotMatches, Handles
  <2>3. CASE DropPooled(o)
    <3>1. [handle[o] EXCEPT !.st = "dropping"] \in Handles
      BY <2>1 DEF Handles
    <3>2. handle' \in [Owners -> Handles \cup {NoHandle}]
      BY <2>3, <3>1 DEF DropPooled, TypeOK
    <3>3. QED
      BY <2>3, <3>2 DEF DropPooled, TypeOK, SlotMatches
  <2>4. QED
    BY <1>13, <2>2, <2>3
<1>14. ASSUME NEW o \in Owners, PutBack(o)
       PROVE  TypeOK' /\ SlotMatches'
  <2> DEFINE k == handle[o].key
             c == handle[o].conn
  <2>1. k \in Keys /\ c \in Conns
    BY <1>14 DEF PutBack, TypeOK, NoHandle, Handles
  <2>2. DOMAIN idle' \subseteq Keys /\ idle' \in [DOMAIN idle' -> Seq(Entries)]
    BY <1>14, <2>1, PutIdleFacts DEF PutBack, Put
  <2>3. DOMAIN waiters' \subseteq Keys /\ waiters' \in [DOMAIN waiters' -> Seq(Checkouts)]
    BY <1>14, <2>1, PutWaitersFacts DEF PutBack, Put, TypeOK
  <2>4. /\ co' \in [Checkouts -> {"none", "new", "waiting", "sent", "canceled", "dropped"}]
        /\ slot' \in [Checkouts -> Conns \cup {NoConn}]
        /\ interval' \in {"unspawned", "running", "ended"}
        /\ SlotMatches'
    BY <1>14, <2>1, PutCheckouts, ZenonT(40) DEF PutBack, Put, SlotMatches
  <2>5. QED
    BY <1>14, <2>2, <2>3, <2>4 DEF PutBack, TypeOK
<1>15. ASSUME NEW c \in Conns, ConnReady(c) \/ ConnClosed(c)
       PROVE  TypeOK' /\ SlotMatches'
  BY <1>15 DEF ConnReady, ConnClosed, TypeOK, SlotMatches
<1>16. CASE ClearExpired
  <2>1. DOMAIN idle' \subseteq Keys
    BY <1>16, ClearExpiredFacts DEF TypeOK
  <2>2. idle' \in [DOMAIN idle' -> Seq(Entries)]
    <3>1. \A k \in DOMAIN idle' : idle'[k] \in Seq(Entries)
      BY <1>16, ClearExpiredFacts
    <3>2. idle' = [k \in DOMAIN idle' |-> idle'[k]]
      BY <1>16 DEF ClearExpired
    <3>3. QED
      BY <3>1, <3>2
  <2>3. QED
    BY <1>16, <2>1, <2>2 DEF ClearExpired, TypeOK, SlotMatches
<1>17. CASE DropPool
  <2>1. /\ DOMAIN idle' = {} /\ idle' \in [{} -> Seq(Entries)]
        /\ DOMAIN waiters' = {} /\ waiters' \in [{} -> Seq(Checkouts)]
    BY <1>17 DEF DropPool
  <2>2. QED
    BY <1>17, <2>1 DEF DropPool, TypeOK, SlotMatches
<1>18. CASE IdleTaskEnds \/ Tick
  BY <1>18 DEF IdleTaskEnds, Tick, TypeOK, SlotMatches
<1>19. CASE UNCHANGED vars
  BY <1>19 DEF vars, TypeOK, SlotMatches
<1>20. QED
  BY <1>1, <1>2, <1>3, <1>4, <1>5, <1>6, <1>7, <1>8, <1>9, <1>10, <1>11, <1>12,
     <1>13, <1>14, <1>15, <1>16, <1>17, <1>18, <1>19, Zenon DEF Next

\* Type correctness of the pool, for every instance.
THEOREM TypeCorrect == Spec => [](TypeOK /\ SlotMatches)
BY TypeInit, TypeStep, PTL DEF Spec

-----------------------------------------------------------------------------
(* Idle connections and waiters exclude each other.                        *)

\* Nothing is stored at first.
LEMMA ExclusionInit == Init => IdleExcludesWaiters
BY DEF Init, IdleExcludesWaiters

\* Every step keeps the two maps apart and without empty entries.
LEMMA ExclusionStep ==
  TypeOK /\ IdleExcludesWaiters /\ [Next]_vars => IdleExcludesWaiters'
<1> SUFFICES ASSUME TypeOK, IdleExcludesWaiters, [Next]_vars
             PROVE  IdleExcludesWaiters'
  OBVIOUS
<1> USE DEF inner
<1>1. ASSUME NEW x \in Checkouts, PollHit(x)
      PROVE  IdleExcludesWaiters'
  <2>1. coKey[x] \in Keys /\ Usable(coKey[x]) # {}
    BY <1>1 DEF PollHit, TypeOK
  <2>2. coKey[x] \in DOMAIN idle
    BY <2>1, TopIsUsable
  <2>3. QED
    BY <1>1, <2>2 DEF PollHit, IdleExcludesWaiters, WithEntry, WithoutKey
<1>2. ASSUME NEW x \in Checkouts, PollMiss(x)
      PROVE  IdleExcludesWaiters'
  <2>1. coKey[x] \in Keys
    BY DEF TypeOK
  <2>2. Append(Queue(coKey[x]), x) # <<>>
    BY <2>1, ListTypes, AppendProperties
  <2>3. QED
    BY <1>2, <2>2 DEF PollMiss, IdleExcludesWaiters, WithEntry, WithoutKey
<1>3. ASSUME NEW x \in Checkouts, CleanWaiters(x)
      PROVE  IdleExcludesWaiters'
  <2> DEFINE k == coKey[x]
  <2>1. k \in Keys
    BY DEF TypeOK
  <2>2. PICK live \in Retained(Queue(k), LiveAt(k)) :
           waiters' = IF live = <<>> THEN WithoutKey(waiters, k)
                      ELSE WithEntry(waiters, k, live)
    BY <1>3 DEF CleanWaiters
  <2>3. live \in Seq(Checkouts) /\ ReadsAt(live, Queue(k), LiveAt(k))
    BY <2>1, CleanedFacts
  <2>4. live # <<>> => k \in DOMAIN waiters
    <3>1. SUFFICES ASSUME live # <<>> PROVE Queue(k) # <<>>
      BY DEF Queue
    <3>2. 1 \in 1..Len(live)
      BY <2>3, <3>1, EmptySeq
    <3>3. LiveAt(k) # {}
      BY <2>3, <3>2 DEF ReadsAt
    <3>4. QED
      BY <3>3 DEF LiveAt
  <2>5. idle' = idle
    BY <1>3 DEF CleanWaiters
  <2>6. QED
    BY <2>2, <2>4, <2>5 DEF IdleExcludesWaiters, WithEntry, WithoutKey
<1>4. ASSUME NEW t \in Connects, DropConnecting(t)
      PROVE  IdleExcludesWaiters'
  BY <1>4 DEF DropConnecting, IdleExcludesWaiters, WithoutKey
<1>5. ASSUME NEW k \in Keys, NEW c \in Conns,
             idle' = PutIdle(k, c),
             waiters' = PutWaiters(k, c) \/ waiters' = WithoutKey(PutWaiters(k, c), k)
      PROVE  IdleExcludesWaiters'
  <2>1. DOMAIN waiters' \subseteq DOMAIN PutWaiters(k, c)
        /\ \A l \in DOMAIN waiters' : waiters'[l] = PutWaiters(k, c)[l]
    BY <1>5 DEF WithoutKey
  <2>2. \A l \in DOMAIN waiters' : waiters'[l] # <<>>
    BY <2>1, PutWaitersFacts DEF IdleExcludesWaiters
  <2>i. /\ DOMAIN idle' \subseteq DOMAIN idle \cup {k}
        /\ \A l \in DOMAIN idle' \ {k} : l \in DOMAIN idle /\ idle'[l] = idle[l]
        /\ ~Remains(k, c) => idle' = idle
        /\ Remains(k, c) => idle'[k] = PutList(k, c)
        /\ PutList(k, c) # <<>>
    BY <1>5, PutIdleFacts
  <2>w. /\ DOMAIN waiters' \subseteq DOMAIN waiters
        /\ Remains(k, c) => k \notin DOMAIN waiters'
    BY <2>1, PutWaitersFacts
  <2>3. \A l \in DOMAIN idle' : idle'[l] # <<>>
    BY <2>i DEF IdleExcludesWaiters
  <2>4. DOMAIN idle' \cap DOMAIN waiters' = {}
    BY <2>i, <2>w DEF IdleExcludesWaiters
  <2>5. QED
    BY <2>2, <2>3, <2>4 DEF IdleExcludesWaiters
<1>6. ASSUME NEW t \in Connects, NEW c \in Conns, NEW s \in {"ready", "closed"},
             PooledShared(t, c, s)
      PROVE  IdleExcludesWaiters'
  BY <1>5, <1>6 DEF PooledShared, TypeOK
<1>7. ASSUME NEW o \in Owners, PutBack(o)
      PROVE  IdleExcludesWaiters'
  <2>1. handle[o].key \in Keys /\ handle[o].conn \in Conns
    BY <1>7 DEF PutBack, TypeOK, NoHandle, Handles
  <2>2. QED
    BY <1>5, <1>7, <2>1 DEF PutBack, Put
<1>8. CASE ClearExpired
  <2>1. \A k \in DOMAIN idle' : idle'[k] # <<>>
    <3>1. SUFFICES ASSUME NEW k \in DOMAIN idle' PROVE idle'[k] # <<>>
      OBVIOUS
    <3>2. Kept(k) # {} /\ ReadsAt(idle'[k], idle[k], Kept(k)) /\ idle'[k] \in Seq(Entries)
      BY <1>8, ClearExpiredFacts
    <3>3. 1..Len(idle'[k]) # {}
      BY <3>2 DEF ReadsAt
    <3>4. QED
      BY <3>2, <3>3, EmptySeq
  <2>2. DOMAIN idle' \subseteq DOMAIN idle
    BY <1>8, ClearExpiredFacts
  <2>3. QED
    BY <1>8, <2>1, <2>2 DEF ClearExpired, IdleExcludesWaiters
<1>9. CASE DropPool
  BY <1>9 DEF DropPool, IdleExcludesWaiters
<1>10. ASSUME UNCHANGED <<idle, waiters>>
       PROVE  IdleExcludesWaiters'
  BY <1>10 DEF IdleExcludesWaiters
<1>11. CASE UNCHANGED vars
  BY <1>10, <1>11 DEF vars
<1>12. ASSUME NEW x \in Checkouts,
              \/ \E k \in Keys : Checkout(x, k)
              \/ PollReceived(x) \/ PollCanceled(x) \/ DropCheckout(x)
       PROVE  IdleExcludesWaiters'
  BY <1>10, <1>12 DEF Checkout, PollReceived, PollCanceled, DropCheckout
<1>13. ASSUME NEW t \in Connects,
              \/ \E k \in Keys : ConnectAuto(t, k) \/ ConnectHttp2(t, k)
              \/ AlpnH2(t)
              \/ \E c \in Conns, s \in {"ready", "closed"} : PooledUnique(t, c, s)
       PROVE  IdleExcludesWaiters'
  BY <1>10, <1>13 DEF ConnectAuto, ConnectHttp2, AlpnH2, PooledUnique
<1>14. ASSUME NEW o \in Owners, Use(o) \/ DropPooled(o)
       PROVE  IdleExcludesWaiters'
  BY <1>10, <1>14 DEF Use, DropPooled
<1>15. ASSUME NEW c \in Conns, ConnReady(c) \/ ConnClosed(c)
       PROVE  IdleExcludesWaiters'
  BY <1>10, <1>15 DEF ConnReady, ConnClosed
<1>16. CASE IdleTaskEnds \/ Tick
  BY <1>10, <1>16 DEF IdleTaskEnds, Tick
<1>17. QED
  BY <1>1, <1>2, <1>3, <1>4, <1>6, <1>7, <1>8, <1>9, <1>11, <1>12, <1>13,
     <1>14, <1>15, <1>16, Zenon DEF Next

\* No checkout is ever parked on a key for which connections are idle.
THEOREM ExclusionCorrect == Spec => []IdleExcludesWaiters
BY TypeInit, TypeStep, ExclusionInit, ExclusionStep, PTL DEF Spec

-----------------------------------------------------------------------------
(* The HTTP/2 connecting mark.                                             *)

\* The keys marked in PoolInner.connecting are those of the locked attempts.
LEMMA LockStep == TypeOK /\ OneHttp2Connecting /\ [Next]_vars => OneHttp2Connecting'
<1> SUFFICES ASSUME TypeOK, OneHttp2Connecting, [Next]_vars
             PROVE  OneHttp2Connecting'
  OBVIOUS
<1> USE DEF inner
<1>1. ASSUME UNCHANGED <<connecting, ct, ctKey>>
      PROVE  OneHttp2Connecting'
  BY <1>1 DEF OneHttp2Connecting
\* An attempt takes a key that no locked attempt has.
<1>2. ASSUME NEW t \in Connects, NEW k \in Keys, ct[t] # "locked", k \notin connecting,
             connecting' = connecting \cup {k},
             ct' = [ct EXCEPT ![t] = "locked"], ctKey' = [ctKey EXCEPT ![t] = k]
      PROVE  OneHttp2Connecting'
  <2>1. \A u \in Connects : ct'[u] = "locked" <=> (u = t \/ ct[u] = "locked")
    BY <1>2 DEF TypeOK
  <2>2. \A u \in Connects : ctKey'[u] = IF u = t THEN k ELSE ctKey[u]
    BY <1>2 DEF TypeOK
  <2>3. \A u \in Connects : ct[u] = "locked" => ctKey[u] \in connecting
    BY DEF OneHttp2Connecting
  <2>4. \A u, v \in Connects :
           ct'[u] = "locked" /\ ct'[v] = "locked" /\ ctKey'[u] = ctKey'[v] => u = v
    BY <1>2, <2>1, <2>2, <2>3 DEF OneHttp2Connecting
  <2>5. connecting' = {ctKey'[u] : u \in {v \in Connects : ct'[v] = "locked"}}
    BY <1>2, <2>1, <2>2 DEF OneHttp2Connecting
  <2>6. QED
    BY <2>4, <2>5 DEF OneHttp2Connecting
\* A locked attempt gives its key back.
<1>3. ASSUME NEW t \in Connects, ct[t] = "locked",
             connecting' = connecting \ {ctKey[t]},
             ct' = [ct EXCEPT ![t] = "none"], ctKey' = ctKey
      PROVE  OneHttp2Connecting'
  <2>1. \A u \in Connects : ct'[u] = "locked" <=> (u # t /\ ct[u] = "locked")
    BY <1>3 DEF TypeOK
  <2>2. \A u, v \in Connects :
           ct'[u] = "locked" /\ ct'[v] = "locked" /\ ctKey'[u] = ctKey'[v] => u = v
    BY <1>3, <2>1 DEF OneHttp2Connecting
  <2>3. \A u \in Connects : u # t /\ ct[u] = "locked" => ctKey[u] # ctKey[t]
    BY <1>3 DEF OneHttp2Connecting
  <2>4. connecting' = {ctKey'[u] : u \in {v \in Connects : ct'[v] = "locked"}}
    BY <1>3, <2>1, <2>3 DEF OneHttp2Connecting
  <2>5. QED
    BY <2>2, <2>4 DEF OneHttp2Connecting
\* An attempt that was not locked starts or ends without the key.
<1>4. ASSUME NEW t \in Connects, ct[t] # "locked", connecting' = connecting,
             ct'[t] # "locked",
             \A u \in Connects \ {t} : ct'[u] = ct[u] /\ ctKey'[u] = ctKey[u]
      PROVE  OneHttp2Connecting'
  <2>1. \A u \in Connects : ct'[u] = "locked" <=> ct[u] = "locked"
    BY <1>4
  <2>2. \A u \in Connects : ct[u] = "locked" => ctKey'[u] = ctKey[u]
    BY <1>4
  <2>3. QED
    BY <1>4, <2>1, <2>2 DEF OneHttp2Connecting
<1>5. ASSUME NEW t \in Connects, NEW k \in Keys, ConnectAuto(t, k) \/ ConnectHttp2(t, k)
      PROVE  OneHttp2Connecting'
  BY <1>2, <1>4, <1>5 DEF ConnectAuto, ConnectHttp2, TypeOK
<1>6. ASSUME NEW t \in Connects, AlpnH2(t)
      PROVE  OneHttp2Connecting'
  <2>1. CASE ctKey[t] \in connecting
    BY <1>4, <1>6, <2>1 DEF AlpnH2, TypeOK
  <2>2. CASE ctKey[t] \notin connecting
    <3>1. ctKey' = [ctKey EXCEPT ![t] = ctKey[t]] /\ ctKey[t] \in Keys
      BY <1>6 DEF AlpnH2, TypeOK
    <3>2. QED
      BY <1>2, <1>6, <2>2, <3>1 DEF AlpnH2
  <2>3. QED
    BY <2>1, <2>2
<1>7. ASSUME NEW t \in Connects, DropConnecting(t)
      PROVE  OneHttp2Connecting'
  <2>1. CASE ct[t] = "locked"
    BY <1>3, <1>7, <2>1 DEF DropConnecting
  <2>2. CASE ct[t] # "locked"
    BY <1>4, <1>7, <2>2 DEF DropConnecting, TypeOK
  <2>3. QED
    BY <2>1, <2>2
<1>8. ASSUME NEW t \in Connects, NEW c \in Conns, NEW s \in {"ready", "closed"},
             PooledShared(t, c, s) \/ PooledUnique(t, c, s)
      PROVE  OneHttp2Connecting'
  <2>1. CASE PooledShared(t, c, s)
    BY <1>3, <2>1 DEF PooledShared
  <2>2. CASE PooledUnique(t, c, s)
    BY <1>4, <2>2 DEF PooledUnique, TypeOK
  <2>3. QED
    BY <1>8, <2>1, <2>2
<1>9. ASSUME NEW x \in Checkouts,
             \/ \E k \in Keys : Checkout(x, k)
             \/ PollHit(x) \/ PollMiss(x) \/ PollReceived(x) \/ PollCanceled(x)
             \/ DropCheckout(x) \/ CleanWaiters(x)
      PROVE  OneHttp2Connecting'
  BY <1>1, <1>9 DEF Checkout, PollHit, PollMiss, PollReceived, PollCanceled,
                    DropCheckout, CleanWaiters
<1>10. ASSUME NEW o \in Owners, Use(o) \/ DropPooled(o) \/ PutBack(o)
       PROVE  OneHttp2Connecting'
  BY <1>1, <1>10 DEF Use, DropPooled, PutBack
<1>11. ASSUME NEW c \in Conns, ConnReady(c) \/ ConnClosed(c)
       PROVE  OneHttp2Connecting'
  BY <1>1, <1>11 DEF ConnReady, ConnClosed
<1>12. CASE ClearExpired \/ IdleTaskEnds \/ DropPool \/ Tick
  BY <1>1, <1>12 DEF ClearExpired, IdleTaskEnds, DropPool, Tick
<1>13. CASE UNCHANGED vars
  BY <1>1, <1>13 DEF vars
<1>14. QED
  BY <1>5, <1>6, <1>7, <1>8, <1>9, <1>10, <1>11, <1>12, <1>13, Zenon DEF Next

\* At most one HTTP/2 attempt per key, and no mark without an attempt.
THEOREM OneHttp2ConnectingCorrect == Spec => []OneHttp2Connecting
<1>1. Init => OneHttp2Connecting
  BY DEF Init, OneHttp2Connecting
<1>2. QED
  BY <1>1, TypeInit, TypeStep, LockStep, PTL DEF Spec

-----------------------------------------------------------------------------
(* Waiters are canceled only by a failed attempt.                          *)

\* put leaves no waiter of the key for connected to cancel.
LEMMA NothingLeftToCancel ==
  ASSUME TypeOK, IdleExcludesWaiters, NEW k \in Keys, NEW c \in Conns, Shared(c)
  PROVE  k \notin DOMAIN PutWaiters(k, c)
<1>1. CASE Rejects(k, c)
  BY <1>1, PutWaitersFacts DEF Rejects, IdleExcludesWaiters
<1>2. CASE ~Rejects(k, c)
  <2>1. Remains(k, c)
    BY <1>2 DEF Remains
  <2>2. QED
    BY <2>1, PutWaitersFacts
<1>3. QED
  BY <1>1, <1>2

\* No step but the failure of a locked attempt cancels a waiter.
LEMMA CancelOnlyStep ==
  TypeOK /\ IdleExcludesWaiters /\ [Next]_vars => [CancelStep]_vars
<1> SUFFICES ASSUME TypeOK, IdleExcludesWaiters, Next, NEW x \in Checkouts,
                    co[x] = "waiting", co'[x] = "canceled"
             PROVE  status' = status /\ \E t \in Connects : ct[t] = "locked" /\ ct'[t] = "none"
  BY DEF CancelStep
<1> USE DEF inner
<1>1. ASSUME NEW k \in Keys, NEW c \in Conns
      PROVE  PutCo(k, c)[x] # "canceled"
  BY DEF PutCo
<1>2. ASSUME NEW t \in Connects, NEW c \in Conns, NEW s \in {"ready", "closed"},
             PooledShared(t, c, s)
      PROVE  FALSE
  <2>1. ctKey[t] \in Keys /\ Shared(c)
    BY <1>2 DEF PooledShared, TypeOK
  <2>2. ctKey[t] \notin DOMAIN PutWaiters(ctKey[t], c)
    BY <2>1, NothingLeftToCancel
  <2>3. co'[x] = PutCo(ctKey[t], c)[x]
    BY <1>2, <2>2 DEF PooledShared, Canceled
  <2>4. QED
    BY <1>1, <2>1, <2>3
<1>3. ASSUME NEW o \in Owners, PutBack(o)
      PROVE  FALSE
  <2>1. handle[o].key \in Keys /\ handle[o].conn \in Conns
    BY <1>3 DEF PutBack, TypeOK, NoHandle, Handles
  <2>2. QED
    BY <1>1, <1>3, <2>1 DEF PutBack, Put
<1>4. ASSUME NEW t \in Connects, DropConnecting(t)
      PROVE  status' = status /\ \E u \in Connects : ct[u] = "locked" /\ ct'[u] = "none"
  BY <1>4 DEF DropConnecting, TypeOK
<1>5. ASSUME NEW y \in Checkouts,
             \/ \E k \in Keys : Checkout(y, k)
             \/ PollHit(y) \/ PollMiss(y) \/ PollReceived(y) \/ PollCanceled(y)
             \/ DropCheckout(y) \/ CleanWaiters(y)
      PROVE  FALSE
  BY <1>5 DEF Checkout, PollHit, PollMiss, PollReceived, PollCanceled,
              DropCheckout, CleanWaiters, TypeOK
<1>6. ASSUME co' = co
      PROVE  FALSE
  BY <1>6
<1>7. ASSUME NEW t \in Connects,
             \/ \E k \in Keys : ConnectAuto(t, k) \/ ConnectHttp2(t, k)
             \/ AlpnH2(t)
             \/ \E c \in Conns, s \in {"ready", "closed"} : PooledUnique(t, c, s)
      PROVE  FALSE
  BY <1>6, <1>7 DEF ConnectAuto, ConnectHttp2, AlpnH2, PooledUnique
<1>8. ASSUME NEW o \in Owners, Use(o) \/ DropPooled(o)
      PROVE  FALSE
  BY <1>6, <1>8 DEF Use, DropPooled
<1>9. ASSUME NEW c \in Conns, ConnReady(c) \/ ConnClosed(c)
      PROVE  FALSE
  BY <1>6, <1>9 DEF ConnReady, ConnClosed
<1>10. ASSUME ClearExpired \/ IdleTaskEnds \/ DropPool \/ Tick
       PROVE  FALSE
  BY <1>6, <1>10 DEF ClearExpired, IdleTaskEnds, DropPool, Tick
<1>11. QED
  BY <1>2, <1>3, <1>4, <1>5, <1>7, <1>8, <1>9, <1>10, Zenon DEF Next

\* The comment in PoolInner::connected, for every instance.
THEOREM CancelOnlyOnFailureCorrect == Spec => CancelOnlyOnFailure
BY TypeInit, TypeStep, ExclusionInit, ExclusionStep, CancelOnlyStep, PTL
   DEF Spec, CancelOnlyOnFailure

=============================================================================
