-------------------------------- MODULE Pool --------------------------------
(***************************************************************************)
(* The client connection pool (src/client/pool.rs).                        *)
(*                                                                         *)
(* PoolInner sits behind one mutex, so an operation that holds the lock is *)
(* one step.  What happens outside the lock is a step of its own: polling  *)
(* and dropping the receiver of a waiter, the is_open test that precedes   *)
(* the re-insertion of a Pooled, and the life of the connections.          *)
(*                                                                         *)
(* The pool is enabled (MaxIdle > 0): a disabled pool has no PoolInner and *)
(* keeps no state.                                                         *)
(*                                                                         *)
(* A definition whose name starts with Mut is a faulty variant of the one  *)
(* after it: a property is only worth its run if such a fault breaks it.   *)
(***************************************************************************)
EXTENDS Naturals, Sequences, FiniteSets

CONSTANTS
    Keys,         \* pool keys: (scheme, authority)
    Conns,        \* identities of the connections that may be opened
    SharedConns,  \* those that negotiate HTTP/2: Poolable::can_share
    HostOf,       \* the key each connection is opened for
    Checkouts,    \* identities of Checkout futures, reused once resolved
    Connects,     \* identities of connection attempts, reused likewise
    Ver,          \* Config::ver: "Auto" or "Http2"
    MaxIdle,      \* max_idle_per_host
    IdleTimeout,  \* Option<Duration>: a set of at most one number of ticks
    MaxTime,      \* bound on the clock
    NoConn        \* an empty oneshot, no handle

ASSUME PoolAssumption ==
    /\ Keys # {}
    /\ SharedConns \subseteq Conns
    /\ HostOf \in [Conns -> Keys]
    /\ Ver \in {"Auto", "Http2"}
    /\ MaxIdle \in Nat \ {0}
    /\ IdleTimeout \subseteq Nat
    /\ \A s, t \in IdleTimeout : s = t
    /\ MaxTime \in Nat
    /\ NoConn \notin Conns
    /\ Checkouts \cap Connects = {}

VARIABLES
    connecting,   \* PoolInner.connecting: keys with an HTTP/2 connect under way
    idle,         \* PoolInner.idle: key -> list of [conn, at]
    waiters,      \* PoolInner.waiters: key -> queue of the checkouts' senders
    interval,     \* PoolInner.idle_interval_ref and the IdleTask it spawned
    alive,        \* some Arc<Mutex<PoolInner>> is left
    now,          \* Instant::now()
    status,       \* life of each connection
    co,           \* state of each Checkout
    coKey,        \* its key
    slot,         \* what its oneshot holds
    ct,           \* state of each Connecting
    ctKey,        \* its key
    handle        \* the Pooled each checkout or connection attempt produced

inner == <<connecting, idle, waiters, interval, alive>>
vars  == <<connecting, idle, waiters, interval, alive, now, status,
           co, coKey, slot, ct, ctKey, handle>>

Owners   == Checkouts \cup Connects
Entries  == [conn : Conns, at : Nat]
NoHandle == [st |-> "none", conn |-> NoConn]
Handles  == [st : {"held", "dropping"}, conn : Conns, key : Keys]

-----------------------------------------------------------------------------
(* Connections and maps.                                                   *)

Shared(c)  == c \in SharedConns

\* PoolClient::is_open: the dispatcher wants a request.
IsOpen(c)  == status[c] = "ready"

\* Expiration::expires: strictly older than the timeout.
Expired(e) == \E t \in IdleTimeout : now > e.at + t

WithEntry(f, k, v) == [x \in DOMAIN f \cup {k} |-> IF x = k THEN v ELSE f[x]]
WithoutKey(f, k)   == [x \in DOMAIN f \ {k} |-> f[x]]
IdleList(k) == IF k \in DOMAIN idle THEN idle[k] ELSE <<>>
Queue(k)    == IF k \in DOMAIN waiters THEN waiters[k] ELSE <<>>

\* Vec::retain and VecDeque::retain: the sequences that keep exactly the
\* elements of s at the indices I, in order.  There is exactly one.
Retained(s, I) ==
    {[n \in DOMAIN f |-> s[f[n]]] :
        f \in {g \in UNION {[1..m -> I] : m \in 0..Len(s)} :
                  /\ \A i \in I : \E n \in DOMAIN g : g[n] = i
                  /\ \A n, m \in DOMAIN g : n < m => g[n] < g[m]}}

-----------------------------------------------------------------------------
(* PoolInner::put, field by field.                                         *)

\* Sender::is_canceled is false: the receiver is still there.
LiveAt(k) == {i \in 1..Len(Queue(k)) : co[Queue(k)[i]] = "waiting"}

Oldest(k) == CHOOSE i \in LiveAt(k) : \A j \in LiveAt(k) : i <= j

\* put returns at once for a shared connection when the key has idle ones.
Rejects(k, c) == Shared(c) /\ k \in DOMAIN idle

\* How many senders the loop pops: a unique value stops at the first live
\* waiter, a shared one is cloned for all of them.
Popped(k, c) == IF Rejects(k, c) THEN 0
                ELSE IF ~Shared(c) /\ LiveAt(k) # {} THEN Oldest(k)
                ELSE Len(Queue(k))
Served(k, c) == {Queue(k)[i] : i \in LiveAt(k) \cap (1..Popped(k, c))}

MutRemainsCopied(k, c) == ~Rejects(k, c)
MutRemainsLost(k, c)   == ~Rejects(k, c) /\ (Shared(c) \/ Queue(k) = <<>>)

\* A value is left to be stored after the loop.
Remains(k, c) == ~Rejects(k, c) /\ (Shared(c) \/ Served(k, c) = {})

PutCo(k, c)   == [x \in Checkouts |-> IF x \in Served(k, c) THEN "sent" ELSE co[x]]
PutSlot(k, c) == [x \in Checkouts |-> IF x \in Served(k, c) THEN c ELSE slot[x]]

MutPutWaiters(k, c) ==
    LET from == IF Served(k, c) = {} THEN Popped(k, c) + 1 ELSE Popped(k, c)
        rest == SubSeq(Queue(k), from, Len(Queue(k)))
    IN  IF rest = <<>> THEN WithoutKey(waiters, k) ELSE WithEntry(waiters, k, rest)

PutWaiters(k, c) ==
    LET rest == SubSeq(Queue(k), Popped(k, c) + 1, Len(Queue(k)))
    IN  IF rest = <<>> THEN WithoutKey(waiters, k) ELSE WithEntry(waiters, k, rest)

\* The list that put stores under k: unchanged when it is full.
PutList(k, c) == IF MaxIdle <= Len(IdleList(k)) THEN IdleList(k)
                 ELSE Append(IdleList(k), [conn |-> c, at |-> now])

PutIdle(k, c) == IF Remains(k, c) THEN WithEntry(idle, k, PutList(k, c)) ELSE idle

\* spawn_idle_interval: once, and only when there is a timeout.
PutInterval(k, c) ==
    IF /\ Remains(k, c)
       /\ Len(IdleList(k)) < MaxIdle
       /\ interval = "unspawned"
       /\ IdleTimeout # {}
    THEN "running" ELSE interval

Put(k, c) ==
    /\ co' = PutCo(k, c)
    /\ slot' = PutSlot(k, c)
    /\ waiters' = PutWaiters(k, c)
    /\ idle' = PutIdle(k, c)
    /\ interval' = PutInterval(k, c)

\* PoolInner::connected drops the senders still queued under k (w, s are the
\* waiters and the checkouts' states it finds): their receivers are canceled.
Canceled(s, w, k) ==
    [x \in Checkouts |->
        IF /\ k \in DOMAIN w
           /\ \E i \in 1..Len(w[k]) : w[k][i] = x
           /\ s[x] = "waiting"
        THEN "canceled" ELSE s[x]]

-----------------------------------------------------------------------------
Init ==
    /\ connecting = {}
    /\ idle = <<>>
    /\ waiters = <<>>
    /\ interval = "unspawned"
    /\ alive = TRUE
    /\ now = 0
    /\ status = [c \in Conns |-> "unborn"]
    /\ co = [x \in Checkouts |-> "none"]
    /\ coKey = [x \in Checkouts |-> CHOOSE k \in Keys : TRUE]
    /\ slot = [x \in Checkouts |-> NoConn]
    /\ ct = [t \in Connects |-> "none"]
    /\ ctKey = [t \in Connects |-> CHOOSE k \in Keys : TRUE]
    /\ handle = [o \in Owners |-> NoHandle]

-----------------------------------------------------------------------------
(* Checkout.                                                               *)

\* Pool::checkout: nothing happens until the first poll.
Checkout(x, k) ==
    /\ alive
    /\ co[x] = "none" /\ handle[x] = NoHandle
    /\ co' = [co EXCEPT ![x] = "new"]
    /\ coKey' = [coKey EXCEPT ![x] = k]
    /\ UNCHANGED <<inner, now, status, slot, ct, ctKey, handle>>

\* Entries IdlePopper::pop would return; it pops from the end of the list and
\* throws away the closed and the expired ones above the one it returns.
Usable(k) == {i \in 1..Len(IdleList(k)) :
                 IsOpen(IdleList(k)[i].conn) /\ ~Expired(IdleList(k)[i])}

Top(k) == CHOOSE i \in Usable(k) : \A j \in Usable(k) : j <= i

\* What pop leaves in the list: a shared connection goes back, dated now.
Leftover(k) ==
    LET below == SubSeq(IdleList(k), 1, Top(k) - 1)
        c     == IdleList(k)[Top(k)].conn
    IN  IF Shared(c) THEN Append(below, [conn |-> c, at |-> now]) ELSE below

\* Checkout::poll without a waiter: Checkout::checkout finds a connection,
\* and Pool::reuse wraps it.
PollHit(x) ==
    /\ co[x] = "new"
    /\ LET k == coKey[x] IN
       /\ Usable(k) # {}
       /\ handle' = [handle EXCEPT ![x] =
                       [st |-> "held", conn |-> IdleList(k)[Top(k)].conn, key |-> k]]
       /\ idle' = IF Leftover(k) = <<>> THEN WithoutKey(idle, k)
                  ELSE WithEntry(idle, k, Leftover(k))
    /\ co' = [co EXCEPT ![x] = "none"]
    /\ UNCHANGED <<connecting, waiters, interval, alive, now, status,
                   coKey, slot, ct, ctKey>>

MutPollMiss(x) ==
    /\ co[x] = "new"
    /\ LET k == coKey[x] IN
       /\ Usable(k) = {}
       /\ waiters' = WithEntry(waiters, k, Append(Queue(k), x))
    /\ co' = [co EXCEPT ![x] = "waiting"]
    /\ UNCHANGED <<connecting, idle, interval, alive, now, status,
                   coKey, slot, ct, ctKey, handle>>

\* Checkout::checkout finds none: the emptied entry is removed and a sender is
\* queued.  From here on poll returns Pending until the receiver resolves.
PollMiss(x) ==
    /\ co[x] = "new"
    /\ LET k == coKey[x] IN
       /\ Usable(k) = {}
       /\ idle' = WithoutKey(idle, k)
       /\ waiters' = WithEntry(waiters, k, Append(Queue(k), x))
    /\ co' = [co EXCEPT ![x] = "waiting"]
    /\ UNCHANGED <<connecting, interval, alive, now, status,
                   coKey, slot, ct, ctKey, handle>>

\* Checkout::poll_waiter, outside the lock: a connection that has closed
\* since it was sent is dropped and the checkout fails.
PollReceived(x) ==
    /\ co[x] = "sent"
    /\ handle' = IF IsOpen(slot[x])
                 THEN [handle EXCEPT ![x] =
                         [st |-> "held", conn |-> slot[x], key |-> coKey[x]]]
                 ELSE handle
    /\ co' = [co EXCEPT ![x] = "none"]
    /\ slot' = [slot EXCEPT ![x] = NoConn]
    /\ UNCHANGED <<inner, now, status, coKey, ct, ctKey>>

\* Checkout::poll_waiter: the sender was dropped, the checkout fails.
PollCanceled(x) ==
    /\ co[x] = "canceled"
    /\ co' = [co EXCEPT ![x] = "none"]
    /\ UNCHANGED <<inner, now, status, coKey, slot, ct, ctKey, handle>>

\* Drop for Checkout, first half: the receiver goes, and with it a connection
\* it already received.  The lock is not held.
DropCheckout(x) ==
    /\ co[x] \in {"new", "waiting", "sent", "canceled"}
    /\ co' = [co EXCEPT ![x] = IF co[x] = "new" THEN "none" ELSE "dropped"]
    /\ slot' = [slot EXCEPT ![x] = NoConn]
    /\ UNCHANGED <<inner, now, status, coKey, ct, ctKey, handle>>

\* Drop for Checkout, second half: clean_waiters under the lock.
CleanWaiters(x) ==
    /\ co[x] = "dropped"
    /\ LET k == coKey[x] IN
       \E live \in Retained(Queue(k), LiveAt(k)) :
           waiters' = IF live = <<>> THEN WithoutKey(waiters, k)
                      ELSE WithEntry(waiters, k, live)
    /\ co' = [co EXCEPT ![x] = "none"]
    /\ UNCHANGED <<connecting, idle, interval, alive, now, status,
                   coKey, slot, ct, ctKey, handle>>

-----------------------------------------------------------------------------
(* Connecting.                                                             *)

\* Pool::connecting under Ver::Auto: no lock.
ConnectAuto(t, k) ==
    /\ alive /\ Ver = "Auto"
    /\ ct[t] = "none" /\ handle[t] = NoHandle
    /\ ct' = [ct EXCEPT ![t] = "auto"]
    /\ ctKey' = [ctKey EXCEPT ![t] = k]
    /\ UNCHANGED <<inner, now, status, co, coKey, slot, handle>>

\* Pool::connecting under Ver::Http2, when no other attempt holds the key.
\* (When one does, it returns None and changes nothing.)
ConnectHttp2(t, k) ==
    /\ alive /\ Ver = "Http2"
    /\ ct[t] = "none" /\ handle[t] = NoHandle
    /\ k \notin connecting
    /\ connecting' = connecting \cup {k}
    /\ ct' = [ct EXCEPT ![t] = "locked"]
    /\ ctKey' = [ctKey EXCEPT ![t] = k]
    /\ UNCHANGED <<idle, waiters, interval, alive, now, status, co, coKey, slot, handle>>

\* Connecting::alpn_h2: the transport chose HTTP/2.  The attempt takes the
\* key, or gives up when another one has it.
AlpnH2(t) ==
    /\ ct[t] = "auto"
    /\ IF ctKey[t] \in connecting
       THEN ct' = [ct EXCEPT ![t] = "none"] /\ UNCHANGED connecting
       ELSE /\ ct' = [ct EXCEPT ![t] = "locked"]
            /\ connecting' = connecting \cup {ctKey[t]}
    /\ UNCHANGED <<idle, waiters, interval, alive, now, status,
                   co, coKey, slot, ctKey, handle>>

\* Pool::pooled with a shared connection: put, then connected, under one lock.
\* The connection may have closed since it became ready.
PooledShared(t, c, s) ==
    /\ ct[t] = "locked"
    /\ status[c] = "unborn" /\ Shared(c) /\ HostOf[c] = ctKey[t]
    /\ LET k == ctKey[t] IN
       /\ co' = Canceled(PutCo(k, c), PutWaiters(k, c), k)
       /\ waiters' = WithoutKey(PutWaiters(k, c), k)
       /\ slot' = PutSlot(k, c)
       /\ idle' = PutIdle(k, c)
       /\ interval' = PutInterval(k, c)
       /\ connecting' = connecting \ {k}
       /\ handle' = [handle EXCEPT ![t] = [st |-> "held", conn |-> c, key |-> k]]
    /\ status' = [status EXCEPT ![c] = s]
    /\ ct' = [ct EXCEPT ![t] = "none"]
    /\ UNCHANGED <<alive, now, coKey, ctKey>>

\* Pool::pooled with a unique connection: the Pooled alone has it.
PooledUnique(t, c, s) ==
    /\ ct[t] = "auto"
    /\ status[c] = "unborn" /\ ~Shared(c) /\ HostOf[c] = ctKey[t]
    /\ handle' = [handle EXCEPT ![t] = [st |-> "held", conn |-> c, key |-> ctKey[t]]]
    /\ status' = [status EXCEPT ![c] = s]
    /\ ct' = [ct EXCEPT ![t] = "none"]
    /\ UNCHANGED <<inner, now, co, coKey, slot, ctKey>>

MutDropConnecting(t) ==
    /\ ct[t] \in {"auto", "locked"}
    /\ ct' = [ct EXCEPT ![t] = "none"]
    /\ UNCHANGED <<inner, now, status, co, coKey, slot, ctKey, handle>>

\* Drop for Connecting, when the attempt fails or its future is dropped.
DropConnecting(t) ==
    /\ ct[t] \in {"auto", "locked"}
    /\ ct' = [ct EXCEPT ![t] = "none"]
    /\ IF ct[t] = "locked"
       THEN /\ connecting' = connecting \ {ctKey[t]}
            /\ co' = Canceled(co, waiters, ctKey[t])
            /\ waiters' = WithoutKey(waiters, ctKey[t])
       ELSE UNCHANGED <<connecting, co, waiters>>
    /\ UNCHANGED <<idle, interval, alive, now, status, coKey, slot, ctKey, handle>>

-----------------------------------------------------------------------------
(* Pooled and the connections.                                             *)

\* A request is sent on an HTTP/1 connection: not ready until it is idle again.
Use(o) ==
    /\ handle[o].st = "held"
    /\ IsOpen(handle[o].conn) /\ ~Shared(handle[o].conn)
    /\ status' = [status EXCEPT ![handle[o].conn] = "busy"]
    /\ UNCHANGED <<inner, now, co, coKey, slot, ct, ctKey, handle>>

ConnReady(c) ==
    /\ status[c] = "busy"
    /\ status' = [status EXCEPT ![c] = "ready"]
    /\ UNCHANGED <<inner, now, co, coKey, slot, ct, ctKey, handle>>

ConnClosed(c) ==
    /\ status[c] \in {"ready", "busy"}
    /\ status' = [status EXCEPT ![c] = "closed"]
    /\ UNCHANGED <<inner, now, co, coKey, slot, ct, ctKey, handle>>

\* Drop for Pooled, first half: the is_open test and the upgrade of the pool
\* reference, which only a unique connection has.  The lock is not held.
DropPooled(o) ==
    /\ handle[o].st = "held"
    /\ handle' = [handle EXCEPT ![o] =
                     IF IsOpen(@.conn) /\ ~Shared(@.conn) /\ alive
                     THEN [@ EXCEPT !.st = "dropping"] ELSE NoHandle]
    /\ UNCHANGED <<inner, now, status, co, coKey, slot, ct, ctKey>>

\* Drop for Pooled, second half: put under the lock.
PutBack(o) ==
    /\ handle[o].st = "dropping"
    /\ Put(handle[o].key, handle[o].conn)
    /\ handle' = [handle EXCEPT ![o] = NoHandle]
    /\ UNCHANGED <<connecting, alive, now, status, coKey, ct, ctKey>>

-----------------------------------------------------------------------------
(* The idle interval, the clock and the end of the pool.                   *)

\* Entries that clear_expired keeps.
Kept(k) == {i \in 1..Len(idle[k]) : IsOpen(idle[k][i].conn) /\ ~Expired(idle[k][i])}

\* IdleTask::poll on a tick: clear_expired, all keys under one lock.
ClearExpired ==
    /\ interval = "running" /\ alive
    /\ LET keep  == {k \in DOMAIN idle : Kept(k) # {}}
           lists == UNION {Retained(idle[k], Kept(k)) : k \in keep}
       IN  \E r \in [keep -> lists] :
              /\ \A k \in keep : r[k] \in Retained(idle[k], Kept(k))
              /\ idle' = r
    /\ UNCHANGED <<connecting, waiters, interval, alive, now, status,
                   co, coKey, slot, ct, ctKey, handle>>

\* IdleTask::poll after the pool is gone.
IdleTaskEnds ==
    /\ interval = "running" /\ ~alive
    /\ interval' = "ended"
    /\ UNCHANGED <<connecting, idle, waiters, alive, now, status,
                   co, coKey, slot, ct, ctKey, handle>>

\* The last Arc goes: checkouts, connection attempts and a Pooled that is
\* being re-inserted each own one.
DropPool ==
    /\ alive
    /\ \A x \in Checkouts : co[x] = "none"
    /\ \A t \in Connects : ct[t] = "none"
    /\ \A o \in Owners : handle[o].st # "dropping"
    /\ alive' = FALSE
    /\ idle' = <<>>
    /\ waiters' = <<>>
    /\ UNCHANGED <<connecting, interval, now, status, co, coKey, slot, ct, ctKey, handle>>

Tick ==
    /\ now < MaxTime
    /\ now' = now + 1
    /\ UNCHANGED <<inner, status, co, coKey, slot, ct, ctKey, handle>>

Next ==
    \/ \E x \in Checkouts, k \in Keys : Checkout(x, k)
    \/ \E x \in Checkouts : \/ PollHit(x) \/ PollMiss(x)
                            \/ PollReceived(x) \/ PollCanceled(x)
                            \/ DropCheckout(x) \/ CleanWaiters(x)
    \/ \E t \in Connects, k \in Keys : ConnectAuto(t, k) \/ ConnectHttp2(t, k)
    \/ \E t \in Connects : AlpnH2(t) \/ DropConnecting(t)
    \/ \E t \in Connects, c \in Conns, s \in {"ready", "closed"} :
           PooledShared(t, c, s) \/ PooledUnique(t, c, s)
    \/ \E o \in Owners : Use(o) \/ DropPooled(o) \/ PutBack(o)
    \/ \E c \in Conns : ConnReady(c) \/ ConnClosed(c)
    \/ ClearExpired \/ IdleTaskEnds \/ DropPool \/ Tick

Spec == Init /\ [][Next]_vars

-----------------------------------------------------------------------------
(* Invariants.                                                             *)

\* The type of every variable.
TypeOK ==
    /\ connecting \subseteq Keys
    /\ DOMAIN idle \subseteq Keys /\ idle \in [DOMAIN idle -> Seq(Entries)]
    /\ DOMAIN waiters \subseteq Keys /\ waiters \in [DOMAIN waiters -> Seq(Checkouts)]
    /\ interval \in {"unspawned", "running", "ended"}
    /\ alive \in BOOLEAN
    /\ now \in Nat
    /\ status \in [Conns -> {"unborn", "ready", "busy", "closed"}]
    /\ co \in [Checkouts -> {"none", "new", "waiting", "sent", "canceled", "dropped"}]
    /\ coKey \in [Checkouts -> Keys]
    /\ slot \in [Checkouts -> Conns \cup {NoConn}]
    /\ ct \in [Connects -> {"none", "auto", "locked"}]
    /\ ctKey \in [Connects -> Keys]
    /\ handle \in [Owners -> Handles \cup {NoHandle}]

\* No checkout is parked in the waiter queue of a key while the pool keeps idle
\* connections for that key, and neither map keeps an empty entry.  put and
\* Checkout::checkout each look at one of the two maps and rely on it.
IdleExcludesWaiters ==
    /\ DOMAIN idle \cap DOMAIN waiters = {}
    /\ \A k \in DOMAIN idle : idle[k] # <<>>
    /\ \A k \in DOMAIN waiters : waiters[k] # <<>>

SlotMatches == \A x \in Checkouts : slot[x] # NoConn <=> co[x] = "sent"

\* A checkout that still waits can be reached: its sender is in the queue of
\* its key, once, and nothing but waiting or just-dropped checkouts is queued.
\* One that was sent a connection has it until it polls or is dropped.
WaitersReachable ==
    /\ SlotMatches
    /\ \A x \in Checkouts : co[x] = "waiting" =>
          \E i \in 1..Len(Queue(coKey[x])) : Queue(coKey[x])[i] = x
    /\ \A k \in DOMAIN waiters : \A i \in 1..Len(waiters[k]) :
          /\ co[waiters[k][i]] \in {"waiting", "dropped"}
          /\ coKey[waiters[k][i]] = k
          /\ \A j \in 1..Len(waiters[k]) : waiters[k][i] = waiters[k][j] => i = j

\* "Ensure that there is only ever 1 connecting task for HTTP/2 connections":
\* at most one attempt owns a key, and a key is marked exactly while one does,
\* so the debug_assert of PoolInner::connected never fires and no mark is left
\* behind to block every later attempt.
OneHttp2Connecting ==
    /\ \A t, u \in Connects :
          ct[t] = "locked" /\ ct[u] = "locked" /\ ctKey[t] = ctKey[u] => t = u
    /\ connecting = {ctKey[t] : t \in {u \in Connects : ct[u] = "locked"}}

InIdle(c) == \E k \in DOMAIN idle : \E i \in 1..Len(idle[k]) : idle[k][i].conn = c
InSlot(c) == \E x \in Checkouts : slot[x] = c
InHandle(c) == \E o \in Owners : handle[o].conn = c

\* An HTTP/1 connection is in one place: one entry of one idle list, or one
\* oneshot, or one Pooled; and nowhere before it is opened.
UniqueCustody ==
    \A c \in Conns \ SharedConns :
        /\ status[c] = "unborn" => ~(InIdle(c) \/ InSlot(c) \/ InHandle(c))
        /\ \A k, l \in DOMAIN idle : \A i \in 1..Len(idle[k]), j \in 1..Len(idle[l]) :
              idle[k][i].conn = c /\ idle[l][j].conn = c => k = l /\ i = j
        /\ \A x, y \in Checkouts : slot[x] = c /\ slot[y] = c => x = y
        /\ \A o, p \in Owners : handle[o].conn = c /\ handle[p].conn = c => o = p
        /\ ~(InIdle(c) /\ InSlot(c))
        /\ ~(InIdle(c) /\ InHandle(c))
        /\ ~(InSlot(c) /\ InHandle(c))

\* A connection is stored, delivered and handed out only under the key it was
\* opened for.
RightHost ==
    /\ \A k \in DOMAIN idle : \A i \in 1..Len(idle[k]) : HostOf[idle[k][i].conn] = k
    /\ \A x \in Checkouts : slot[x] # NoConn => HostOf[slot[x]] = coKey[x]
    /\ \A o \in Owners : handle[o] # NoHandle => HostOf[handle[o].conn] = handle[o].key

\* An idle list has at most max_idle_per_host entries, the oldest first (what
\* the TODO in IdlePopper::pop asks), none from the future, and at most one of
\* them is HTTP/2.
IdleListShape ==
    \A k \in DOMAIN idle :
        /\ Len(idle[k]) <= MaxIdle
        /\ \A i \in 1..Len(idle[k]) : idle[k][i].at <= now
        /\ \A i, j \in 1..Len(idle[k]) :
              /\ i < j => idle[k][i].at <= idle[k][j].at
              /\ Shared(idle[k][i].conn) /\ Shared(idle[k][j].conn) => i = j

-----------------------------------------------------------------------------
(* Action properties.                                                      *)

CancelStep ==
    (\E x \in Checkouts : co[x] = "waiting" /\ co'[x] = "canceled")
    => status' = status /\ \E t \in Connects : ct[t] = "locked" /\ ct'[t] = "none"

\* PoolInner::connected cancels waiters only "because this Connecting task
\* didn't complete successfully": no waiter is canceled by the step that pools
\* a new connection.
CancelOnlyOnFailure == [][CancelStep]_vars

OldestStep ==
    \A k \in DOMAIN waiters : \A i, j \in 1..Len(waiters[k]) :
        /\ i < j
        /\ co[waiters[k][i]] = "waiting"
        /\ co'[waiters[k][j]] = "sent"
        => co'[waiters[k][i]] = "sent"

\* First come, first served: a waiter is not served while an older live waiter
\* of the same key is passed over.
OldestFirst == [][OldestStep]_vars

\* An open HTTP/1 connection is let go only by a checkout dropped after it was
\* sent the connection, by a list that is full or an entry that expired, or
\* when the pool itself is gone.
NoConnLost ==
    [][\A c \in Conns \ SharedConns :
          (IsOpen(c) /\ (InIdle(c) \/ InSlot(c) \/ InHandle(c))
                     /\ ~(InIdle(c) \/ InSlot(c) \/ InHandle(c))')
          => \/ \E x \in Checkouts : slot[x] = c /\ co'[x] = "dropped"
             \/ Len(IdleList(HostOf[c])) = MaxIdle
             \/ \E i \in 1..Len(IdleList(HostOf[c])) :
                   IdleList(HostOf[c])[i].conn = c /\ Expired(IdleList(HostOf[c])[i])
             \/ ~alive']_vars

-----------------------------------------------------------------------------
(* Liveness.  Connection attempts end: the transport reports success or    *)
(* failure, or the future is dropped.  The executor keeps polling the      *)
(* IdleTask, whose interval keeps ticking.                                 *)

ConnectEnds(t) ==
    \/ DropConnecting(t)
    \/ \E c \in Conns, s \in {"ready", "closed"} : PooledShared(t, c, s) \/ PooledUnique(t, c, s)

Fairness ==
    /\ \A t \in Connects : WF_vars(ConnectEnds(t))
    /\ WF_vars(ClearExpired)

FairSpec == Spec /\ Fairness

\* A checkout that waits for an HTTP/2 attempt on its key is served or canceled.
Http2WaiterResolved ==
    \A x \in Checkouts :
        (co[x] = "waiting" /\ coKey[x] \in connecting) ~> co[x] # "waiting"

=============================================================================
