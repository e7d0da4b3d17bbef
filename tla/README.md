# A verification of hyper's connection machinery

hyper 0.14 is an HTTP library: a client with a connection pool, HTTP/1 and
HTTP/2 connections for both roles, and a server with graceful shutdown.  This
directory models the parts of it that several threads, tasks or peers act on
at once, checks them with TLC on small instances, and proves the most
important results with TLAPS for every value of the constants.  Paths below
are relative to `src/src/` of the repository.

`PROJECT.json` lists every part of the system with its status, the code each
definition stands for, the runs, the faulty variants that show each property
can fail, what is hard to test in the code (`hazards`), and the theorems.

## 1. The system and its parts

| part | state it keeps | what is hard | modules |
|---|---|---|---|
| pool (`client/pool.rs`) | per host: idle list, queue of waiting checkouts, mark of an HTTP/2 attempt; idle task | handles are dropped on any thread; waiters are canceled by dropping a receiver | `Pool`, `PoolProofs`, `PoolCustodyProofs` |
| requests (`client/client.rs`) | the race of checkout and connect, the retry loop, the URI | the loser of the race; a connection that dies between checkout and use | `Client`, `ClientProofs` |
| connectors (`client/connect/*`) | address lists, happy-eyeballs timer | fallback racing the preferred family | `Connector` |
| dispatch channel (`client/dispatch.rs`, `client/conn.rs`) | want signal, one-message allowance, mpsc queue, one oneshot per request | sender and receiver run concurrently and either may go away | `ClientDispatch`, `ClientDispatchProofs` |
| HTTP/1 connection and its task (`proto/h1/conn.rs`, `dispatch.rs`, `io.rs`) | Reading, Writing, KA; bodies in and out; buffers | halves that finish in any order; re-polling after partial progress | `H1State`, `H1Dispatcher`, `H1Proofs` |
| heads, encoder, decoder (`proto/h1/role.rs`, `headers.rs`, `encode.rs`, `decode.rs`) | chunk state, remaining length | framing headers that repeat or disagree; input split or cut at any byte | `Framing`, `Exchange` |
| bodies (`body/*`, `common/watch.rs`) | a channel with a want signal, trailers, a delayed end | either end dropped, an error on a full channel, lost wake-ups | `BodyStream` (what is promised), `BodyChannel`, `BodyProofs` |
| HTTP/2 (`proto/h2/*`) | dispatch task, connection task, one task per stream, shared ping state | windows, resets, a peer that falls silent, counters other tasks write | `H2Ping`, `H2Conn`, `H2Proofs` |
| server (`server/*`, `common/drain.rs`, `upgrade.rs`, `common/io/rewind.rs`) | accept loop, drain signal, a connection's protocol, upgrades | a signal racing new connections; bytes read by one protocol and needed by the next | `Server`, `ServerProofs` |

A request asks the **pool** for a connection; the checkout races a new
connection from the **connectors**; a new connection is a **dispatch channel**
between the request and a task that runs the **HTTP/1 dispatcher** or the
**HTTP/2 client task**.  That task frames messages with the **heads**, the
**encoder** and the **decoder**, feeds a **body** to the caller and takes one
from it.  When a response is read the handle goes back to the pool.  On the
**server** the same dispatcher runs over a service, and graceful shutdown
reaches it through a drain signal.

Two compositions are modelled as such.  `Client` EXTENDS `Pool` and
`Connector`: each of its steps that touches the pool is a step of `Pool`, and a
theorem shows that the whole is a `Pool` behaviour.  `Exchange` puts the writer
of one role and the reader of the other at the two ends of a connection.

## 2. The modules

A definition named `Mut...` is a faulty variant of the one that follows it; it is
part of no specification and shows that a property can fail.

### Pool (`client/pool.rs`, and `PoolClient` in `client/client.rs`)

`PoolInner` is behind one mutex, so whatever happens under the lock is one step.
`idle`, `waiters`, `connecting` and `interval` are its fields; `co`, `coKey` and
`slot` are the `Checkout` futures and their oneshots; `ct` and `ctKey` the
`Connecting` guards; `handle` the `Pooled` each of them produced; `status` the
life of the connections.

| actions | code |
|---|---|
| `Checkout`, `PollHit`, `PollMiss`, `PollReceived`, `PollCanceled` | `Pool::checkout`, `Checkout::poll`, `IdlePopper::pop` |
| `DropCheckout`, `CleanWaiters` | `Drop for Checkout`: the receiver goes first, the queue is cleaned later |
| `ConnectAuto`, `ConnectHttp2`, `AlpnH2`, `DropConnecting` | `Pool::connecting`, `Connecting::alpn_h2`, `Drop for Connecting` |
| `PooledShared`, `PooledUnique` | `Pool::pooled` |
| `DropPooled`, `PutBack` | `Drop for Pooled`: the `is_open` test, then `PoolInner::put` under the lock |
| `ClearExpired`, `IdleTaskEnds`, `DropPool`, `Tick` | `IdleTask`, the last `Arc`, the clock |
| `Use`, `ConnReady`, `ConnClosed` | the connection behind a handle |

### Client and Connector (`client/client.rs`, `client/connect/http.rs`, `dns.rs`, `common/lazy.rs`, `service/oneshot.rs`)

A request is a record whose `pc` is the place in `connection_for`,
`send_request` and `retryably_send_request` (the header of `Client` lists the
places); a request's checkout has the request's name, `own` is the attempt its
connect future began, `via` the owner of the `Pooled` it uses.  `tcp` is the
connector's side of an attempt and `shake` the connection whose handshake it is
in.  `plan` fixes what does not change: the requests, the scheme, the addresses
and what the network does with each, the connector's configuration.
`DropFuture` is the user who drops the `ResponseFuture`, `ConnGone` a connection
that closes, at any moment.  A send has two steps, `Send`, which finds the channel
open, and `Push`; a connection may end between them, and its request may then be
`stuck` (`ClientDispatch` has the channel in detail).

`Connector` holds the steps of one attempt as operators on a record: readiness
(`Oneshot`), `CallAsync`, resolution, `ConnectingTcp` with the split into
families, the delay of the fallback, and what each address does.

### ClientDispatch (`client/dispatch.rs`, `client/conn.rs`, client half of `proto/h1/dispatch.rs`)

The caller and the connection task share the want signal, the mpsc queue and one
oneshot per request; each operation on one of these is a step.  The mpsc send is
two of them, the acceptance of a message and its becoming visible, which the
channel allows to straddle the receiver's drop.  `ReadyFirst` is the
discipline of `client.rs`: wait for readiness, then send, then hold the handle
until the answer.  `phase` is what the connection task is doing; `FailCancel`,
`FailClose`, `FailTryRecv` are the three steps of `Client::recv_msg` with an
error and nothing in flight, `DropConn` and `DropRx` the two of dropping the
receiver.

### H1State and H1Dispatcher (`proto/h1/conn.rs`, `proto/h1/dispatch.rs`, `proto/h1/io.rs`)

`H1State` is the connection as a record (`reading`, `writing`, `ka`, the read
buffer, the state of the write buffer, the socket) and one operator per method
of `Conn` and `State`.  Bytes are tokens: a head, a part of one, a piece of a
body, its end, or something that does not parse.  The write buffer is `empty`,
has `heads` only, has `queued` bodies, or is `full`; `mixed` says that headers were
put into it behind the body of an earlier message.

`H1Dispatcher` is the task.  `t.pc` is the place in `poll_loop` (read, write,
flush, then the test whether it is done); each turn of the loops of `poll_read`
and `poll_write` is one action named after the branch it takes.  A poll that
returns `Pending` leaves its waker with whoever it waits for (`t.wakers`,
`c.armed`), and a parked task runs again only after one of those wakers was
used; a lost wake-up is therefore visible as a task that sleeps for ever.  The
peer sends heads and bodies, closes or resets.  The service, the callers and
the bodies act between polls, and may also be ready at once when they are asked.
This is no restriction: what they do during a poll is seen only where the task
asks them.  A plan fixes which heads and faults the peer may send, which messages
go out, whether chunks fill the write buffer and how often the socket stops taking
bytes.  `t.mark` remembers two things of a round that no field of the code holds:
that the flush in `poll_write` made the connection idle, and that `poll_write`
skipped the service.

### Framing and Exchange (`proto/h1/role.rs`, `headers.rs`, `encode.rs`, `decode.rs`, `body/length.rs`)

`Framing` has no state: it says which framing headers and which encoder a role
writes for the head and the body a user gave, and which body length and
keep-alive the other role's parser reads out of such a head.  Of a head it keeps
the lines of Transfer-Encoding, Content-Length and Connection and the order of
the first two.

`Exchange` is one message between a writer and a reader.  The writer encodes
the head and then a body in chunks of any size (`WriteRequest`, `WriteResponse`,
`WriteBody`, `WriteBodyAndEnd`, `EndBody`); or it is another implementation that
uses leading zeros, extensions and trailers.  The wire is a sequence of tokens,
one per byte of a chunked body; a read takes any number of them, and
`CutOff` ends the connection anywhere.  The decoder's chunk states are those of
`decode.rs`.  `U64Max` and `Radix` narrow the 64-bit chunk size, so that
overflow happens.

### BodyStream and BodyChannel (`body/body.rs`, `common/watch.rs`)

`BodyStream` is what a body promises: chunks in order and once each, then one of
an end and an error, the one the sender meant.  A sender that goes away in the
middle reports nothing (`fate` is `cut`), and the reader is told an end.
`BodyChannel` is the code: the
want signal's store, load and waker, the channel of one slot per sender (a
clone, used by `abort`, has its own), the trailers' oneshot, `poll_eof` with the
delayed end, and the two tasks, each asleep until one of the wakers it left
behind is used.  The sender of a connection is dropped when the decoder is
through (`Finished`), or in the middle of a body when the dispatcher fails or the
Connection is dropped (`CutOff`); a user may drop theirs at any point.
`Implements` states that the second implements the first; the
variables of the abstract module are history variables of the concrete one.

### Server (`server/conn.rs`, `server.rs`, `tcp.rs`, `shutdown.rs`, `common/drain.rs`, `upgrade.rs`, `common/io/rewind.rs`)

`srv` is the server's future, `timeout` the listener's sleep, and `conn` one
record per connection: the task it is in (`connecting`, `H1`, `Handshaking`,
`Serving`, ...), the bytes not read, buffered and used, the version of the drain
signal it has seen.  The server's future may also fail, or be done because a
user's Accept ended, with connections being served (`StopServing`); the drain
signal is then dropped with it.  A client's bytes are tokens, the HTTP/2 preface three of
them.  What a request does inside a connection is left to `H1Dispatcher` and
`H2Conn`; here it is opened and answered.

### H2Ping and H2Conn (`proto/h2/*`, HTTP/2 half of `client/dispatch.rs` and `body/body.rs`)

`H2Ping` is the state that `Recorder`s and the `Ponger` share, and one operator
per method.  Time is the order in which the timer elapses and data is read.
`H2Conn` is the connection: the `ClientTask` (`DispatchRecv`, `DispatchEnd`),
the connection's task (`ConnPoll`, `ConnDropRx`, `ConnDone`), the server's
`H2Stream`, the pipes of both directions, the upgraded stream of CONNECT, and a
network that may fall silent.  A send has two steps (`Submit`, `TrySend`) between
which the `ClientTask` may drop its receiver.  A pong is `flying`, has `arrived` at
the socket, or was `read` by the connection's poll, which comes after the
`Ponger`'s in `ConnPoll`.  `ServerTimesOut` is the verdict of the server's own
keep-alive (`Serving::poll_ping`): it shuts the connection down abruptly, and marks
the upgraded streams of the server (`shut`).  The h2 crate is external and modelled by how
this code uses it: a window per direction, resets in either direction, frames in
order.

## 3. What the runs check

| run | instance | what it shows |
|---|---|---|
| `pool_auto` | one host, two HTTP/1 connections and one that ALPN turns into HTTP/2, two checkouts, two attempts, idle timeout | no host has idle connections and waiters at once; every live waiter can be reached; an HTTP/1 connection is in one place only; an open one is let go only for a stated reason |
| `pool_http2` | two hosts, HTTP/2 only | whoever waits for an attempt on its host is served or canceled in the end |
| `dispatch_raw` | four requests, sent without waiting | no promise is left unanswered; only requests never started are given back; the unbounded queue stays bounded; every request is resolved, except one that became visible after the receiver was gone |
| `dispatch_client` | two requests sent as `client.rs` does | **violated**: a request pushed while the receiver is dropped is never resolved (section 6) |
| `h1_server` | four plans of up to two pipelined requests: without bodies, with bodies that are answered early or late, with `Expect`, with an upgrade, HTTP/1.0 or bad bytes; whole, streamed, closing, unframed and refused responses; a full write buffer, a socket that stops once or is reset, an unready service, a graceful shutdown at any time | responses stay in step with requests; the assertion on cached headers holds; no message begins once the connection is to close; every request that arrived is served and answered, or the connection ends, and a graceful shutdown completes, both except in the state `Forgotten` (section 6) |
| `h1_early` | two requests with `Expect`, the first answered early, a socket that stops | **violated**: `100 Continue` is put in front of the queued body of the first response (section 6) |
| `h1_client` | two requests, whole or streamed, with chunks that fill the write buffer or not, early, partial and superfluous answers, end of stream | a request starts with bytes of an earlier answer unread only if the connection turned idle in the flush of `poll_write`; after the end of the stream every caller is answered |
| `body` | up to three chunks, of a known length or chunked, from a user or a connection, either of which may go away in the middle | the channel implements `BodyStream`; the length told is the length left; no wake-up of either side is lost |
| `exchange` | all framing headers a user can set, both directions and versions, keep-alive enabled or disabled at the server, chunked bodies of another implementation, every split and cut of the stream | what is written is what is read, and a cut body is never whole; hyper reads what hyper writes; a client keeps no connection that its server closes, with the exceptions of section 6; a reader never waits for what is not coming |
| `server` | two connections: HTTP/1, upgrade, HTTP/2 by its preface, CONNECT with a body, a client that does not answer pings; one error of the listener; a shutdown, a failure or the end of the Accept at any time | a shutdown costs no request and ends; the connections of a server whose future ended without the signal learn of it and end too; no byte is lost, repeated or reordered when a connection changes hands |
| `h2` | one request, plain or CONNECT, with a body in either direction, each setting of the pings, a network that may fall silent, a server that times out | bodies and upgraded streams end only when they are whole; no connection closes under a body that is being sent; requests are settled when the connection is lost or falls silent; pipes go on; exceptions in section 6 |
| `client` | two requests, two attempts, eleven plans of hosts, addresses and configurations | a request is started at most once, with the right form of target; a lost checkout costs nothing; the connector fails only if no address can be reached; each request ends, except one that is stuck (section 6) and except where the connector divides by zero |

`dispatch_client` and `h1_early` state what a comment and an assertion of the code
say, and TLC finds a counterexample; the other ten runs pass.

### Bounds

Two of each actor are enough for a race of two, and checkouts and attempts are
reused, so that the number of them does not bound the histories: a waiter behind
a canceled waiter needs two checkouts, a request on a reused connection two
messages.  `dispatch_raw` has four requests because its queue can hold three.

- `MaxTime` lets an entry expire.  A plan with `blocks` 1 lets the socket refuse
  bytes once, which is what reorders flush and write; the peer sends at most `max`
  heads.  `MaxRounds = 2` stands for the
  16 rounds of `poll_loop`, so that yielding happens.
- `U64Max = 7` and `Radix = 2` (`body`, `exchange`) narrow the 64-bit lengths and
  the hexadecimal digits: a fourth digit overflows, and the two top values keep
  their meaning as `CHUNKED` and `CLOSE_DELIMITED`.  `MaxBytes` and `MaxChunks`
  leave room for a chunk split over several reads and for one chunk in the
  channel while another waits.
- `Window` of `h2` holds just one chunk, so a pipe has to wait for capacity before
  it can look for the end of its body; there is one request because bodies,
  pings, resets and the loss of the connection already interleave around it.
  With `FirstWindow = 3` one chunk is enough for the estimate to grow.
- `MaxErrors = 1` lets the listener fail once.  One of the two connections of
  `server` has a choice of scripts; the other is there to be accepted before,
  during or after it.

Deadlock is not checked: each of these systems may come to rest with all
requests answered or the connection closed.  Where rest would be a fault, a
liveness property says so.

### Fairness

- Pool: attempts end, because transports time out or their future is dropped, and
  the executor polls the interval task.
- ClientDispatch: both threads run, the peer answers or the connection fails, and
  a response body ends.  Callers are not obliged to do anything.
- H1Dispatcher: the executor polls a woken task (weak fairness of the task); the
  socket takes bytes again, the service, the bodies and their readers make
  progress.  These are strong fairness conditions only because the model lets
  them act between polls: they run on their own and a busy task cannot hold them
  up.  Nothing is assumed of the peer.
- BodyChannel: either task runs once it is woken, the reader reads on until it drops
  the body, and a connection whose response was read goes back to the pool.
- Exchange: a reader with bytes to read reads, and a writer that has closed its
  connection shuts it down.
- Server: tasks run, services answer, clients finish what they began, the
  listener's sleep ends.  A client need not open anything, nor close.
- H2Conn: scheduled tasks run, services answer, readers read, time passes, and a
  network that is up delivers.  Nothing is delivered once it is silent.
- Client: the executor polls every task, timers elapse, and a peer answers or
  closes.  Only addresses that hang without a timeout are excepted (`Conclusive`).

## 4. What is proved

The theorems hold for every value of the constants that the named assumptions
allow: any set of hosts, requests, connections, heads and plans, and any bounds.

**PoolProofs** (`PoolAssumption`).  `TypeOK` is inductive together with
`SlotMatches` (a oneshot is full exactly while its checkout is `sent`).
`IdleExcludesWaiters` is inductive with it: `put` inserts into the idle list only
after the queue of the key is empty, and a checkout parks only after popping has
emptied the idle list.  `OneHttp2Connecting` needs only the types.
`CancelOnlyOnFailure` uses `IdleExcludesWaiters`: if the new shared connection
were rejected because the key has idle entries, the waiters would not be served
before `connected` drops them; the invariant says that then there are none.

**PoolCustodyProofs.**  `WaitersReachable`, `OldestFirst`, `RightHost`,
`IdleListShape` and `UniqueCustody`.  `UniqueCustody` is not inductive for a
set of connections at once; the proof fixes one HTTP/1 connection `c` and shows
`Custody(c)`, that at most one place holds it, from the shape of the lists
(`Shapes`), the hosts of what is stored (`Hosts`) and what the queues reach
(`Reach`).  `NoConnLost` is proved action by action: each function that takes a
connection out of a list, a oneshot or a handle is shown to put it into another
of them or to be in one of the cases the property names.  It needs `NoPooledYet`:
a checkout or an attempt that is under way has no `Pooled` yet, so that none is
overwritten, and its connection lost, when it resolves.

**ClientDispatchProofs** (`DispatchAssumption`).  `NeverUnanswered`, `AnswerFinal`,
`Custody`, `ReturnedUnstarted`, `QueueBounded` and `SendTokens`, for a connection
that is not dropped before it completes (`~MayDropConn`).  The inductive invariant is `TypeOK /\ Custody /\
ReturnedUnstarted`: where each request without an answer is.  `QueueBounded`
follows from `SendTokens`, a count of what is in the channel and of every
permission to send that is outstanding; no step raises it above three.

**H1Proofs** (`RoleAssumption`, `BoundsAssumption`).  `HalvesInStep`,
`NoMessageAfterClose` and `CachedHeadersUsed`, for both roles, and
`NoStaleResponse`, for every plan.  For each method of the connection a lemma
says what it does to the two halves and to the keep-alive state; `Moved` sums up
every step that begins no message.  The invariant `IInv` adds to `HalvesInStep`
that a due response is untouched and that a server waiting for a head (a client
that may write one) is idle unless it has not handled any message: `KA::Busy`
together with `Reading::Init` occurs only at the start.  Without this, a graceful
shutdown could turn a busy connection into a disabled one that still reads a
second head.  It also says when the cached headers are there: never while the
connection may write a head.  `NoStaleResponse` adds `StaleInv`: where a client may
take a request, its buffer is empty and its socket read dry, or it turned idle in
the flush of this very `poll_write`.

**BodyProofs** (`BodyAssumption`).  `ImplementsCorrect`: every behaviour of
`BodyChannel` is one of `BodyStream`.  Its invariant says what the sender
(`SenderInv`) and the reader (`ReaderInv`) know, and that what was received
followed by the channel is what was sent, closed by an error just when one is
due (`QueueInv`).  What it does not promise is in `BodyStream` too: a sender that
goes away in the middle is taken for an end.  Besides: `TypeOK`, `WantedFirst`, `EndAfterIdle`, and
`LengthTrue`: because the channel holds two items at most, the bytes in it are a
sum of two terms and need no induction.

**ServerProofs** (`ServerAssumption`).  `TypeOK`, `KeepsRequests` and `Rewound`.  The invariant is one predicate per connection
(`ConnOK`): in which task it can be with which drain signal, open requests and
reason to end.  `Rewound` needs a second one on the bytes (`BytesInv`): what was
used, buffered and left on the wire is a prefix of the client's script in each
task.

**H2Proofs** (`PingAssumption`, `ConnAssumption`).  `TypeOK`, `BodiesKeepConn`,
`EndIsWhole`, `WindowGrows`.  `HInv` relates the pong under way
with the shared ping state and the spawned pipes with the connection; `PingStep`
says what any step of the connection may do to the pings.  `EndIsWhole` rests on
`WInv`.  For each direction of a stream, `Chain` gives every frame on the wire a
position: the first one starts where the reader stands, each next one where the
one before it ended, the last one ends at what was sent, and so does what ends the
stream.  With the positions this is a statement about neighbours, and no sum over
the wire is needed.  A direction is excused from it (`Excuse`) once the server has
shut the stream down abruptly.  `Control` says how far the pipes may have come with the request
and the service in which state, and `Waits` that the requests in the queue are
queued, each once.

**ClientProofs** (`ClientAssumption`, `ListsAssumption`, and the pool's).  `ImplementsPool`: every
behaviour of the client is a behaviour of `Pool`, so all pool theorems hold of
it.  The invariant is the pool's `Inv` together with `CInv`, which says for each
place of a request what it holds, and which attempts and links belong to whom.
`StartedOnce`, `FormFits`, `NoWastedConnect` and the types follow;
`OneExchange` uses `UniqueCustody` through `ImplementsPool`;
`CheckoutLossHarmless` is proved for `Ver = "Auto"` and adds `NeverAlone`: where the
host offers no HTTP/2, no request ever waits for its checkout alone.
`NoFalseConnectError` needs `Hopeful`: while addresses are tried, one that could be
reached at the start is still ahead of the loop that goes through its list, and a
list that is not gone through is empty.  `ListsAssumption`, which TLC evaluates for
the plans of the run, says that the two lists of a plan are made of addresses;
`SelectSeq`, which `split_by_preference` is written with, is recursive.

Some proved properties are in no run's list: the types, and `OneHttp2Connecting`,
`CancelOnlyOnFailure`, `OldestFirst`, `RightHost`, `IdleListShape`, `Custody`,
`SendTokens`, `AnswerFinal`, `WantedFirst`, `EndAfterIdle`, `OneExchange`,
`NoWastedConnect`, `WindowGrows`.  The theorem covers what a
run would show.

## 5. What is only model-checked

- All liveness properties: fairness and ENABLED are outside the prover's reach.
- All of `Exchange`: what the decoder makes of every stream, and what the parser
  makes of every list of header lines, are inductions over data, which the
  installed provers cannot do.  `FramingAssumption` and `ExchangeAssumption` are
  used by TLC only.

## 6. Where code and comments disagree, and other cases met

The models contain these cases, and the instances reach them unless this says
otherwise.  Two are stated as properties that runs violate; where another checked
property would be violated, it names the exception.

HTTP/1:

- `is_done` looks at the reading and writing states, not at the flush
  (`proto/h1/dispatch.rs:389`); `server/conn.rs:776` says that a connection that is
  done has finished flushing.  After an abandoned request body the task is done
  with its response buffered, if the socket takes no bytes.
- The `100 Continue` (`proto/h1/conn.rs:324`) and the automatic error response
  (`conn.rs:709`) go into the header buffer without asking `can_headers_buf`,
  against the assertion at `io.rs:609`, when the body of an early response is
  queued and the socket takes no bytes.  `h1_early` shows it.
- While an early response is unflushed, `poll_write` does not poll the service of
  the next request (`dispatch.rs:370`), and after the flush no waker is left;
  the comment at `dispatch.rs:164` promises the round that is needed.  `Answered` and
  `GracefulEnds` except exactly this state, `Forgotten`.
- The flush inside `poll_write` may make a client idle, and the same loop
  (`dispatch.rs:331`) takes the next request without the test for unread bytes
  that `conn.rs:367` makes.  `NoStaleResponse` excepts it.
- When a connection fails or is dropped in the middle of a body,
  `poll_catch` (`dispatch.rs:115`) does not tell the body's sender.  The sender is
  dropped, and the reader sees an end; the size hint of a body of known length
  still counts what is missing (`LengthTrue`), that of a chunked one says nothing.
- A finished body's sender may be kept while the task waits for the next head
  (`dispatch.rs:187`).
- A user's `Transfer-Encoding` on a response without a body selects the chunked
  encoder (`role.rs:752`), and nothing ends the message.  `MCExchange` leaves
  these responses out.
- A 204 answer to CONNECT is an upgrade for the server (`role.rs:339`) and an
  ordinary answer for the client (`role.rs:1131`).  A server that disabled keep-alive
  itself, by a graceful shutdown (`conn.rs:771`) or `http1_keep_alive(false)`
  (`server/conn.rs:651`), sends a peer of HTTP/1.1 no `Connection: close`
  (`role.rs:351`).  `KeepAliveAgreed` excuses both, and users whose headers
  contradict the peer's.

Client:

- An HTTP/2 connection that is held longer than the idle timeout leaves the pool
  although it is open and in use; the comment at `pool.rs:542` takes it to be in
  the pool or dead.
- `if pooled.is_closed() { return fut.await }` (`client.rs:295`) still owns the
  `Pooled`, so a message that becomes visible after the receiver is gone stays
  in the channel, against the comment above that line.  `dispatch_client` shows it,
  and `ResolvedUnlessStuck` that there is no other way for a request to stay
  unresolved; `RequestEnds` (`client`) and `ConnLossSettles` (`h2`, where
  `UnboundedSender` has the same race and any `SendRequest` keeps the channel)
  except such a request.
- With ALPN, a request that was never started may fail as canceled
  (`client.rs:390`): its checkout is lost and its attempt canceled by another.
  `CheckoutLossHarmless` excludes hosts that offer HTTP/2.
- `connect_timeout` is divided by the number of addresses of a family, which may
  be zero (`http.rs:518`), and panics.  `RequestEnds` excludes the plans where it
  does, and allows a panic in no other.  An error in making or binding a socket skips the
  remaining addresses of the family (`http.rs:532`); `Reachable` says which
  addresses count.

Server and HTTP/2:

- `upgrade_h2` (`server/conn.rs:871`) forgets a graceful shutdown that came while
  the preface was being read.  `ShutdownEnds` and `OrphansEnd` excuse such a
  connection.
- When a user's Accept ends, the future of `with_graceful_shutdown` is done with
  connections being served (`server/conn.rs:1110`, `shutdown.rs:84`): it waits for
  them only after the signal.  They are told to shut down, because the drain signal
  is dropped (`OrphansEnd`).
- A server that shuts its HTTP/2 connection down abruptly, after an unanswered
  keep-alive ping with `NO_ERROR` (`proto/h2/server.rs:349`) or for a reason of its
  service, ends its upgraded streams with that reason, and `H2Upgraded` reads
  `NO_ERROR` and `CANCEL` as a clean end (`proto/h2/mod.rs:318`).  `EndIsWhole`
  excepts these streams.
- A pong that has reached the socket is read by the connection's poll
  (`proto/h2/client.rs:155`), after the `Ponger` was polled (142): a task that runs
  late times out with the pong there to be read.
- A CONNECT with a non-zero content-length ends the whole HTTP/2 connection
  (`proto/h2/server.rs:291`).  `KeepsRequests` counts it among the reasons.
- A preface that arrives in pieces is refused as HTTP/1.
- When a pong and its timeout meet, the keep-alive timer is set anew but not
  polled (`proto/h2/ping.rs:327`; the comment at 360 asks about it).  After the
  `ClientTask` has ended, `is_idle` (`ping.rs:365`) takes a connection with one
  stream for idle.  `KeepAliveSettles` excuses both.

## 7. What is not modelled

- Pool: the disabled pool, which has no `PoolInner`; poisoned locks.
- Client: the `Host` header and `Extra`; builders; `client/service.rs`.  The
  HTTP/2-only branches of `Client` are modelled and proved about, but its run uses
  `Ver = "Auto"`.
- HTTP/1: half-close, the flatten write strategy, the header read timeout, the
  sizes of the read strategy, the text and case of headers.
- HTTP/2: `strip_connection_headers`; the h2 crate beyond what this code sees of it.
  The state of the server's own pings: the `Ponger` is the code modelled for the
  client, and of `Serving::poll_ping` only the timeout is modelled, as a step that
  may come at any time; its window updates are not.
- Server: socket options and builders.
- Error values, the C API, trait adapters and test doubles, which keep no protocol
  state of their own.
