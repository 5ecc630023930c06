# TLA+ models of the per-core sharded gateway

`cpp_noshared_arch` is an HTTP/1.1 reverse proxy built without shared state: one
thread, one event loop and one `GatewayShard` per core. This directory holds TLA+
models of its core, TLC configurations that check them on small instances, and
TLAPS proofs of what matters most for every instance. Source paths below are
relative to `src/src/`.

## The system

| Component | State | Operations | Interacts with |
|---|---|---|---|
| `session/http_session` | parsers, serialisers, retry and keep-alive flags, `upstream_`, two buffers | one handler per completion of a read, write or connect; reset; close | filters, `UpstreamManager`, `BufferPool`, `LocalMetrics`, both sockets |
| `upstream/upstream_manager` | `next_endpoint_`, `idle_pools_`, resolved addresses | select, acquire, acquire fresh, release; DNS refresh | `race_with_timeout`, sessions (callbacks) |
| `net/race_with_timeout` | timer, `done` flag, callbacks | timer handler, operation handler | event loop |
| `filter/body_filter_gate` | `DataIterationState` per direction | apply, reset | `FilterChain`, session |
| `filter/filter_chain` | registered filters | head stage, body stage | filters |
| `net/http/native` serialisers | head and pending bytes, stage | start, provide_body, pull, done | session |
| `net/http/llhttp` parsers | llhttp state, scratch | feed, read_body, callbacks | session |
| `util/local_metrics`, `util/buffer_pool` | counters, free list | on_accept/on_close, acquire/release | session, `MetricsAggregator` |
| `session/session` | raw TCP relay, two concurrent directions | relay, close | `UpstreamManager` (not started by any shard) |
| `runtime/*` | shards, listener, threads, `stopped_` | start, stop, accept hand-off, metrics report | every shard, across threads |

What is hard here:

* **Concurrency.** Handlers of one shard never overlap, but the steps of many
  sessions, their clients and the servers interleave freely, and completions sit in
  the queue with their outcome fixed while other handlers run. Between threads, sockets
  are handed over by `post()`, counters are read while they are written, and `stop()`
  runs against handlers that are half done.
* **Failure.** A pooled connection may be dead, and a write to it still succeeds;
  the failure shows up at the read. A session retries once, in two different ways.
* **Streaming.** Bodies are cut into reads, filter chunks and writes that do not
  line up; a filter may hold data back; buffers may be filled exactly.
* **Reuse.** Sessions and connections both outlive a request: state that survives a
  reset, or an answer left on a pooled connection, harms the next one.

`PROJECT.json` lists these as hazards, each at its line, with the properties that
cover it.

## Modules

| Module | Models | Uses |
|---|---|---|
| `HttpSession` | the sessions of one shard with their servers | the next three |
| `UpstreamManager` | endpoint choice, idle pools, sockets | |
| `Serializer` | request and response serialisers (same machine) | |
| `BodyFilterGate` | the gate with one verdict per chunk | |
| `ConnectionPool` | *abstract*: unique ownership of upstream connections | |
| `UpstreamResolver` | DNS resolve and refresh, and the addresses behind the pool | `ConnectionPool` |
| `Session` | the raw TCP relay, operation by operation | `UpstreamManager` |
| `GatewayRuntime` | main thread, `Listener`, `GatewayShard`s, `MetricsAggregator` | |
| `FilterChain` | body stage of the chain, filter by filter, chunks with identity | `BodyFilterGate` |
| `SerializerSpec` | one serialiser and its caller | `Serializer` |
| `RaceWithTimeout` | connect against deadline | |
| `OneShot` | *abstract*: one result per operation | |
| `BodyDrain` | the drain loop of one read, chunk by chunk, against its closed form | `FilterChain` |
| `MCHttpSession` | symmetry | `HttpSession` |
| `*Proofs`, `SerializerLemmas` | theorems | |

### HttpSession and the code

`sess[s]` holds a session's fields: `rq` (request parser, gate, serialiser, flags),
`rt` (the retry flags and the snapshot), `rs` (the response side), `up`
(`upstream_`), `ep` (`endpoint_index_`) and `num` (which request of the connection).
`pend` names the one asynchronous operation under way; the value `"none"` would be
an open session that nothing wakes up, and `OperationHasConnection` shows it is
never reached.

An action is a completion handler with everything it calls:

| Action | Code |
|---|---|
| `start` | `start()` |
| `RequestChunk`, `RequestRefused`, `RequestReadFails` | `read_request_chunk` callback, `process_downstream_chunk`, `connect_upstream` when the pool has a connection |
| `ConnectSucceeds`, `ConnectFails` | callbacks of `connect_upstream` and of both retries |
| `WriteSucceeds`, `WriteFails` | write callback of `pull_and_write_request_to_upstream` |
| `ReconnectSucceeds`, `RewriteFails` | `retry_upstream_write_once`, `retry_upstream_after_read_failure` |
| `SnapshotWritten` | write callback of `retry_upstream_after_read_failure` |
| `ResponseHeadBegins`, `ResponseChunk`, `ResponseRefused`, `ResponseMalformed`, `ResponseReadFails` | `read_response_chunk` callback, `process_upstream_chunk` |
| `ResponseWritten`, `ClientGone` | write callback of `pull_and_write_response_to_downstream` |
| `ServerCloses` | environment |

A handler that calls `close()` leaves `pend = "closed"`, and `Settle` then does what
`close()` does: sockets, buffers, counters. A read that brings only part of a request
head changes nothing and is a stuttering step.

`socks[c]` is the server's side too: whether it has closed (`alive`), how much of a
request it has received (`rx`) and which requests it has yet to answer (`due`). That
is what lets the model say that a session awaits *its own* answer.

Abstractions: bytes are units (a head is `HeadUnits`, a drained body chunk is one, the
chunked terminator is one, the write buffer is `W`). Framing is a kind, not header
text. Filters may return any verdict from a given set at any time; what they do to the
data is left out. Clients send the next request after the answer to the last one.

`rq.runs`, `rq.given`, `rs.given`, `rs.heads` and `rt.snapOf` are history.

### GatewayRuntime and the code

`thread[t]` is what a thread is doing, `main.pc` where the main thread is; `"idle"` means
inside `io_context::run()`, between handlers. A handler is cut into steps wherever
another thread can tell the difference:

| Steps | Code |
|---|---|
| `StartsShard`, `ShardRuns`, `Listens`, `StartsListener`, `ListenerRuns` | `GatewayRuntime::start()`, the threads' functions |
| `SeesRunning` or `SeesStopping`, then `HandsOver`, then `Rearms` | the accept handler: the one look at `stopping_`, `accept_from()`, `do_accept()` |
| `SessionStarts`, `SessionStarted` | the posted task: adoption, `on_accept()`'s two atomics |
| `SessionEnds`, `SessionEnded` | `on_close()`'s two atomics; they run on the thread of the loop the socket is bound to |
| `TimerHandler`, `Reports` | the aggregator's handler: `report_now()`, then `schedule()` |
| `SetsStopping` ... `PrintsSummary` | `stop()` call by call, `print_metrics_summary()` |

The main thread calls `acceptor_.close()` and `timer_->cancel()` while the listener's
thread may be in `async_accept()` or arming the timer, although objects of a loop are
otherwise touched by its own thread only (`upstream_manager.cpp:19` says so of its own).
`Rearms` takes any outcome of that race: the accept waits, fails, or is lost. The counters
are relaxed atomics with one writer, and the code asks for no order between them
(`local_metrics.hpp:6`, `metrics_aggregator.hpp:13`). What a report loads while the shards
run may therefore be any mixture of older values. It is printed and nothing depends on it,
so the values are left out of the model and nothing is claimed of them. The summary is
printed after the joins, which order every update before its loads: there the last values
are what is read. Sessions that are open at `stop()` are abandoned without `close()`; the
summary counts them as active. A socket whose task is still queued when its shard stops is
destroyed with the task and counted nowhere.

### UpstreamResolver and the code

`dns[e]` is the answer for the host of `e` at the moment, 0 when the lookup fails. An
address is a pair of host and number, so that a connection to a wrong host would show.
`resolve()` blocks the shard's thread, which makes `resolve_all()` one step. Every
step on connections is `ConnectionPool`'s own, with the address added. A connect to an
endpoint that was never resolved fails in `async_connect()` (`doc/plan.md:62` has it go to
0.0.0.0:0).

### Session and the code

Each direction has one operation: in the reactor (`"read"`, `"write"`, `"rest"`),
completed with its handler queued (`"read_ok"`, `"read_err"`, ...), or none. `cancel()` and
`close()` fail what is in the reactor and cannot reach what is queued. `"write_part"` is the
continuation of the composed `async_write()`, at most one per write. `sock` is the socket
the operations were started on, which after `close()` may belong to the pool or to another
session. After the use of a null or dangling pointer (`crashed`) nothing more happens.
Bytes are not modelled: that a late answer of the server to a relay's last owner reaches
the next one is inherent in pooling raw connections.

## Runs

All runs finish in about three minutes at most with two workers; the two runs of `HttpSession`
and `runtime` take most of it.

| Run | Bounds | Shows |
|---|---|---|
| `serializer` | head = buffer = 2, body 6, chunks of 3 | conservation of units, honest `done()` and empty pulls under every interleaving of provide and pull |
| `chain` | 3 filters, 4 chunks, 2 messages, watermark 2 | nothing lost, doubled or carried over; what a filter holds back is not shown to later ones; the chain refines the gate; in every state the closed form `HttpSession` uses equals the drain loop over a read of up to 3 chunks |
| `race` | 2 races | exactly one `on_done`, also when both completions are queued; the loser ends |
| `upstream` | 2 users, 2 endpoints, 2 connections, pools of 1, 2 addresses per host, any number of changes and failed lookups | single ownership; a connection leads to its endpoint's host; endpoints and new connects follow a name that settles, through lookups that fail |
| `relay` | 2 relays, 1 endpoint, 2 connections, a pool of 1 | one reader per socket, `close()` acts once, the relays implement `ConnectionPool`, a closed relay ends |
| `runtime` | 2 shards, 4 clients, reports on or off | one thread per shard, even hand-off, an exact summary, `stop()` ends, accepted sockets are served, the listener goes on accepting after errors |
| `session_pool` | 2 sessions, 2 endpoints, pools of 1, 5 connections, 2 requests each, no bodies | the sessions implement `ConnectionPool`; pooled connections are quiescent; each session awaits its own answer; counters add up |
| `session_stream` | 1 session, 2 connections, 2 requests, bodies up to 3, reads of 2, writes of 2, all verdicts and framings but 1xx | contiguity of the request stream, the two retries, whole bodies, keep-alive; every step leaves less to do, and the session settles |

Why the bounds suffice: five connections are one more than two sessions and two full
pools of one can hold, so a fresh connection is always available and exhaustion
does not hide a behaviour (one session over one
endpoint has at most two open); pools of one are full after one release, so both branches of
`release_connection` are taken; two requests are one keep-alive reset; bodies of three
units exceed the watermark of one, a read and a write buffer. Four clients give each of two
shards two of them, so that a session ends while another one starts there and the turn
comes round twice. Two relays are an old and a new owner of one
connection, and two that return theirs to a pool of one. Two addresses are an old and a new
one. Clients are numbered in the order in which they are accepted, and the name of a
closed connection is used again. `CHECK_DEADLOCK FALSE` is given where the system may stop: all sessions closed and
the bound on requests reached, a chain that has refused, races that are over, a gateway
that has been stopped or that no client calls.

`FairSpec` assumes weak fairness of each session's handlers: every operation under way
completes sooner or later, with a result or an error. The loop guarantees that a
completed operation's handler runs. That the operation completes is the peer's doing,
because no read or write of a session has a deadline; `SessionSettles` therefore says
that the *gateway* adds no hang or loop of its own. The part of it that needs no fairness
is `HandlersRunOut`: `ToDo`, a number computed from the session's fields, falls with every
step that neither closes the session nor goes on to the next request. In `RaceWithTimeout` the clock and the
loop are fair, the operation is not: the deadline is what ends a connect. In
`UpstreamResolver` the refresh timer goes off again and again and a connect ends (with its
deadline); DNS is not fair. In `Session` only queued handlers are fair, nothing is assumed of
the peers. In `GatewayRuntime` each thread makes progress with its own steps, and the
accept handler is strongly fair: an `io_context` runs handlers in the order they were
queued, so reports cannot keep it waiting for ever. Clients, errors, the end of sessions
and the signal are not fair.

### Where the code and what is said about it differ

Each of these runs checks one statement of a comment or a test and finds a
counterexample; `PROJECT.json` quotes the statement.

| Run | What happens |
|---|---|
| `held_body` | a body filter holds data, the terminator of the chunked body comes in a read of its own, and the held data is never sent |
| `relay_stale` | client data and the upstream's end of stream complete together; the first handler closes the relay, the second uses what `close()` gave away. No shard starts `Session` at this commit |
| `second_head` | a refusal in mid-response puts a second response head into the stream |
| `interim` | a 1xx head counts as the response, and the connection is pooled with an answer owed |

Other disagreements met while modelling, which the models reproduce and no run is kept
for: a filter before the blocking one is not shown the chunks that arrive meanwhile, nor
the end of the stream (`filter.hpp:36` says each filter sees each chunk; `HeldBackInTurn` is
what holds); the request head is sent while a body filter is still buffering (the comment at
`http_session.cpp:183` says nothing has been sent yet); after a framed response with
`Connection: close` the next request is awaited with the old connection still held, until
it is replaced (`http_session.hpp:97` says it is pooled or closed by then); a read retry may
execute a request twice (`http_session.hpp:125` gives the reason not to; `RunsAtMostTwice`
is what holds); a one-write request whose head fills the buffer exactly is not kept for a
read retry (`http_session.cpp:223`), because `done()` lags one pull behind; and, from
reading the parser adapters, which are not modelled that far: of two pipelined requests in
one read the first head is overwritten by the second's and the bodies run together, where
`doc/plan.md:348` says the bytes of the next request are dropped.

`PooledQuiescent` and `AwaitsOwnAnswer` are checked without 1xx responses in the
passing runs; `interim` adds them, and `PooledQuiescent` fails. `DeclaredBodyWhole` is what remains of
`BodyWhole`: it holds for bodies with a Content-Length, whose end cannot come apart from
the last chunk.

## Proofs

Proved for all values of the constants that satisfy the named assumptions: sizes are
naturals, buffers and heads are not empty, there is at least one endpoint, the null
connection is no connection, the sessions of the raw relay are a finite set. Sessions of
`HttpSession`, connections and races may be infinitely many; filters, shards and clients are
any natural number. Every invariant and action property of the passing runs is proved.

* `SerializerProofs`: types, `Conservation`, `DoneIsComplete`, `EmptyPullIsHonest`. The
  invariant adds what each stage says about the fields: past the head stage nothing of
  the head is left, and "done" means everything is out. `SerializerLemmas` states what
  each operator keeps, for this module and for `HttpSessionProofs`.
* `RaceWithTimeoutProofs`: `OnceInv` is inductive with the types. `CalledAtMostOnce` is
  not inductive by itself: it needs that the `done` flag is set exactly when `on_done` has
  been called. From the same invariant, every step is a `Begin` or a `Finish` of `OneShot`
  or a stutter (`OneShotSafety`); the fairness of `ImplementsOneShot` is left to TLC.
* `FilterChainProofs`: `NothingLostInChain`, `WatermarkHolds`, `HeldBackInTurn` and, as an
  action property, `ChainMatchesGate`. The three invariants need one another and one more
  fact (`ChainInv`): no filter has seen a chunk that has not arrived, so what resumes after a
  block is new to the filters behind it. And, over `BodyDrain`, `DrainMatchesApply`: the loop
  that puts the chunks of a read through the gate one by one leaves what the closed form
  of `HttpSession` says, for reads of any number of chunks. The loop is a recursive function
  over the number of chunks. It is shown to exist and to be unique (`LoopExists`,
  `LoopUnique`), and the closed form to obey its recursion (`ClosedFormStep`), by induction
  over the naturals as it follows from the least-number principle (`SetInduction`).
* `UpstreamResolverProofs`: for the pool, `SingleOwner` is inductive with the types. Its
  three parts need one another: a popped connection is held by nobody (`PooledOnce`), so
  the new holder is the only one (`HeldOnce`). With DNS on top, `ResolverInv` adds that
  every address in the table, and every one an earlier connect took from it, is an
  address of its own endpoint (`OwnEntries`, `OwnTargets`); `RightHost` follows however
  refreshes fall between a connect and its completion.
* `HttpSessionProofs`, ownership: `ConnectionHeld`, `ConnectionOwned` and
  `PoolRefinement`, that is `Spec => ConnectionPool!Spec` under the mapping `hold` =
  every session's `upstream_`, `pools` = `idle_pools`, `peer` = the endpoints of the open
  sockets. The inductive invariant is `OwnInv == Types /\ SingleOwner /\
  OperationHasConnection`, where `Types` is `TypeOK` but for the sign of the counters. `OperationHasConnection` is what makes the steps map: a handler
  that releases must hold a connection, to the endpoint it releases it under, and one
  that connects must destroy what it held. One step per action shows that the action is a
  `Connect`, `Reuse`, `Release` or `Discard` of the session, or a stutter; `SingleOwner`
  then carries over from the abstract proof.
* `HttpSessionProofs`, streams: `RunsAtMostTwice`, `DeclaredBodyWhole`, `RetryIsInvisible` and
  `KeepAliveHonest` from `SoundInv`, which adds to `OwnInv` what a session's own fields say of
  its request, its response, what is kept for a retry and the operation under way. For
  example, `KeepAliveHonest` needs that a relayed response has exactly one head and that keep-alive
  was only decided for a framed one; `RunsAtMostTwice` needs that a captured snapshot is the
  whole request. `PooledQuiescent`, `AwaitsOwnAnswer` and `StreamContiguous` need both ends:
  `WireInv` relates each session to what the server of its connection has received and
  owes (`Wired`). `SingleOwner` is what keeps a step of one session from breaking it for
  another. These three are proved under `NoInterim` (no server sends a 1xx response); the run
  `interim` shows `PooledQuiescent` false without it.
* `HttpSessionProofs`, counters: `CountersAddUp` and `TypeCorrect`, that is the types with
  counters that never go below zero. `retries <= requests` is not inductive: in
  `CountInv` a started request that has not been retried is a retry in hand
  (`retries + Cardinality(Untried) <= requests`). That finitely many sessions are open is part
  of the induction.
* `HttpSessionProofs`, what is left to do: `HandlersRunOut`, for bodies, reads, writes and
  heads of any size, and `HandlersAct`: no handler leaves its session as it was. `ToDo`
  counts a unit still to be read nine times, because reading it may start a write, a
  connect and the next read before it is written, and a unit to be written once; a retry,
  the first bytes of an answer and a filter's own answer count while they are possible;
  and each operation has a rank (`Stage`). `AdvanceInv` adds to `SoundInv` that no more is
  read of a message than it has, so that the number is a natural one. Together the two
  bound the handlers of one request, and with a bound on the requests those of a session;
  what is left to liveness is that operations complete.
* `SessionProofs`: `OneReader`, `ClosedOnce`, the types and the pool refinement for the raw
  relay, with a close possible between any two completions. `OwnInv` says for each
  phase which operations may be under way and on which socket (`Settled`); `RelayInv` adds
  `ClosedOnce` and that a connect error is counted by a session that closes.
* `GatewayRuntimeProofs`: `OneThreadPerShard`, `Balanced`, `SummaryExact`, the types, and
  `NoPostToStopped` as an action property. `RuntimeInv` adds where each client is (queued
  once, served by one shard, counted once), what `stop()` has joined so far, and that
  nothing is counted once the summary is out.

Only model-checked is liveness, which is out of this prover's reach: `ImplementsOneShot`
(its safety part is proved), `LoserIsCancelled`, `SessionSettles` (its bound is
`HandlersRunOut`), `DnsConverges`, `SessionReleased`, `StopTerminates`, `SocketServed`,
`KeepsAccepting`.

## Not modelled

CPU topology and affinity, config parsing, `MoveOnlyFunction`, the concrete filters and
the Boost wrappers (beyond what their callers rely on) have no protocol state of their
own. llhttp is external. Pipelining, peers that never answer, the values of a report and
the sockets that `stop()` leaves queued are listed as hazards without a property.

## Plan

Done: the request path of one shard, from downstream read to pool, with its parts; the
raw relay; DNS behind the pool; the threads of the runtime with their metrics; two
abstract specifications, the pool's implemented by both kinds of session.

Next, in this order:

1. Parser adapters with two messages in one read: pipelined requests, a 1xx followed by
   its answer; composition with `HttpSession`.
