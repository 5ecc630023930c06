--------------------------- MODULE UpstreamManager ---------------------------
(***************************************************************************)
(* UpstreamManager (src/upstream): round-robin choice of an endpoint and a *)
(* LIFO pool of idle connections per endpoint, one manager per shard.  Its *)
(* state is touched by the shard's loop thread only, so each call is       *)
(* atomic; the calls are the operators below, and HttpSession composes     *)
(* them into its handlers.                                                 *)
(*                                                                         *)
(* A connection is an element of Conns and is reused for another one after *)
(* it has been closed.  socks holds what the gateway's side and the        *)
(* server's side of each know.                                             *)
(***************************************************************************)
EXTENDS Naturals, Sequences, FiniteSets

CONSTANTS
  NumEndpoints,  \* config.upstreams.size()
  MaxIdle,       \* config.connection_pool_max_idle_per_endpoint
  Conns,         \* connections that can be open at the same time
  NoConn         \* the null unique_ptr

ASSUME UpstreamAssumption ==
  /\ NumEndpoints \in Nat \ {0}
  /\ MaxIdle \in Nat
  /\ NoConn \notin Conns

Endpoints == 0..(NumEndpoints - 1)

VARIABLES
  next_endpoint,  \* next_endpoint_
  idle_pools,     \* idle_pools_: one stack per endpoint
  socks           \* per connection: see NewSocket

upstream_vars == <<next_endpoint, idle_pools, socks>>

\* A socket that does not exist (never created, or closed and destroyed).
NoSocket == [open |-> FALSE, ep |-> 0, alive |-> FALSE, rx |-> 0, due |-> <<>>]

\* A socket connected to endpoint e.  alive: the server has not closed its end;
\* rx: units of the request it is receiving; due: the requests it has received
\* completely and not yet answered completely, in order.
NewSocket(e) == [open |-> TRUE, ep |-> e, alive |-> TRUE, rx |-> 0, due |-> <<>>]

InitUpstream ==
  /\ next_endpoint = 0
  /\ idle_pools = [e \in Endpoints |-> <<>>]
  /\ socks = [c \in Conns |-> NoSocket]

\* select_endpoint() returns next_endpoint and moves on to the one after it.
AfterSelect == (next_endpoint + 1) % NumEndpoints

\* acquire_connection(): an idle connection of the endpoint, the last one put
\* back, is handed over synchronously, unchecked; otherwise connect_fresh().
PoolHit(e) == idle_pools[e] # <<>>
PooledConn(e) == idle_pools[e][Len(idle_pools[e])]

MutantAfterPop(e) == idle_pools

AfterPop(e) ==
  [idle_pools EXCEPT ![e] = SubSeq(@, 1, Len(@) - 1)]

\* connect_fresh() makes a new socket, whose deadline is RaceWithTimeout's
\* subject; the caller sees it only once it is connected.  Which name a new
\* connection gets does not matter.
Unused == {c \in Conns : ~socks[c].open}
FreshConn == CHOOSE c \in Unused : TRUE

\* release_connection(): the socket is pooled, or closed when the pool is full.
PoolFull(e) == Len(idle_pools[e]) >= MaxIdle

MutantAfterRelease(e, c) ==
  IF PoolFull(e) THEN idle_pools ELSE [idle_pools EXCEPT ![next_endpoint] = Append(@, c)]

AfterRelease(e, c) ==
  IF PoolFull(e) THEN idle_pools ELSE [idle_pools EXCEPT ![e] = Append(@, c)]

\* Closing or destroying a socket, the null one included.
Dropped(sk, c) == [d \in Conns |-> IF d = c THEN NoSocket ELSE sk[d]]

\* The server closes its end: a restart, an idle timeout, a crash.  The gateway
\* hears of it only when it uses the connection.
PeerCloses(c) ==
  /\ socks[c].open /\ socks[c].alive
  /\ socks' = [socks EXCEPT ![c].alive = FALSE]
  /\ UNCHANGED <<next_endpoint, idle_pools>>
=============================================================================
