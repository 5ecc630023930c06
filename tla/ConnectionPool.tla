--------------------------- MODULE ConnectionPool ---------------------------
(***************************************************************************)
(* What a shard's upstream connections promise, whatever the sessions do   *)
(* with them: unique ownership.  UpstreamManager hands a connection over   *)
(* as a unique_ptr and takes it back as one; a session holds at most one,  *)
(* and assigning another destroys the one it held.  HttpSession implements *)
(* this specification (HttpSession!ImplementsPool).                        *)
(***************************************************************************)
EXTENDS Integers, Sequences

CONSTANTS
  Users,         \* the sessions
  NumEndpoints,  \* config.upstreams.size()
  MaxIdle,       \* config.connection_pool_max_idle_per_endpoint
  Conns,         \* connections that can be open at the same time
  NoConn         \* the null unique_ptr

ASSUME PoolAssumption ==
  /\ NumEndpoints \in Nat \ {0}
  /\ MaxIdle \in Nat
  /\ NoConn \notin Conns

Endpoints == 0..(NumEndpoints - 1)

VARIABLES
  hold,    \* upstream_ of each user
  pools,   \* idle_pools_
  peer     \* the endpoint a connection is open to, or Closed

vars == <<hold, pools, peer>>

Closed == -1

Init ==
  /\ hold = [u \in Users |-> NoConn]
  /\ pools = [e \in Endpoints |-> <<>>]
  /\ peer = [c \in Conns |-> Closed]

\* The connection c, if it is one, is closed.
Shut(c) == [d \in Conns |-> IF d = c THEN Closed ELSE peer[d]]

\* connect_fresh() hands over a new connection to some endpoint.
Connect(u) ==
  \E c \in Conns, e \in Endpoints :
    /\ peer[c] = Closed
    /\ hold' = [hold EXCEPT ![u] = c]
    /\ peer' = [Shut(hold[u]) EXCEPT ![c] = e]
    /\ UNCHANGED pools

MutantTaken(e) == pools

\* idle_pools_[e] after pop_back().
Taken(e) == [pools EXCEPT ![e] = SubSeq(@, 1, Len(@) - 1)]

\* acquire_connection() hands over the connection pooled last.
Reuse(u) ==
  \E e \in Endpoints :
    /\ pools[e] # <<>>
    /\ hold' = [hold EXCEPT ![u] = pools[e][Len(pools[e])]]
    /\ peer' = Shut(hold[u])
    /\ pools' = Taken(e)

\* release_connection() to a pool that is not full.
Release(u) ==
  /\ hold[u] # NoConn
  /\ \E e \in Endpoints :
       /\ e = peer[hold[u]]
       /\ Len(pools[e]) < MaxIdle
       /\ pools' = [pools EXCEPT ![e] = Append(@, hold[u])]
  /\ hold' = [hold EXCEPT ![u] = NoConn]
  /\ UNCHANGED peer

\* The connection is closed: by release_connection() to a full pool, by close(),
\* or before a retry.
Discard(u) ==
  /\ hold[u] # NoConn
  /\ hold' = [hold EXCEPT ![u] = NoConn]
  /\ peer' = Shut(hold[u])
  /\ UNCHANGED pools

Step(u) == Connect(u) \/ Reuse(u) \/ Release(u) \/ Discard(u)

Next == \E u \in Users : Step(u)

Spec == Init /\ [][Next]_vars
-----------------------------------------------------------------------------
\* Types of the three variables.
TypeOK ==
  /\ hold \in [Users -> Conns \cup {NoConn}]
  /\ pools \in [Endpoints -> Seq(Conns)]
  /\ peer \in [Conns -> Endpoints \cup {Closed}]

\* What a user holds is open, and no other user holds it.
HeldOnce ==
  \A u \in Users :
    hold[u] # NoConn =>
      /\ peer[hold[u]] # Closed
      /\ \A v \in Users : hold[v] = hold[u] => v = u

\* A pool keeps to its limit and has open connections to its own endpoint, each
\* in one slot, and no user holds any of them.
PooledOnce ==
  \A e \in Endpoints :
    /\ Len(pools[e]) <= MaxIdle
    /\ \A i \in 1..Len(pools[e]) :
         /\ peer[pools[e][i]] = e
         /\ \A u \in Users : hold[u] # pools[e][i]
         /\ \A j \in 1..Len(pools[e]) : pools[e][j] = pools[e][i] => j = i

\* No open connection is lost.
NoneLeaked ==
  \A c \in Conns :
    peer[c] # Closed =>
      \/ \E u \in Users : hold[u] = c
      \/ \E i \in 1..Len(pools[peer[c]]) : pools[peer[c]][i] = c

\* Every open connection has exactly one owner, a session's upstream_ or one slot
\* of one pool, and what is owned is open: no socket is used by two sessions, sits
\* in a pool while a session uses it, is pooled twice or under the wrong endpoint,
\* or is leaked.
SingleOwner == HeldOnce /\ PooledOnce /\ NoneLeaked
=============================================================================
