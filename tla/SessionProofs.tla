---------------------------- MODULE SessionProofs ----------------------------
(***************************************************************************)
(* The raw TCP relay, for any sessions, connections, endpoints and pool    *)
(* limit: its counters, its one reader per socket, and the connection pool *)
(* it implements.                                                          *)
(*                                                                         *)
(* The inductive invariant is RelayInv.  Settled is what it adds: only a   *)
(* relaying session reads its upstream socket, and that socket is the one  *)
(* it owns.  It is the cancel() in close() that keeps it true.             *)
(***************************************************************************)
EXTENDS Session, FiniteSetTheorems, SequenceTheorems, TLAPS

SessionStates == [phase : {"new", "connecting", "relaying", "closed"}, ep : Endpoints,
                  up : Conns \cup {NoConn}, sock : Conns \cup {NoConn}, healthy : BOOLEAN,
                  op : [Directions -> Waiting \cup Queued \cup {"none"}]]
Sockets == {NoSocket} \cup {NewSocket(e) : e \in Endpoints}

\* What the pool's specification sees of sessions and sockets.
Held(x) == IF x.phase = "closed" THEN NoConn ELSE x.up
Peer(k) == IF k.open THEN k.ep ELSE -1
Holds == [t \in Sessions |-> Held(sess[t])]
Peers == [c \in Conns |-> Peer(socks[c])]

\* Of UpstreamResolverProofs only what is shown of the pool is used: what stands for
\* the resolver's own state does not matter.
P == INSTANCE UpstreamResolverProofs WITH
  Users <- Sessions, hold <- Holds, pools <- idle_pools, peer <- Peers,
  NumAddresses <- 0, dns <- 0, resolved <- 0, refresh_timer <- 0, dialling <- 0, addr <- 0

Settled(s) ==
  /\ sess[s].phase \in {"new", "connecting"} =>
       sess[s].up = NoConn /\ \A d \in Directions : sess[s].op[d] = "none"
  /\ sess[s].phase = "relaying" =>
       sess[s].up \in Conns /\ sess[s].up = sess[s].sock /\ Peers[sess[s].up] = sess[s].ep
  /\ sess[s].op["u2d"] = "read" => sess[s].phase = "relaying"

\* Failed connects are among the closed sessions.
ErrorsClosed == metrics.connect_errors <= metrics.closed

OwnInv == TypeOK /\ P!SingleOwner /\ \A s \in Sessions : Settled(s)
RelayInv == OwnInv /\ ClosedOnce /\ ErrorsClosed

\* What a step of session s does to the others: nothing, but for operations that its
\* close() cancels.
Kept(s) ==
  \A t \in Sessions \ {s} :
    /\ sess'[t].phase = sess[t].phase /\ sess'[t].ep = sess[t].ep
    /\ sess'[t].up = sess[t].up /\ sess'[t].sock = sess[t].sock
    /\ \A d \in Directions : sess[t].op[d] = "none" => sess'[t].op[d] = "none"
    /\ sess'[t].op["u2d"] = "read" => sess[t].op["u2d"] = "read"

\* What is shown of a step of session s, counters aside.
Good(s) ==
  /\ next_endpoint' \in Endpoints /\ idle_pools' \in [Endpoints -> Seq(Conns)]
  /\ socks' \in [Conns -> Sockets] /\ sess' \in [Sessions -> SessionStates]
  /\ crashed' \in BOOLEAN
  /\ P!Step(s) \/ UNCHANGED P!vars
  /\ Settled(s)' /\ Kept(s)
-----------------------------------------------------------------------------
(***************************************************************************)
(* Types                                                                   *)
(***************************************************************************)
LEMMA SocketTypes ==
  /\ NoSocket \in Sockets /\ Peer(NoSocket) = -1
  /\ \A e \in Endpoints : NewSocket(e) \in Sockets /\ Peer(NewSocket(e)) = e
  /\ \A k \in Sockets : Peer(k) \in Endpoints \cup {-1}
  /\ \A k \in Sockets : ~k.open => Peer(k) = -1
<1>1. NoSocket \in Sockets /\ Peer(NoSocket) = -1
  BY DEF Sockets, NoSocket, Peer
<1>2. \A e \in Endpoints : NewSocket(e) \in Sockets
  BY DEF Sockets
<1>3. \A e \in Endpoints : Peer(NewSocket(e)) = e
  BY DEF NewSocket, Peer
<1>4. \A k \in Sockets : Peer(k) \in Endpoints \cup {-1}
  BY <1>1, <1>3 DEF Sockets
<1>5. \A k \in Sockets : ~k.open => Peer(k) = -1
  BY DEF Peer
<1> QED
  BY <1>1, <1>2, <1>3, <1>4, <1>5

\* The two directions of the relay.
LEMMA DirectionTypes == "u2d" \in Directions /\ "d2u" \in Directions
BY DEF Directions

\* The types of the relay give those of the connection pool.
LEMMA PoolTypes ==
  ASSUME TypeOK
  PROVE  /\ P!TypeOK /\ sess \in [Sessions -> SessionStates] /\ socks \in [Conns -> Sockets]
         /\ idle_pools \in [Endpoints -> Seq(Conns)] /\ next_endpoint \in Endpoints
<1>1. sess \in [Sessions -> SessionStates] /\ socks \in [Conns -> Sockets]
      /\ idle_pools \in [Endpoints -> Seq(Conns)] /\ next_endpoint \in Endpoints
  BY DEF TypeOK, SessionStates, Sockets
<1>2. \A t \in Sessions : sess[t].up \in Conns \cup {NoConn}
  BY <1>1 DEF SessionStates
<1>3. Holds \in [Sessions -> Conns \cup {NoConn}]
  BY <1>2 DEF Holds, Held
<1>4. Peers \in [Conns -> Endpoints \cup {-1}]
  BY <1>1, SocketTypes DEF Peers
<1> QED
  BY <1>1, <1>3, <1>4 DEF P!TypeOK, P!Endpoints, Endpoints, P!Closed

\* cancel() on a socket: no session is left reading it, and nothing else changes but
\* operations that fail.
LEMMA CancelledType ==
  ASSUME NEW W \in [Sessions -> SessionStates], NEW c, NEW t \in Sessions
  PROVE  /\ Cancelled(W, c)[t] \in SessionStates
         /\ Cancelled(W, c)[t].phase = W[t].phase /\ Cancelled(W, c)[t].ep = W[t].ep
         /\ Cancelled(W, c)[t].up = W[t].up /\ Cancelled(W, c)[t].sock = W[t].sock
         /\ \A d \in Directions : W[t].op[d] = "none" => Cancelled(W, c)[t].op[d] = "none"
         /\ Cancelled(W, c)[t].op["u2d"] = "read" => W[t].op["u2d"] = "read" /\ W[t].sock # c
<1> DEFINE x == W[t]
           q == [d \in Directions |->
                  IF x.sock = c /\ x.op[d] \in Waiting /\ OnUpstream(d, x.op[d])
                  THEN Failed(x.op[d]) ELSE x.op[d]]
<1>1. x \in SessionStates
  OBVIOUS
<1>2. Cancelled(W, c)[t] = [x EXCEPT !.op = q]
  BY DEF Cancelled
<1>3. x.op \in [Directions -> Waiting \cup Queued \cup {"none"}]
  BY <1>1 DEF SessionStates
<1>4. q \in [Directions -> Waiting \cup Queued \cup {"none"}]
  <2>1. \A op : Failed(op) \in Waiting \cup Queued \cup {"none"}
    BY DEF Failed, Queued
  <2> QED
    BY <1>3, <2>1
<1>5. \A d \in Directions : x.op[d] = "none" => q[d] = "none"
  BY DEF Waiting
<1>6. q["u2d"] = "read" => x.op["u2d"] = "read" /\ x.sock # c
  BY DirectionTypes DEF Waiting, OnUpstream, Failed
<1> HIDE DEF q, x
<1>7. [x EXCEPT !.op = q] \in SessionStates /\ [x EXCEPT !.op = q].op = q
      /\ [x EXCEPT !.op = q].phase = x.phase /\ [x EXCEPT !.op = q].ep = x.ep
      /\ [x EXCEPT !.op = q].up = x.up /\ [x EXCEPT !.op = q].sock = x.sock
  BY <1>1, <1>4 DEF SessionStates
<1> QED
  BY <1>2, <1>5, <1>6, <1>7 DEF x

\* The same for the session's own downstream socket.
LEMMA DownstreamType ==
  ASSUME NEW x \in SessionStates
  PROVE  /\ DownstreamClosed(x) \in SessionStates
         /\ DownstreamClosed(x).phase = x.phase /\ DownstreamClosed(x).ep = x.ep
         /\ DownstreamClosed(x).up = x.up /\ DownstreamClosed(x).sock = x.sock
<1> DEFINE q == [d \in Directions |->
                  IF x.op[d] \in Waiting /\ ~OnUpstream(d, x.op[d])
                  THEN Failed(x.op[d]) ELSE x.op[d]]
<1>1. DownstreamClosed(x) = [x EXCEPT !.op = q]
  BY DEF DownstreamClosed
<1>2. x.op \in [Directions -> Waiting \cup Queued \cup {"none"}]
  BY DEF SessionStates
<1>3. q \in [Directions -> Waiting \cup Queued \cup {"none"}]
  <2>1. \A op : Failed(op) \in Waiting \cup Queued \cup {"none"}
    BY DEF Failed, Queued
  <2> QED
    BY <1>2, <2>1
<1> HIDE DEF q
<1> QED
  BY <1>1, <1>3 DEF SessionStates

\* An operation of one direction of one session, and nothing else, changes.
LEMMA SetsType ==
  ASSUME TypeOK, NEW s \in Sessions, NEW d \in Directions,
         NEW op \in Waiting \cup Queued \cup {"none"}
  PROVE  /\ Sets(s, d, op) \in [Sessions -> SessionStates]
         /\ \A t \in Sessions \ {s} : Sets(s, d, op)[t] = sess[t]
         /\ Sets(s, d, op)[s].phase = sess[s].phase /\ Sets(s, d, op)[s].ep = sess[s].ep
         /\ Sets(s, d, op)[s].up = sess[s].up /\ Sets(s, d, op)[s].sock = sess[s].sock
         /\ Sets(s, d, op)[s].healthy = sess[s].healthy
         /\ Sets(s, d, op)[s].op[d] = op
         /\ \A b \in Directions : b # d => Sets(s, d, op)[s].op[b] = sess[s].op[b]
<1>1. sess \in [Sessions -> SessionStates] /\ sess[s] \in SessionStates
  BY PoolTypes
<1>2. sess[s].op \in [Directions -> Waiting \cup Queued \cup {"none"}]
  BY <1>1 DEF SessionStates
<1>3. [sess[s].op EXCEPT ![d] = op] \in [Directions -> Waiting \cup Queued \cup {"none"}]
  BY <1>2
<1>4. \A q \in [Directions -> Waiting \cup Queued \cup {"none"}] :
        /\ [sess[s] EXCEPT !.op = q] \in SessionStates
        /\ [sess[s] EXCEPT !.op = q].phase = sess[s].phase
        /\ [sess[s] EXCEPT !.op = q].ep = sess[s].ep
        /\ [sess[s] EXCEPT !.op = q].up = sess[s].up
        /\ [sess[s] EXCEPT !.op = q].sock = sess[s].sock
        /\ [sess[s] EXCEPT !.op = q].healthy = sess[s].healthy
        /\ [sess[s] EXCEPT !.op = q].op = q
  BY <1>1 DEF SessionStates
<1>5. Sets(s, d, op) = [sess EXCEPT ![s] = [sess[s] EXCEPT !.op = [sess[s].op EXCEPT ![d] = op]]]
  BY <1>1, <1>2 DEF Sets, SessionStates
<1>6. Sets(s, d, op)[s] = [sess[s] EXCEPT !.op = [sess[s].op EXCEPT ![d] = op]]
  BY <1>1, <1>5
<1>7. \A t \in Sessions \ {s} : Sets(s, d, op)[t] = sess[t]
  BY <1>1, <1>5
<1>8. Sets(s, d, op) \in [Sessions -> SessionStates]
  BY <1>1, <1>3, <1>4, <1>5
<1> QED
  BY <1>2, <1>3, <1>4, <1>6, <1>7, <1>8
-----------------------------------------------------------------------------
(***************************************************************************)
(* Steps of the connection pool                                            *)
(***************************************************************************)

\* What the sessions hold after a step of s.
LEMMA HoldsMove ==
  ASSUME NEW s \in Sessions, Kept(s)
  PROVE  Holds' = [Holds EXCEPT ![s] = Held(sess'[s])]
<1>1. \A t \in Sessions : Holds'[t] = IF t = s THEN Held(sess'[s]) ELSE Holds[t]
  BY DEF Kept, Holds, Held
<1>2. Holds' = [t \in Sessions |-> Holds'[t]] /\ Holds = [t \in Sessions |-> Holds[t]]
  BY DEF Holds
<1> QED
  BY <1>1, <1>2

\* A step that leaves every connection with its owner.
LEMMA Stutters ==
  ASSUME NEW s \in Sessions, Kept(s), Held(sess'[s]) = Held(sess[s]),
         UNCHANGED <<idle_pools, socks>>
  PROVE  UNCHANGED P!vars
<1>1. Holds' = [Holds EXCEPT ![s] = Holds[s]]
  BY HoldsMove DEF Holds
<1>2. Holds' = Holds
  BY <1>1 DEF Holds
<1>3. Peers' = Peers
  BY DEF Peers
<1> QED
  BY <1>2, <1>3 DEF P!vars

\* The pool hands its last connection over to a session that has none.
LEMMA Reuses ==
  ASSUME NEW s \in Sessions, Kept(s), NEW e \in Endpoints, idle_pools[e] # <<>>,
         Held(sess[s]) = NoConn, Held(sess'[s]) = PooledConn(e),
         idle_pools' = AfterPop(e), socks' = socks
  PROVE  P!Step(s)
<1>1. Holds' = [Holds EXCEPT ![s] = idle_pools[e][Len(idle_pools[e])]] /\ Holds[s] = NoConn
  BY HoldsMove DEF Holds, PooledConn
<1>2. Peers' = [d \in Conns |-> IF d = Holds[s] THEN -1 ELSE Peers[d]]
  BY <1>1, UpstreamAssumption DEF Peers
<1>3. P!Reuse(s)
  BY <1>1, <1>2 DEF P!Reuse, P!Shut, P!Closed, P!Taken, AfterPop, P!Endpoints, Endpoints
<1> QED
  BY <1>3 DEF P!Step

\* A new connection goes to a session that has none.
LEMMA Connects ==
  ASSUME NEW s \in Sessions, Kept(s), NEW c \in Conns, NEW e \in Endpoints, Peers[c] = -1,
         Held(sess[s]) = NoConn, Held(sess'[s]) = c, socks \in [Conns -> Sockets],
         idle_pools' = idle_pools, socks' = [socks EXCEPT ![c] = NewSocket(e)]
  PROVE  P!Step(s)
<1> DEFINE Open == [d \in Conns |-> IF d = Holds[s] THEN -1 ELSE Peers[d]]
<1>1. Holds' = [Holds EXCEPT ![s] = c] /\ Holds[s] = NoConn
  BY HoldsMove DEF Holds
<1>2. \A d \in Conns : Peers'[d] = IF d = c THEN e ELSE Peers[d]
  BY SocketTypes DEF Peers
<1>3. Peers' = [d \in Conns |-> Peers'[d]] /\ Peers = [d \in Conns |-> Peers[d]]
  BY DEF Peers
<1>4. Peers' = [Open EXCEPT ![c] = e]
  BY <1>1, <1>2, <1>3, UpstreamAssumption
<1>5. P!Connect(s)
  BY <1>1, <1>4 DEF P!Connect, P!Shut, P!Closed, P!Endpoints, Endpoints
<1> QED
  BY <1>5 DEF P!Step

\* A session gives up its connection, which is closed.
LEMMA Discards ==
  ASSUME NEW s \in Sessions, Kept(s), NEW c \in Conns, Held(sess[s]) = c,
         Held(sess'[s]) = NoConn, idle_pools' = idle_pools, socks' = Dropped(socks, c)
  PROVE  P!Step(s)
<1>1. Holds' = [Holds EXCEPT ![s] = NoConn] /\ Holds[s] = c /\ c # NoConn
  BY HoldsMove, UpstreamAssumption DEF Holds
<1>2. Peers' = [d \in Conns |-> IF d = Holds[s] THEN -1 ELSE Peers[d]]
  BY <1>1, SocketTypes DEF Peers, Dropped
<1>3. P!Discard(s)
  BY <1>1, <1>2 DEF P!Discard, P!Shut, P!Closed
<1> QED
  BY <1>3 DEF P!Step

\* A session gives its connection back to a pool that has room.
LEMMA Releases ==
  ASSUME NEW s \in Sessions, Kept(s), NEW c \in Conns, NEW e \in Endpoints,
         Held(sess[s]) = c, Held(sess'[s]) = NoConn, Peers[c] = e, Len(idle_pools[e]) \in Nat,
         ~PoolFull(e), idle_pools' = AfterRelease(e, c), socks' = socks
  PROVE  P!Step(s)
<1>1. Holds' = [Holds EXCEPT ![s] = NoConn] /\ Holds[s] = c /\ c # NoConn
  BY HoldsMove, UpstreamAssumption DEF Holds
<1>2. Peers' = Peers
  BY DEF Peers
<1>3. idle_pools' = [idle_pools EXCEPT ![e] = Append(@, c)] /\ Len(idle_pools[e]) < MaxIdle
  BY UpstreamAssumption DEF AfterRelease, PoolFull
<1>4. P!Release(s)
  BY <1>1, <1>2, <1>3 DEF P!Release, P!Endpoints, Endpoints
<1> QED
  BY <1>4 DEF P!Step
-----------------------------------------------------------------------------
(***************************************************************************)
(* The actions                                                             *)
(***************************************************************************)

\* What the invariant says.
LEMMA InvTypes ==
  ASSUME OwnInv
  PROVE  /\ TypeOK /\ P!TypeOK /\ P!SingleOwner
         /\ sess \in [Sessions -> SessionStates] /\ socks \in [Conns -> Sockets]
         /\ idle_pools \in [Endpoints -> Seq(Conns)] /\ next_endpoint \in Endpoints
         /\ crashed \in BOOLEAN
         /\ \A s \in Sessions : Settled(s) /\ sess[s] \in SessionStates
                                 /\ sess[s].ep \in Endpoints
<1>1. TypeOK /\ P!SingleOwner /\ \A s \in Sessions : Settled(s)
  BY DEF OwnInv
<1>2. crashed \in BOOLEAN
  BY <1>1 DEF TypeOK
<1>3. sess \in [Sessions -> SessionStates]
  BY <1>1, PoolTypes
<1>4. \A s \in Sessions : sess[s] \in SessionStates /\ sess[s].ep \in Endpoints
  BY <1>3 DEF SessionStates
<1> QED
  BY <1>1, <1>2, <1>4, PoolTypes

\* An operation completes or goes on, or the handler runs into what close() left.
LEMMA OperationStep ==
  ASSUME OwnInv, NEW s \in Sessions, NEW d \in Directions,
         Completes(s, d) \/ Relays(s, d) \/ Continues(s, d)
  PROVE  Good(s) /\ UNCHANGED metrics /\ sess'[s].phase = sess[s].phase
<1>0. /\ TypeOK /\ sess \in [Sessions -> SessionStates] /\ socks \in [Conns -> Sockets]
      /\ idle_pools \in [Endpoints -> Seq(Conns)] /\ next_endpoint \in Endpoints
      /\ Settled(s) /\ crashed \in BOOLEAN
  BY InvTypes
<1>1. CASE Crashes
  <2>1. UNCHANGED <<next_endpoint, idle_pools, socks, sess, metrics>> /\ crashed' = TRUE
    BY <1>1 DEF Crashes, upstream_vars
  <2>2. Kept(s)
    BY <2>1 DEF Kept
  <2>3. UNCHANGED P!vars
    BY <2>1, <2>2, Stutters
  <2>4. Settled(s)'
    BY <1>0, <2>1 DEF Settled, Peers
  <2> QED
    BY <1>0, <2>1, <2>2, <2>3, <2>4 DEF Good
<1>2. CASE ~Crashes
  <2>1. PICK op \in Waiting \cup Queued :
          /\ sess' = Sets(s, d, op) /\ UNCHANGED <<upstream_vars, metrics, crashed>>
          /\ op = "read" => ~Closing(sess[s])
          /\ sess[s].op[d] # "none"
    <3>1. CASE Completes(s, d)
      BY <3>1 DEF Completes, Failed, Waiting, Queued
    <3>2. CASE Relays(s, d)
      BY <1>2, <3>2 DEF Relays, Waiting, Queued
    <3>3. CASE Continues(s, d)
      BY <1>2, <3>3 DEF Continues, Waiting, Queued
    <3> QED
      BY <3>1, <3>2, <3>3
  <2>2. op # "none" /\ op \in Waiting \cup Queued \cup {"none"}
    BY DEF Waiting, Queued
  <2>3. /\ sess' \in [Sessions -> SessionStates]
        /\ \A t \in Sessions \ {s} : sess'[t] = sess[t]
        /\ sess'[s].phase = sess[s].phase /\ sess'[s].ep = sess[s].ep
        /\ sess'[s].up = sess[s].up /\ sess'[s].sock = sess[s].sock
        /\ sess'[s].op[d] = op
        /\ \A b \in Directions : b # d => sess'[s].op[b] = sess[s].op[b]
    BY <1>0, <2>1, <2>2, SetsType
  <2>4. UNCHANGED <<next_endpoint, idle_pools, socks, metrics, crashed>>
    BY <2>1 DEF upstream_vars
  <2>5. Kept(s)
    BY <2>3 DEF Kept
  <2>6. UNCHANGED P!vars
    BY <2>3, <2>4, <2>5, Stutters DEF Held
  <2>7. sess[s].phase \in {"relaying", "closed"}
    <3>1. sess[s].phase \in {"new", "connecting", "relaying", "closed"}
      BY <1>0 DEF SessionStates
    <3> QED
      BY <1>0, <2>1, <3>1 DEF Settled
  <2>8. Settled(s)'
    <3>1. Peers' = Peers
      BY <2>4 DEF Peers
    <3>2. sess'[s].op["u2d"] = "read" => sess'[s].phase = "relaying"
      BY <1>0, <2>1, <2>3, <2>7, DirectionTypes DEF Settled, Closing
    <3> QED
      BY <1>0, <2>3, <2>7, <3>1, <3>2 DEF Settled
  <2> QED
    BY <1>0, <2>3, <2>4, <2>5, <2>6, <2>8 DEF Good
<1> QED
  BY <1>1, <1>2

\* start(), with and without an idle connection.
LEMMA StartStep ==
  ASSUME OwnInv, NEW s \in Sessions, start(s)
  PROVE  Good(s) /\ sess[s].phase = "new" /\ sess'[s].phase \in {"connecting", "relaying"}
<1> DEFINE e == next_endpoint
           x == [sess[s] EXCEPT !.ep = e]
<1>0. /\ TypeOK /\ sess \in [Sessions -> SessionStates] /\ socks \in [Conns -> Sockets]
      /\ idle_pools \in [Endpoints -> Seq(Conns)] /\ e \in Endpoints
      /\ sess[s] \in SessionStates /\ Settled(s) /\ crashed \in BOOLEAN /\ P!SingleOwner
  BY InvTypes
<1>1. /\ sess[s].phase = "new" /\ next_endpoint' = AfterSelect /\ UNCHANGED <<socks, crashed>>
      /\ IF PoolHit(e)
         THEN sess' = [sess EXCEPT ![s] = Relaying(x, PooledConn(e))] /\ idle_pools' = AfterPop(e)
         ELSE sess' = [sess EXCEPT ![s] = [x EXCEPT !.phase = "connecting"]] /\ UNCHANGED idle_pools
  BY DEF start
<1>2. sess[s].up = NoConn /\ (\A d \in Directions : sess[s].op[d] = "none") /\ Held(sess[s]) = NoConn
  BY <1>0, <1>1 DEF Settled, Held
<1>3. AfterSelect \in Endpoints
  BY <1>0, UpstreamAssumption DEF AfterSelect, Endpoints
<1>4. x \in SessionStates /\ x.phase = "new" /\ x.ep = e /\ x.up = NoConn /\ x.op = sess[s].op
  BY <1>0, <1>1, <1>2 DEF SessionStates
<1> HIDE DEF x, e
<1>5. Peers' = Peers
  BY <1>1 DEF Peers
<1>6. CASE PoolHit(e)
  <2> DEFINE c == PooledConn(e)
  <2>1. idle_pools[e] \in Seq(Conns) /\ idle_pools[e] # <<>>
    BY <1>0, <1>6 DEF PoolHit
  <2>2. /\ Len(idle_pools[e]) \in 1..Len(idle_pools[e]) /\ c \in Conns
        /\ SubSeq(idle_pools[e], 1, Len(idle_pools[e]) - 1) \in Seq(Conns)
    BY <2>1 DEF PooledConn
  <2>3. Peers[c] = e
    BY <1>0, <2>2 DEF P!SingleOwner, P!PooledOnce, P!Endpoints, Endpoints, PooledConn
  <2>4. AfterPop(e) \in [Endpoints -> Seq(Conns)]
    BY <1>0, <2>2 DEF AfterPop
  <2>5. sess' = [sess EXCEPT ![s] = Relaying(x, c)] /\ idle_pools' = AfterPop(e)
    BY <1>1, <1>6 DEF x, e
  <2> HIDE DEF c
  <2>6. /\ Relaying(x, c) \in SessionStates /\ Relaying(x, c).phase = "relaying"
        /\ Relaying(x, c).up = c /\ Relaying(x, c).sock = c /\ Relaying(x, c).ep = e
    BY <1>4, <2>2 DEF Relaying, SessionStates, Waiting
  <2>7. /\ sess' \in [Sessions -> SessionStates] /\ sess'[s] = Relaying(x, c)
        /\ \A t \in Sessions \ {s} : sess'[t] = sess[t]
    BY <1>0, <2>5, <2>6
  <2>8. Kept(s)
    BY <2>7 DEF Kept
  <2>9. Held(sess'[s]) = c
    BY <2>6, <2>7 DEF Held
  <2>10. P!Step(s)
    BY <1>0, <1>1, <1>2, <2>1, <2>5, <2>8, <2>9, Reuses DEF c
  <2>11. Settled(s)'
    BY <1>5, <2>2, <2>3, <2>6, <2>7 DEF Settled
  <2> QED
    BY <1>0, <1>1, <1>3, <2>4, <2>5, <2>6, <2>7, <2>8, <2>10, <2>11 DEF Good
<1>7. CASE ~PoolHit(e)
  <2> DEFINE y == [x EXCEPT !.phase = "connecting"]
  <2>1. y \in SessionStates /\ y.phase = "connecting" /\ y.up = NoConn /\ y.op = sess[s].op
    BY <1>4 DEF SessionStates
  <2>2. sess' = [sess EXCEPT ![s] = y] /\ UNCHANGED idle_pools
    BY <1>1, <1>7 DEF x, e
  <2> HIDE DEF y
  <2>3. /\ sess' \in [Sessions -> SessionStates] /\ sess'[s] = y
        /\ \A t \in Sessions \ {s} : sess'[t] = sess[t]
    BY <1>0, <2>1, <2>2
  <2>4. Kept(s)
    BY <2>3 DEF Kept
  <2>5. UNCHANGED P!vars
    BY <1>1, <1>2, <2>1, <2>2, <2>3, <2>4, Stutters DEF Held
  <2>6. Settled(s)'
    BY <1>2, <2>1, <2>3, DirectionTypes DEF Settled
  <2> QED
    BY <1>0, <1>1, <1>3, <2>1, <2>2, <2>3, <2>4, <2>5, <2>6 DEF Good
<1> QED
  BY <1>6, <1>7

\* A new connection, or none.
LEMMA ConnectStep ==
  ASSUME OwnInv, NEW s \in Sessions, ConnectSucceeds(s)
  PROVE  /\ Good(s) /\ UNCHANGED metrics
         /\ sess[s].phase = "connecting" /\ sess'[s].phase = "relaying"
<1> DEFINE c == CHOOSE c \in Nameable : TRUE
           e == sess[s].ep
<1>0. /\ TypeOK /\ sess \in [Sessions -> SessionStates] /\ socks \in [Conns -> Sockets]
      /\ idle_pools \in [Endpoints -> Seq(Conns)] /\ next_endpoint \in Endpoints
      /\ sess[s] \in SessionStates /\ e \in Endpoints /\ Settled(s) /\ crashed \in BOOLEAN
  BY InvTypes
<1>1. /\ sess[s].phase = "connecting" /\ Nameable # {}
      /\ sess' = [sess EXCEPT ![s] = Relaying(@, c)]
      /\ socks' = [socks EXCEPT ![c] = NewSocket(e)]
      /\ UNCHANGED <<next_endpoint, idle_pools, metrics, crashed>>
  BY DEF ConnectSucceeds
<1>2. c \in Conns /\ ~socks[c].open
  BY <1>1 DEF Nameable, Unused
<1> HIDE DEF c, e
<1>3. Peers[c] = -1
  BY <1>0, <1>2, SocketTypes DEF Peers
<1>4. sess[s].up = NoConn /\ Held(sess[s]) = NoConn
  BY <1>0, <1>1 DEF Settled, Held
<1>5. /\ Relaying(sess[s], c) \in SessionStates /\ Relaying(sess[s], c).phase = "relaying"
      /\ Relaying(sess[s], c).up = c /\ Relaying(sess[s], c).sock = c
      /\ Relaying(sess[s], c).ep = e
  BY <1>0, <1>2 DEF Relaying, SessionStates, Waiting, e
<1>6. /\ sess' \in [Sessions -> SessionStates] /\ sess'[s] = Relaying(sess[s], c)
      /\ \A t \in Sessions \ {s} : sess'[t] = sess[t]
  BY <1>0, <1>1, <1>5
<1>7. Kept(s)
  BY <1>6 DEF Kept
<1>8. P!Step(s)
  <2>1. Held(sess'[s]) = c
    BY <1>5, <1>6 DEF Held
  <2> QED
    BY <1>0, <1>1, <1>2, <1>3, <1>4, <1>7, <2>1, Connects
<1>9. socks' \in [Conns -> Sockets] /\ Peers'[c] = e
  BY <1>0, <1>1, <1>2, SocketTypes DEF Peers
<1>10. Settled(s)'
  BY <1>2, <1>5, <1>6, <1>9 DEF Settled
<1> QED
  BY <1>0, <1>1, <1>5, <1>6, <1>7, <1>8, <1>9, <1>10 DEF Good

\* A failed connect closes a session that has not started to relay.
LEMMA ConnectFailsStep ==
  ASSUME OwnInv, NEW s \in Sessions, ConnectFails(s)
  PROVE  Good(s) /\ sess[s].phase = "connecting" /\ sess'[s].phase = "closed"
<1>0. /\ TypeOK /\ sess \in [Sessions -> SessionStates] /\ socks \in [Conns -> Sockets]
      /\ idle_pools \in [Endpoints -> Seq(Conns)] /\ next_endpoint \in Endpoints
      /\ sess[s] \in SessionStates /\ Settled(s) /\ crashed \in BOOLEAN
  BY InvTypes
<1>1. /\ sess[s].phase = "connecting"
      /\ sess' = [sess EXCEPT ![s].healthy = FALSE, ![s].phase = "closed"]
      /\ UNCHANGED <<next_endpoint, idle_pools, socks, crashed>>
  BY DEF ConnectFails, upstream_vars
<1>2. /\ sess' \in [Sessions -> SessionStates] /\ sess'[s].phase = "closed"
      /\ sess'[s].op = sess[s].op
      /\ \A t \in Sessions \ {s} : sess'[t] = sess[t]
  BY <1>0, <1>1 DEF SessionStates
<1>3. Kept(s)
  BY <1>2 DEF Kept
<1>4. sess[s].up = NoConn /\ sess[s].op["u2d"] = "none"
  BY <1>0, <1>1, DirectionTypes DEF Settled
<1>5. UNCHANGED P!vars
  BY <1>1, <1>2, <1>3, <1>4, Stutters DEF Held
<1>6. Settled(s)'
  BY <1>2, <1>4 DEF Settled
<1> QED
  BY <1>0, <1>1, <1>2, <1>3, <1>5, <1>6 DEF Good

\* An error closes the session, once.
LEMMA FailsStep ==
  ASSUME OwnInv, NEW s \in Sessions, NEW d \in Directions, Fails(s, d)
  PROVE  /\ Good(s)
         /\ \/ UNCHANGED metrics /\ sess'[s].phase = sess[s].phase
            \/ /\ metrics' = [metrics EXCEPT !.closed = @ + 1, !.active = @ - 1]
               /\ sess[s].phase = "relaying" /\ sess'[s].phase = "closed"
<1> DEFINE ok == sess[s].healthy /\ ~OnUpstream(d, sess[s].op[d])
           ss == [Sets(s, d, "none") EXCEPT ![s].healthy = @ /\ ~OnUpstream(d, sess[s].op[d])]
<1>0. /\ TypeOK /\ sess \in [Sessions -> SessionStates] /\ socks \in [Conns -> Sockets]
      /\ idle_pools \in [Endpoints -> Seq(Conns)] /\ next_endpoint \in Endpoints
      /\ sess[s] \in SessionStates /\ Settled(s) /\ crashed \in BOOLEAN
  BY InvTypes
<1>1. /\ sess[s].op[d] \in {"read_err", "write_err"} /\ Close(ss, s)
      /\ UNCHANGED <<next_endpoint, crashed>>
  BY DEF Fails
<1>2. /\ Sets(s, d, "none") \in [Sessions -> SessionStates]
      /\ \A t \in Sessions \ {s} : Sets(s, d, "none")[t] = sess[t]
      /\ Sets(s, d, "none")[s].phase = sess[s].phase /\ Sets(s, d, "none")[s].ep = sess[s].ep
      /\ Sets(s, d, "none")[s].up = sess[s].up /\ Sets(s, d, "none")[s].sock = sess[s].sock
      /\ Sets(s, d, "none")[s].healthy = sess[s].healthy
      /\ Sets(s, d, "none")[s].op[d] = "none"
      /\ \A b \in Directions : b # d => Sets(s, d, "none")[s].op[b] = sess[s].op[b]
  BY <1>0, SetsType
<1>3. ok \in BOOLEAN
  OBVIOUS
<1>4. /\ ss \in [Sessions -> SessionStates]
      /\ \A t \in Sessions \ {s} : ss[t] = sess[t]
      /\ ss[s].phase = sess[s].phase /\ ss[s].ep = sess[s].ep
      /\ ss[s].up = sess[s].up /\ ss[s].sock = sess[s].sock
      /\ ss[s].op["u2d"] = "read" => sess[s].op["u2d"] = "read"
  <2> DEFINE S == Sets(s, d, "none")
             y == [S[s] EXCEPT !.healthy = ok]
  <2>1. S \in [Sessions -> SessionStates] /\ S[s] \in SessionStates /\ S[s].healthy = sess[s].healthy
    BY <1>2
  <2>2. ss = [S EXCEPT ![s] = y]
    BY <2>1
  <2>3. S[s].op["u2d"] = "read" => sess[s].op["u2d"] = "read"
    BY <1>2, DirectionTypes
  <2> HIDE DEF S, ok, ss
  <2>4. y \in SessionStates /\ y.phase = S[s].phase /\ y.ep = S[s].ep /\ y.up = S[s].up
        /\ y.sock = S[s].sock /\ y.op = S[s].op
    BY <1>3, <2>1 DEF SessionStates
  <2> HIDE DEF y
  <2>5. ss \in [Sessions -> SessionStates] /\ ss[s] = y /\ \A t \in Sessions \ {s} : ss[t] = S[t]
    BY <2>1, <2>2, <2>4
  <2> QED
    BY <1>2, <2>3, <2>4, <2>5 DEF S
<1> HIDE DEF ss, ok
<1>5. CASE Closing(ss[s])
  <2>1. sess' = ss /\ UNCHANGED <<idle_pools, socks, metrics>> /\ sess[s].phase = "closed"
    BY <1>1, <1>4, <1>5 DEF Close, Closing
  <2>2. Kept(s)
    BY <1>4, <2>1 DEF Kept
  <2>3. UNCHANGED P!vars
    BY <1>4, <2>1, <2>2, Stutters DEF Held
  <2>4. Settled(s)'
    BY <1>0, <1>4, <2>1 DEF Settled
  <2> QED
    BY <1>0, <1>1, <1>4, <2>1, <2>2, <2>3, <2>4 DEF Good
<1>6. CASE ~Closing(ss[s])
  <2> DEFINE x == [DownstreamClosed(ss[s]) EXCEPT !.phase = "closed"]
             pooled == x.up # NoConn /\ x.healthy
             z == IF pooled THEN [x EXCEPT !.up = NoConn] ELSE x
             W == [ss EXCEPT ![s] = z]
             c == sess[s].up
             e == sess[s].ep
  <2>1. sess[s].phase = "relaying"
    <3>1. sess[s].phase \in {"new", "connecting", "relaying", "closed"}
      BY <1>0 DEF SessionStates
    <3> QED
      BY <1>0, <1>1, <1>4, <1>6, <3>1 DEF Settled, Closing
  <2>2. c \in Conns /\ c = sess[s].sock /\ Peers[c] = e /\ e \in Endpoints /\ Held(sess[s]) = c
    BY <1>0, <2>1 DEF Settled, Held, SessionStates
  <2>3. /\ x \in SessionStates /\ x.phase = "closed" /\ x.up = c /\ x.sock = c /\ x.ep = e
    <3>1. /\ DownstreamClosed(ss[s]) \in SessionStates
          /\ DownstreamClosed(ss[s]).ep = e
          /\ DownstreamClosed(ss[s]).up = c /\ DownstreamClosed(ss[s]).sock = c
      BY <1>4, <2>2, DownstreamType
    <3> QED
      BY <3>1 DEF SessionStates
  <2>4. /\ sess' = Cancelled(W, x.up)
        /\ idle_pools' = IF pooled THEN AfterRelease(x.ep, x.up) ELSE idle_pools
        /\ socks' = IF pooled /\ ~PoolFull(x.ep) THEN socks ELSE Dropped(socks, x.up)
        /\ metrics' = [metrics EXCEPT !.closed = @ + 1, !.active = @ - 1]
    BY <1>1, <1>6 DEF Close
  <2> HIDE DEF x
  <2>5. z \in SessionStates /\ z.phase = "closed" /\ z.sock = c
    BY <2>3 DEF SessionStates
  <2> HIDE DEF z
  <2>6. W \in [Sessions -> SessionStates] /\ W[s] = z /\ \A t \in Sessions \ {s} : W[t] = sess[t]
    BY <1>4, <2>5
  <2> HIDE DEF W, c, e
  <2>7. sess' = Cancelled(W, c)
    BY <2>3, <2>4
  <2>8. /\ sess' \in [Sessions -> SessionStates]
        /\ \A t \in Sessions :
             /\ sess'[t].phase = W[t].phase /\ sess'[t].ep = W[t].ep
             /\ sess'[t].up = W[t].up /\ sess'[t].sock = W[t].sock
             /\ \A b \in Directions : W[t].op[b] = "none" => sess'[t].op[b] = "none"
             /\ sess'[t].op["u2d"] = "read" => W[t].op["u2d"] = "read" /\ W[t].sock # c
    <3>1. sess' = [t \in Sessions |-> sess'[t]]
      BY <2>7 DEF Cancelled
    <3> QED
      BY <2>6, <2>7, <3>1, CancelledType
  <2>9. Kept(s)
    BY <2>6, <2>8 DEF Kept
  <2>10. sess'[s].phase = "closed" /\ sess'[s].op["u2d"] # "read"
    BY <2>5, <2>6, <2>8
  <2>11. Settled(s)'
    BY <2>10 DEF Settled
  <2>12. Held(sess'[s]) = NoConn
    BY <2>10 DEF Held
  <2>13. Len(idle_pools[e]) \in Nat /\ idle_pools[e] \in Seq(Conns)
    BY <1>0, <2>2
  <2>14. CASE pooled /\ ~PoolFull(e)
    <3>1. idle_pools' = AfterRelease(e, c) /\ socks' = socks
      BY <2>3, <2>4, <2>14
    <3>2. P!Step(s)
      BY <2>2, <2>9, <2>12, <2>13, <2>14, <3>1, Releases
    <3>3. idle_pools' \in [Endpoints -> Seq(Conns)]
      BY <1>0, <2>2, <2>13, <2>14, <3>1 DEF AfterRelease
    <3> QED
      BY <1>0, <1>1, <2>1, <2>4, <2>8, <2>9, <2>10, <2>11, <3>1, <3>2, <3>3 DEF Good
  <2>15. CASE ~(pooled /\ ~PoolFull(e))
    <3>1. idle_pools' = idle_pools /\ socks' = Dropped(socks, c)
      BY <2>3, <2>4, <2>15 DEF AfterRelease
    <3>2. P!Step(s)
      BY <2>2, <2>9, <2>12, <3>1, Discards
    <3>3. socks' \in [Conns -> Sockets]
      BY <1>0, <3>1, SocketTypes DEF Dropped
    <3> QED
      BY <1>0, <1>1, <2>1, <2>4, <2>8, <2>9, <2>10, <2>11, <3>1, <3>2, <3>3 DEF Good
  <2> QED
    BY <2>14, <2>15
<1> QED
  BY <1>5, <1>6
-----------------------------------------------------------------------------
(***************************************************************************)
(* Counters                                                                *)
(***************************************************************************)
InPhase(X) == {t \in Sessions : sess[t].phase \in X}

\* A set of sessions can be counted.
LEMMA SessionSets ==
  ASSUME NEW T \in SUBSET Sessions
  PROVE  IsFiniteSet(T) /\ Cardinality(T) \in Counts /\ Cardinality(T) \in Nat
<1>1. IsFiniteSet(T) /\ Cardinality(T) <= Cardinality(Sessions)
  BY SessionsAssumption, FS_Subset
<1>2. Cardinality(T) \in Nat /\ Cardinality(Sessions) \in Nat
  BY <1>1, SessionsAssumption, FS_CardinalityType
<1> QED
  BY <1>1, <1>2 DEF Counts

\* When one session changes its phase, its old phase loses it and the new one gains it.
LEMMA Recount ==
  ASSUME NEW s \in Sessions, \A t \in Sessions \ {s} : sess'[t].phase = sess[t].phase, NEW X
  PROVE  Cardinality(InPhase(X)') =
           Cardinality(InPhase(X)) + (IF sess'[s].phase \in X THEN 1 ELSE 0)
                                   - (IF sess[s].phase \in X THEN 1 ELSE 0)
<1> DEFINE was == sess[s].phase \in X
           is == sess'[s].phase \in X
           T == InPhase(X)
           U == {t \in Sessions : sess'[t].phase \in X}
<1>1. U = InPhase(X)'
  BY DEF InPhase
<1>2. T \in SUBSET Sessions /\ U \in SUBSET Sessions
  BY DEF InPhase
<1>3. IsFiniteSet(T) /\ Cardinality(T) \in Int
  BY <1>2, SessionSets
<1>4. (s \in T <=> was) /\ (s \in U <=> is)
  BY DEF InPhase
<1>5. \A t \in Sessions : t # s => (t \in T <=> t \in U)
  BY DEF InPhase
<1> HIDE DEF T, U, was, is
<1>6. CASE was <=> is
  <2>1. U = T
    BY <1>2, <1>4, <1>5, <1>6
  <2> QED
    BY <1>1, <1>3, <1>6, <2>1 DEF T, was, is
<1>7. CASE is /\ ~was
  <2>1. U = T \cup {s} /\ s \notin T
    BY <1>2, <1>4, <1>5, <1>7
  <2>2. Cardinality(U) = Cardinality(T) + 1
    BY <1>3, <2>1, FS_AddElement
  <2> QED
    BY <1>1, <1>3, <1>7, <2>2 DEF T, was, is
<1>8. CASE was /\ ~is
  <2>1. U = T \ {s} /\ s \in T
    BY <1>2, <1>4, <1>5, <1>8
  <2>2. Cardinality(U) = Cardinality(T) - 1
    BY <1>3, <2>1, FS_RemoveElement
  <2> QED
    BY <1>1, <1>3, <1>8, <2>2 DEF T, was, is
<1> QED
  BY <1>6, <1>7, <1>8 DEF was, is

MetricNames == {"accepted", "active", "closed", "connect_errors"}

\* on_accept() when a session leaves "new", on_close() when it becomes "closed", and
\* on_connect_error() only together with on_close().
LEMMA Tally ==
  ASSUME RelayInv, NEW s \in Sessions, Good(s),
         \/ metrics' = metrics /\ (sess'[s].phase = sess[s].phase
                                   \/ (sess[s].phase = "connecting" /\ sess'[s].phase = "relaying"))
         \/ /\ metrics' = [metrics EXCEPT !.accepted = @ + 1, !.active = @ + 1]
            /\ sess[s].phase = "new" /\ sess'[s].phase \in {"connecting", "relaying"}
         \/ /\ \/ metrics' = [metrics EXCEPT !.closed = @ + 1, !.active = @ - 1]
               \/ metrics' = [metrics EXCEPT !.connect_errors = @ + 1, !.closed = @ + 1,
                                             !.active = @ - 1]
            /\ sess[s].phase \in {"connecting", "relaying"} /\ sess'[s].phase = "closed"
  PROVE  ClosedOnce' /\ ErrorsClosed' /\ metrics' \in [MetricNames -> Counts]
<1> DEFINE A == {"connecting", "relaying", "closed"}
           B == {"connecting", "relaying"}
           C == {"closed"}
<1>1. metrics \in [MetricNames -> Counts] /\ ClosedOnce /\ ErrorsClosed
  BY DEF RelayInv, OwnInv, TypeOK, MetricNames
<1>2. /\ metrics.accepted = Cardinality(InPhase(A)) /\ metrics.active = Cardinality(InPhase(B))
      /\ metrics.closed = Cardinality(InPhase(C))
  BY <1>1 DEF ClosedOnce, InPhase
<1>3. \A t \in Sessions \ {s} : sess'[t].phase = sess[t].phase
  BY DEF Good, Kept
<1>4. /\ Cardinality(InPhase(A)') =
           Cardinality(InPhase(A)) + (IF sess'[s].phase \in A THEN 1 ELSE 0)
                                   - (IF sess[s].phase \in A THEN 1 ELSE 0)
      /\ Cardinality(InPhase(B)') =
           Cardinality(InPhase(B)) + (IF sess'[s].phase \in B THEN 1 ELSE 0)
                                   - (IF sess[s].phase \in B THEN 1 ELSE 0)
      /\ Cardinality(InPhase(C)') =
           Cardinality(InPhase(C)) + (IF sess'[s].phase \in C THEN 1 ELSE 0)
                                   - (IF sess[s].phase \in C THEN 1 ELSE 0)
  BY <1>3, Recount
<1>5. \A X : InPhase(X)' \in SUBSET Sessions /\ InPhase(X) \in SUBSET Sessions
  BY DEF InPhase
<1>6. /\ Cardinality(InPhase(A)') \in Counts /\ Cardinality(InPhase(B)') \in Counts
      /\ Cardinality(InPhase(C)') \in Counts
      /\ Cardinality(InPhase(A)) \in Nat /\ Cardinality(InPhase(B)) \in Nat
      /\ Cardinality(InPhase(C)) \in Nat
  BY <1>5, SessionSets
<1>7. Counts \subseteq Nat /\ \A i \in Nat, j \in Counts : i <= j => i \in Counts
  <2>1. Cardinality(Sessions) \in Nat
    BY SessionsAssumption, FS_CardinalityType
  <2> QED
    BY <2>1 DEF Counts
<1>8. metrics.connect_errors \in Nat /\ metrics.connect_errors <= metrics.closed
  BY <1>1, <1>7 DEF ErrorsClosed, MetricNames
<1>9. PICK a \in 0..1, z \in 0..1, f \in 0..1 :
        /\ metrics' = [k \in MetricNames |-> metrics'[k]]
        /\ metrics'.accepted = metrics.accepted + a /\ metrics'.active = metrics.active + a - z
        /\ metrics'.closed = metrics.closed + z
        /\ metrics'.connect_errors = metrics.connect_errors + f
        /\ a = (IF sess[s].phase = "new" /\ sess'[s].phase # "new" THEN 1 ELSE 0)
        /\ z = (IF sess[s].phase \in B /\ sess'[s].phase = "closed" THEN 1 ELSE 0)
        /\ f <= z
  <2>0. /\ \A k \in MetricNames : metrics[k] \in Nat
        /\ metrics.accepted \in Nat /\ metrics.active \in Nat /\ metrics.closed \in Nat
        /\ metrics.connect_errors \in Nat
    BY <1>1, <1>7 DEF MetricNames
  <2>1. CASE /\ metrics' = metrics
             /\ \/ sess'[s].phase = sess[s].phase
                \/ sess[s].phase = "connecting" /\ sess'[s].phase = "relaying"
    <3>1. /\ metrics' = [k \in MetricNames |-> metrics'[k]]
          /\ metrics'.accepted = metrics.accepted + 0 /\ metrics'.active = metrics.active + 0 - 0
          /\ metrics'.closed = metrics.closed + 0
          /\ metrics'.connect_errors = metrics.connect_errors + 0
      BY <1>1, <2>0, <2>1 DEF MetricNames
    <3> QED
      BY <2>1, <3>1
  <2>2. CASE /\ metrics' = [metrics EXCEPT !.accepted = @ + 1, !.active = @ + 1]
             /\ sess[s].phase = "new" /\ sess'[s].phase \in {"connecting", "relaying"}
    <3>1. metrics' = [k \in MetricNames |-> metrics'[k]]
      BY <1>1, <2>2
    <3>2. metrics'.accepted = metrics.accepted + 1
      BY <1>1, <2>0, <2>2 DEF MetricNames
    <3>3. metrics'.active = metrics.active + 1 - 0
      BY <1>1, <2>0, <2>2 DEF MetricNames
    <3>4. metrics'.closed = metrics.closed + 0
      BY <1>1, <2>0, <2>2 DEF MetricNames
    <3>5. metrics'.connect_errors = metrics.connect_errors + 0
      BY <1>1, <2>0, <2>2 DEF MetricNames
    <3> QED
      BY <2>2, <3>1, <3>2, <3>3, <3>4, <3>5
  <2>3. CASE /\ metrics' = [metrics EXCEPT !.closed = @ + 1, !.active = @ - 1]
             /\ sess[s].phase \in {"connecting", "relaying"} /\ sess'[s].phase = "closed"
    <3>1. metrics' = [k \in MetricNames |-> metrics'[k]]
      BY <1>1, <2>3
    <3>2. metrics'.accepted = metrics.accepted + 0
      BY <1>1, <2>0, <2>3 DEF MetricNames
    <3>3. metrics'.active = metrics.active + 0 - 1
      BY <1>1, <2>0, <2>3 DEF MetricNames
    <3>4. metrics'.closed = metrics.closed + 1
      BY <1>1, <2>0, <2>3 DEF MetricNames
    <3>5. metrics'.connect_errors = metrics.connect_errors + 0
      BY <1>1, <2>0, <2>3 DEF MetricNames
    <3> QED
      BY <2>3, <3>1, <3>2, <3>3, <3>4, <3>5
  <2>4. CASE /\ metrics' = [metrics EXCEPT !.connect_errors = @ + 1, !.closed = @ + 1,
                                           !.active = @ - 1]
             /\ sess[s].phase \in {"connecting", "relaying"} /\ sess'[s].phase = "closed"
    <3>1. metrics' = [k \in MetricNames |-> metrics'[k]]
      BY <1>1, <2>4
    <3>2. metrics'.accepted = metrics.accepted + 0
      BY <1>1, <2>0, <2>4 DEF MetricNames
    <3>3. metrics'.active = metrics.active + 0 - 1
      BY <1>1, <2>0, <2>4 DEF MetricNames
    <3>4. metrics'.closed = metrics.closed + 1
      BY <1>1, <2>0, <2>4 DEF MetricNames
    <3>5. metrics'.connect_errors = metrics.connect_errors + 1
      BY <1>1, <2>0, <2>4 DEF MetricNames
    <3> QED
      BY <2>4, <3>1, <3>2, <3>3, <3>4, <3>5
  <2> QED
    BY <2>1, <2>2, <2>3, <2>4
<1>10. sess[s].phase \in {"new", "connecting", "relaying", "closed"}
       /\ sess'[s].phase \in {"new", "connecting", "relaying", "closed"}
  <2>1. sess[s] \in SessionStates /\ sess'[s] \in SessionStates
    BY InvTypes DEF RelayInv, Good
  <2> QED
    BY <2>1 DEF SessionStates
<1>11. /\ metrics'.accepted = Cardinality(InPhase(A)') /\ metrics'.active = Cardinality(InPhase(B)')
       /\ metrics'.closed = Cardinality(InPhase(C)')
  BY <1>2, <1>4, <1>6, <1>9, <1>10
<1>12. ClosedOnce'
  BY <1>11 DEF ClosedOnce, InPhase
<1>13. ErrorsClosed' /\ metrics'.connect_errors \in Nat
  BY <1>2, <1>6, <1>8, <1>9 DEF ErrorsClosed
<1>14. metrics'.connect_errors \in Counts
  BY <1>6, <1>7, <1>11, <1>13 DEF ErrorsClosed
<1>15. metrics' \in [MetricNames -> Counts]
  BY <1>6, <1>9, <1>11, <1>14 DEF MetricNames
<1> QED
  BY <1>12, <1>13, <1>15
-----------------------------------------------------------------------------
(***************************************************************************)
(* The theorems                                                            *)
(***************************************************************************)
LEMMA RelayInit == Init => RelayInv /\ P!Init
<1> SUFFICES ASSUME Init PROVE RelayInv /\ P!Init
  OBVIOUS
<1>0. /\ next_endpoint = 0 /\ idle_pools = [e \in Endpoints |-> <<>>]
      /\ socks = [c \in Conns |-> NoSocket] /\ sess = [s \in Sessions |-> NewSession]
      /\ metrics = [accepted |-> 0, active |-> 0, closed |-> 0, connect_errors |-> 0]
      /\ crashed = FALSE
  BY DEF Init, InitUpstream
<1>1. 0 \in Endpoints
  BY UpstreamAssumption DEF Endpoints
<1>2. /\ NewSession \in SessionStates /\ NewSession.phase = "new" /\ NewSession.up = NoConn
      /\ \A d \in Directions : NewSession.op[d] = "none"
  BY <1>1 DEF NewSession, SessionStates
<1>3. 0 \in Counts
  <2>1. Cardinality(Sessions) \in Nat
    BY SessionsAssumption, FS_CardinalityType
  <2> QED
    BY <2>1 DEF Counts
<1>4. TypeOK
  <2>1. sess \in [Sessions -> SessionStates] /\ socks \in [Conns -> Sockets]
    BY <1>0, <1>2, SocketTypes
  <2>2. idle_pools \in [Endpoints -> Seq(Conns)]
    BY <1>0
  <2>3. metrics \in [{"accepted", "active", "closed", "connect_errors"} -> Counts]
    BY <1>0, <1>3
  <2> QED
    BY <1>0, <1>1, <2>1, <2>2, <2>3 DEF TypeOK, SessionStates, Sockets
<1>5. P!Init
  <2>1. Holds = [s \in Sessions |-> NoConn] /\ Peers = [c \in Conns |-> -1]
    BY <1>0, <1>2, SocketTypes DEF Holds, Held, Peers
  <2> QED
    BY <1>0, <2>1 DEF P!Init, P!Closed, P!Endpoints, Endpoints
<1>6. P!SingleOwner
  BY <1>5, P!InitOwner, UpstreamAssumption
<1>7. \A s \in Sessions : Settled(s)
  BY <1>0, <1>2, DirectionTypes DEF Settled
<1>8. ClosedOnce /\ ErrorsClosed
  <2>1. /\ {s \in Sessions : sess[s].phase \in {"connecting", "relaying", "closed"}} = {}
        /\ {s \in Sessions : sess[s].phase \in {"connecting", "relaying"}} = {}
        /\ {s \in Sessions : sess[s].phase \in {"closed"}} = {}
    BY <1>0, <1>2
  <2>2. Cardinality({}) = 0
    BY FS_EmptySet
  <2>3. metrics.accepted = 0 /\ metrics.active = 0 /\ metrics.closed = 0 /\ metrics.connect_errors = 0
    BY <1>0
  <2>4. ErrorsClosed
    BY <2>3 DEF ErrorsClosed
  <2>5. ClosedOnce
    BY <2>1, <2>2, <2>3, Zenon DEF ClosedOnce
  <2> QED
    BY <2>4, <2>5
<1> QED
  BY <1>4, <1>5, <1>6, <1>7, <1>8 DEF RelayInv, OwnInv

\* A good step of s keeps the invariant of the other sessions, too: none of them has
\* the connection that s connects, gives back or closes.
LEMMA GoodKeeps ==
  ASSUME OwnInv, NEW s \in Sessions, Good(s), metrics' \in [MetricNames -> Counts]
  PROVE  OwnInv' /\ [P!Next]_(P!vars)
<1>0. /\ TypeOK /\ P!TypeOK /\ P!SingleOwner /\ sess \in [Sessions -> SessionStates]
      /\ \A t \in Sessions : Settled(t)
  BY InvTypes
<1>1. P!Step(s) \/ UNCHANGED P!vars
  BY DEF Good
<1>2. [P!Next]_(P!vars)
  BY <1>1 DEF P!Next
<1>3. P!SingleOwner'
  BY <1>0, <1>2, UpstreamAssumption, P!StepOwner
<1>4. ASSUME NEW t \in Sessions \ {s} PROVE Settled(t)'
  <2>1. /\ sess'[t].phase = sess[t].phase /\ sess'[t].ep = sess[t].ep
        /\ sess'[t].up = sess[t].up /\ sess'[t].sock = sess[t].sock
        /\ \A d \in Directions : sess[t].op[d] = "none" => sess'[t].op[d] = "none"
        /\ sess'[t].op["u2d"] = "read" => sess[t].op["u2d"] = "read"
    BY DEF Good, Kept
  <2>2. Settled(t)
    BY <1>0
  <2>3. sess[t].phase = "relaying" => Peers'[sess[t].up] = Peers[sess[t].up]
    <3>1. sess[t].phase = "relaying" => Holds[t] = sess[t].up /\ Holds[t] # NoConn
      BY <2>2, UpstreamAssumption DEF Settled, Holds, Held
    <3>2. CASE P!Step(s)
      BY <1>0, <3>1, <3>2, P!StepSeparate, UpstreamAssumption
    <3>3. CASE UNCHANGED P!vars
      BY <3>3 DEF P!vars
    <3> QED
      BY <1>1, <3>2, <3>3
  <2> QED
    BY <2>1, <2>2, <2>3 DEF Settled
<1>5. \A t \in Sessions : Settled(t)'
  BY <1>4 DEF Good
<1>6. TypeOK'
  BY DEF Good, TypeOK, SessionStates, Sockets, MetricNames
<1> QED
  BY <1>2, <1>3, <1>5, <1>6 DEF OwnInv

\* Every step keeps the invariant and is a step of the abstract pool or none.
LEMMA RelayStep == RelayInv /\ [Next]_vars => RelayInv' /\ [P!Next]_(P!vars)
<1> SUFFICES ASSUME RelayInv, [Next]_vars PROVE RelayInv' /\ [P!Next]_(P!vars)
  OBVIOUS
<1>0. OwnInv
  BY DEF RelayInv
<1>1. CASE UNCHANGED vars
  <2>1. UNCHANGED <<next_endpoint, idle_pools, socks, sess, metrics, crashed>>
    BY <1>1 DEF vars, upstream_vars
  <2>2. Holds' = Holds /\ Peers' = Peers
    BY <2>1 DEF Holds, Peers
  <2>3. [P!Next]_(P!vars)
    BY <2>1, <2>2 DEF P!vars
  <2>4. P!SingleOwner'
    BY <1>0, <2>3, InvTypes, UpstreamAssumption, P!StepOwner
  <2>5. TypeOK' /\ \A s \in Sessions : Settled(s)'
    BY <1>0, <2>1, <2>2 DEF OwnInv, TypeOK, Settled
  <2> QED
    BY <2>1, <2>3, <2>4, <2>5 DEF RelayInv, OwnInv, ClosedOnce, ErrorsClosed
<1>2. ASSUME NEW s \in Sessions,
             \/ start(s) \/ ConnectSucceeds(s) \/ ConnectFails(s)
             \/ \E d \in Directions : Completes(s, d)
             \/ Handler(s)
      PROVE  RelayInv' /\ [P!Next]_(P!vars)
  <2>1. Good(s) /\ ClosedOnce' /\ ErrorsClosed' /\ metrics' \in [MetricNames -> Counts]
    <3>1. CASE start(s)
      BY <1>0, <3>1, StartStep, Tally DEF start
    <3>2. CASE ConnectSucceeds(s)
      BY <1>0, <3>2, ConnectStep, Tally
    <3>3. CASE ConnectFails(s)
      BY <1>0, <3>3, ConnectFailsStep, Tally DEF ConnectFails
    <3>4. ASSUME NEW d \in Directions, Completes(s, d) \/ Relays(s, d) \/ Continues(s, d)
          PROVE  Good(s) /\ ClosedOnce' /\ ErrorsClosed' /\ metrics' \in [MetricNames -> Counts]
      BY <1>0, <3>4, OperationStep, Tally
    <3>5. ASSUME NEW d \in Directions, Fails(s, d)
          PROVE  Good(s) /\ ClosedOnce' /\ ErrorsClosed' /\ metrics' \in [MetricNames -> Counts]
      BY <1>0, <3>5, FailsStep, Tally
    <3> QED
      BY <1>2, <3>1, <3>2, <3>3, <3>4, <3>5 DEF Handler
  <2> QED
    BY <1>0, <2>1, GoodKeeps DEF RelayInv
<1> QED
  BY <1>1, <1>2 DEF Next

\* Every variable of the relay keeps its type; no counter passes the number of
\* sessions or goes below zero.
THEOREM TypeCorrect == Spec => []TypeOK
<1>1. RelayInv => TypeOK
  BY DEF RelayInv, OwnInv
<1> QED
  BY <1>1, RelayInit, RelayStep, PTL DEF Spec

\* However many operations of a session fail, on_close() matches its on_accept().
THEOREM CloseActsOnce == Spec => []ClosedOnce
<1>1. RelayInv => ClosedOnce
  BY DEF RelayInv
<1> QED
  BY <1>1, RelayInit, RelayStep, PTL DEF Spec

\* A socket that is reused has one read waiting on it, and a pooled one has none.
THEOREM ReadsAreAlone == Spec => []OneReader
<1>1. RelayInv => OneReader
  <2> SUFFICES ASSUME RelayInv, NEW s \in Sessions, sess[s].op["u2d"] = "read"
               PROVE  /\ \A t \in Sessions :
                           sess[t].op["u2d"] = "read" /\ sess[t].sock = sess[s].sock => t = s
                      /\ \A e \in Endpoints :
                           \A i \in DOMAIN idle_pools[e] : idle_pools[e][i] # sess[s].sock
    BY DEF OneReader
  <2>0. /\ P!SingleOwner /\ idle_pools \in [Endpoints -> Seq(Conns)]
        /\ \A t \in Sessions : Settled(t)
    BY InvTypes DEF RelayInv
  <2>1. ASSUME NEW t \in Sessions, sess[t].op["u2d"] = "read"
        PROVE  Holds[t] = sess[t].sock /\ Holds[t] # NoConn
    BY <2>0, <2>1, UpstreamAssumption DEF Settled, Holds, Held
  <2>2. ASSUME NEW t \in Sessions, sess[t].op["u2d"] = "read", sess[t].sock = sess[s].sock
        PROVE  t = s
    <3>1. Holds[t] = Holds[s] /\ Holds[s] # NoConn
      BY <2>1, <2>2
    <3> QED
      BY <2>0, <3>1 DEF P!SingleOwner, P!HeldOnce
  <2>3. ASSUME NEW e \in Endpoints, NEW i \in DOMAIN idle_pools[e]
        PROVE  idle_pools[e][i] # sess[s].sock
    <3>1. i \in 1..Len(idle_pools[e])
      BY <2>0
    <3>2. Holds[s] # idle_pools[e][i]
      BY <2>0, <3>1 DEF P!SingleOwner, P!PooledOnce, P!Endpoints, Endpoints
    <3> QED
      BY <2>1, <3>2
  <2> QED
    BY <2>2, <2>3
<1> QED
  BY <1>1, RelayInit, RelayStep, PTL DEF Spec

\* The relay uses upstream connections as unique ownership demands.
THEOREM PoolRefinement == Spec => ImplementsPool
<1>1. P!Init => Pool!Init
  BY DEF P!Init, Pool!Init, P!Closed, Pool!Closed, P!Endpoints, Pool!Endpoints, Holds, Held,
         Peers, Peer
<1>2. [P!Next]_(P!vars) => [Pool!Next]_(Pool!vars)
  BY DEF P!Next, Pool!Next, P!vars, Pool!vars, P!Step, Pool!Step, P!Connect, Pool!Connect,
         P!Reuse, Pool!Reuse, P!Release, Pool!Release, P!Discard, Pool!Discard,
         P!Endpoints, Pool!Endpoints, P!Closed, Pool!Closed, P!Shut, Pool!Shut,
         P!Taken, Pool!Taken, Holds, Held, Peers, Peer
<1> QED
  BY <1>1, <1>2, RelayInit, RelayStep, PTL DEF Spec, ImplementsPool, Pool!Spec
=============================================================================
