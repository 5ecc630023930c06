------------------------------ MODULE Session ------------------------------
(***************************************************************************)
(* Session (src/session/session.hpp), the raw TCP relay: two directions,   *)
(* each reading from one socket and writing to the other, on one loop      *)
(* thread.  The gateway itself now runs HttpSession; Session is kept in    *)
(* the repository, with its tests, on the same UpstreamManager.            *)
(*                                                                         *)
(* An asynchronous operation waits in the reactor, completes, and has its  *)
(* handler queued; cancel() and close() reach what waits in the reactor    *)
(* and not what is queued.  So a handler can find its session closed by    *)
(* the other direction's, its buffers returned and its upstream socket     *)
(* pooled.  async_write() is composed: it may write a part and continue    *)
(* (here once) from a handler of its own.                                  *)
(***************************************************************************)
EXTENDS Integers, UpstreamManager

CONSTANT Sessions   \* the connections a shard is given

ASSUME SessionsAssumption == IsFiniteSet(Sessions)

VARIABLES
  sess,      \* per session: see NewSession
  metrics,   \* LocalMetrics: accepted, active, closed, connect_errors
  crashed    \* a null or dangling pointer has been used

vars == <<upstream_vars, sess, metrics, crashed>>

Directions == {"d2u", "u2d"}

\* up: upstream_; sock: the socket the operations on the upstream side were started
\* on; op: per direction, the operation and how far it is.
NewSession == [phase |-> "new", ep |-> 0, up |-> NoConn, sock |-> NoConn, healthy |-> TRUE,
               op |-> [d \in Directions |-> "none"]]

Waiting == {"read", "write", "rest"}                \* in the reactor
Queued == {"read_ok", "read_err", "write_part", "write_ok", "write_err"}

\* d2u reads downstream and writes upstream, u2d the other way round.
OnUpstream(d, op) == (d = "u2d") <=> op \in {"read", "read_ok", "read_err"}

Failed(op) == IF op = "read" THEN "read_err" ELSE "write_err"

Drained(x) == \A d \in Directions : x.op[d] = "none"

Init ==
  /\ InitUpstream
  /\ sess = [s \in Sessions |-> NewSession]
  /\ metrics = [accepted |-> 0, active |-> 0, closed |-> 0, connect_errors |-> 0]
  /\ crashed = FALSE

Crashes == crashed' = TRUE /\ UNCHANGED <<upstream_vars, sess, metrics>>
-----------------------------------------------------------------------------
(***************************************************************************)
(* close()                                                                 *)
(***************************************************************************)
MutantClosing(x) == FALSE

\* closing_
Closing(x) == x.phase = "closed"

MutantCancelled(ss, c) == ss

\* cancel() and close() on an upstream socket: whatever waits on it, in any session,
\* completes with an error.
Cancelled(ss, c) ==
  [s \in Sessions |->
    [ss[s] EXCEPT !.op = [d \in Directions |->
       IF ss[s].sock = c /\ @[d] \in Waiting /\ OnUpstream(d, @[d]) THEN Failed(@[d]) ELSE @[d]]]]

\* The same for the session's own downstream socket.
DownstreamClosed(x) ==
  [x EXCEPT !.op = [d \in Directions |->
     IF @[d] \in Waiting /\ ~OnUpstream(d, @[d]) THEN Failed(@[d]) ELSE @[d]]]

\* close() of session s, when ss is the sessions' state so far: a healthy upstream is
\* cancelled and pooled, another one closed and kept.
Close(ss, s) ==
  IF Closing(ss[s])
  THEN sess' = ss /\ UNCHANGED <<idle_pools, socks, metrics>>
  ELSE LET x == [DownstreamClosed(ss[s]) EXCEPT !.phase = "closed"]
           pooled == x.up # NoConn /\ x.healthy
       IN /\ sess' = Cancelled([ss EXCEPT ![s] = IF pooled THEN [x EXCEPT !.up = NoConn] ELSE x],
                               x.up)
          /\ idle_pools' = IF pooled THEN AfterRelease(x.ep, x.up) ELSE idle_pools
          /\ socks' = IF pooled /\ ~PoolFull(x.ep) THEN socks ELSE Dropped(socks, x.up)
          /\ metrics' = [metrics EXCEPT !.closed = @ + 1, !.active = @ - 1]
-----------------------------------------------------------------------------
(***************************************************************************)
(* connect_upstream(), on_upstream_ready()                                 *)
(***************************************************************************)

\* The session gets its upstream and starts a read in each direction.
Relaying(x, c) ==
  [x EXCEPT !.phase = "relaying", !.up = c, !.sock = c, !.op = [d \in Directions |-> "read"]]

\* start(): a pooled connection is there at once.
start(s) ==
  /\ ~crashed /\ sess[s].phase = "new"
  /\ metrics' = [metrics EXCEPT !.accepted = @ + 1, !.active = @ + 1]
  /\ next_endpoint' = AfterSelect
  /\ LET e == next_endpoint
         x == [sess[s] EXCEPT !.ep = e]
     IN IF PoolHit(e)
        THEN /\ sess' = [sess EXCEPT ![s] = Relaying(x, PooledConn(e))]
             /\ idle_pools' = AfterPop(e)
        ELSE /\ sess' = [sess EXCEPT ![s] = [x EXCEPT !.phase = "connecting"]]
             /\ UNCHANGED idle_pools
  /\ UNCHANGED <<socks, crashed>>

\* A new connection takes a name that no operation still refers to.
Nameable == Unused \ {sess[s].sock : s \in {t \in Sessions : ~Drained(sess[t])}}

ConnectSucceeds(s) ==
  /\ ~crashed /\ sess[s].phase = "connecting" /\ Nameable # {}
  /\ LET c == CHOOSE c \in Nameable : TRUE
     IN /\ sess' = [sess EXCEPT ![s] = Relaying(@, c)]
        /\ socks' = [socks EXCEPT ![c] = NewSocket(sess[s].ep)]
  /\ UNCHANGED <<next_endpoint, idle_pools, metrics, crashed>>

ConnectFails(s) ==
  /\ ~crashed /\ sess[s].phase = "connecting"
  /\ sess' = [sess EXCEPT ![s].healthy = FALSE, ![s].phase = "closed"]
  /\ metrics' = [metrics EXCEPT !.connect_errors = @ + 1, !.closed = @ + 1, !.active = @ - 1]
  /\ UNCHANGED <<upstream_vars, crashed>>
-----------------------------------------------------------------------------
(***************************************************************************)
(* The relay in direction d                                                *)
(***************************************************************************)
Sets(s, d, op) == [sess EXCEPT ![s].op[d] = op]

\* External: an operation in the reactor completes, with data or with an error.
Completes(s, d) ==
  LET op == sess[s].op[d]
  IN /\ ~crashed /\ op \in Waiting
     /\ \E r \in {Failed(op)} \cup (CASE op = "read" -> {"read_ok"}
                                      [] op = "write" -> {"write_part", "write_ok"}
                                      [] op = "rest" -> {"write_ok"}) :
          sess' = Sets(s, d, r)
     /\ UNCHANGED <<upstream_vars, metrics, crashed>>

\* A read that returned data is followed by a write, a write by the next read, both
\* through the direction's buffer, which close() has given back.
Relays(s, d) ==
  /\ ~crashed /\ sess[s].op[d] \in {"read_ok", "write_ok"}
  /\ \/ /\ Closing(sess[s])
        /\ Crashes
     \/ /\ ~Closing(sess[s])
        /\ sess' = Sets(s, d, IF sess[s].op[d] = "read_ok" THEN "write" ELSE "read")
        /\ UNCHANGED <<upstream_vars, metrics, crashed>>

\* An error closes the session; one of the upstream's makes it unhealthy first.
Fails(s, d) ==
  /\ ~crashed /\ sess[s].op[d] \in {"read_err", "write_err"}
  /\ Close([Sets(s, d, "none") EXCEPT ![s].healthy = @ /\ ~OnUpstream(d, sess[s].op[d])], s)
  /\ UNCHANGED <<next_endpoint, crashed>>

\* The ISocket exists: it is pooled, or upstream_ of a session that still exists.
SocketExists(c) ==
  \/ \E e \in Endpoints : \E i \in DOMAIN idle_pools[e] : idle_pools[e][i] = c
  \/ \E s \in Sessions : sess[s].up = c /\ (Closing(sess[s]) => ~Drained(sess[s]))

\* async_write() goes on with the rest, on its socket, whoever has that now.
Continues(s, d) ==
  LET c == sess[s].sock
      open == IF d = "d2u" THEN socks[c].open ELSE ~Closing(sess[s])
  IN /\ ~crashed /\ sess[s].op[d] = "write_part"
     /\ \/ /\ d = "d2u" /\ ~SocketExists(c)
           /\ Crashes
        \/ /\ d = "d2u" => SocketExists(c)
           /\ sess' = Sets(s, d, IF open THEN "rest" ELSE "write_err")
           /\ UNCHANGED <<upstream_vars, metrics, crashed>>

Handler(s) == \E d \in Directions : Relays(s, d) \/ Fails(s, d) \/ Continues(s, d)

Next ==
  \E s \in Sessions :
    \/ start(s) \/ ConnectSucceeds(s) \/ ConnectFails(s)
    \/ \E d \in Directions : Completes(s, d)
    \/ Handler(s)

\* The loop runs the handlers that are queued.  Nothing is assumed of the peers.
Spec == Init /\ [][Next]_vars /\ \A s \in Sessions : WF_vars(Handler(s))
-----------------------------------------------------------------------------
Counts == 0..Cardinality(Sessions)

TypeOK ==
  /\ next_endpoint \in Endpoints
  /\ idle_pools \in [Endpoints -> Seq(Conns)]
  /\ socks \in [Conns -> {NoSocket} \cup {NewSocket(e) : e \in Endpoints}]
  /\ sess \in [Sessions -> [phase : {"new", "connecting", "relaying", "closed"}, ep : Endpoints,
                            up : Conns \cup {NoConn}, sock : Conns \cup {NoConn},
                            healthy : BOOLEAN,
                            op : [Directions -> Waiting \cup Queued \cup {"none"}]]]
  /\ metrics \in [{"accepted", "active", "closed", "connect_errors"} -> Counts]
  /\ crashed \in BOOLEAN

\* What the cancel() before release_connection() is for (session.hpp:137): a reused
\* socket never has two reads waiting on it, of which one could take the other's
\* data, and a pooled one has none.
OneReader ==
  \A s \in Sessions :
    sess[s].op["u2d"] = "read" =>
      /\ \A t \in Sessions : sess[t].op["u2d"] = "read" /\ sess[t].sock = sess[s].sock => t = s
      /\ \A e \in Endpoints : \A i \in DOMAIN idle_pools[e] : idle_pools[e][i] # sess[s].sock

\* However many of a session's operations fail, and in whatever order their handlers
\* run, close() acts once: on_close() matches on_accept().
ClosedOnce ==
  LET In(phases) == Cardinality({s \in Sessions : sess[s].phase \in phases})
  IN /\ metrics.accepted = In({"connecting", "relaying", "closed"})
     /\ metrics.active = In({"connecting", "relaying"})
     /\ metrics.closed = In({"closed"})

Pool == INSTANCE ConnectionPool WITH
  Users <- Sessions,
  hold  <- [s \in Sessions |-> IF sess[s].phase = "closed" THEN NoConn ELSE sess[s].up],
  pools <- idle_pools,
  peer  <- [c \in Conns |-> IF socks[c].open THEN socks[c].ep ELSE -1]

\* The relay, too, uses upstream connections as unique ownership demands: each of
\* its steps connects, reuses, releases or closes one connection, or none.
ImplementsPool == Pool!Spec

\* A closed session comes to an end: nothing it waits for keeps it, and what it
\* refers to, alive.  Only the rest of a write that went on after close() waits for
\* the peer, on the socket's next owner's account.
SessionReleased ==
  \A s \in Sessions :
    sess[s].phase = "closed" ~> Drained(sess[s]) \/ sess[s].op["d2u"] = "rest" \/ crashed

\* session.hpp:143: cancel() completes what the session left waiting "with an error,
\* and thanks to closing_ nothing at all happens in a session that is being closed":
\* the handlers of a closed session start no operation and use no freed pointer.
StaleCompletionInert ==
  [][\A s \in Sessions :
       sess[s].phase = "closed" =>
         /\ ~crashed'
         /\ \A d \in Directions :
              sess'[s].op[d] \in Waiting => sess'[s].op[d] = sess[s].op[d]]_vars
=============================================================================
