-------------------------- MODULE UpstreamResolver --------------------------
(***************************************************************************)
(* The addresses behind a shard's upstream connections: UpstreamManager    *)
(* resolves the host names when the shard starts and again whenever its    *)
(* timer goes off (src/upstream), connects to the address it has at that   *)
(* moment, and pools connections whatever has become of their address      *)
(* since.  Ownership of the connections is ConnectionPool's; each of its   *)
(* steps is taken here with the addresses added.                           *)
(*                                                                         *)
(* resolve() blocks the shard's thread, so resolve_all() is one step.      *)
(***************************************************************************)
EXTENDS ConnectionPool

CONSTANT NumAddresses    \* addresses a host name can have, one after the other

ASSUME ResolverAssumption == NumAddresses \in Nat

VARIABLES
  dns,           \* external: per endpoint, the answer for its host; 0 is a failure
  resolved,      \* per endpoint: Endpoint::resolved, as <<host, address>>
  refresh_timer, \* dns_refresh_timer_: "null" before start(), then "armed"
  dialling,      \* per user: the endpoint and target of a connect in progress
  addr           \* per connection: the address it was connected to

resolver_vars == <<vars, dns, resolved, refresh_timer, dialling, addr>>

\* net::Endpoint{}, whose empty host async_connect() refuses.
Unresolved(e) == <<e, 0>>
NoAddress == <<Closed, 0>>
NotDialling == [ep |-> Closed, target |-> NoAddress]

ResolverInit ==
  /\ Init
  /\ dns \in [Endpoints -> 0..NumAddresses]
  /\ resolved = [e \in Endpoints |-> Unresolved(e)]
  /\ refresh_timer = "null"
  /\ dialling = [u \in Users |-> NotDialling]
  /\ addr = [c \in Conns |-> NoAddress]

\* External: the answer for the host of e changes, or its lookup fails from now on.
DnsChanges(e) ==
  /\ dns' \in {[dns EXCEPT ![e] = a] : a \in (0..NumAddresses) \ {dns[e]}}
  /\ UNCHANGED <<vars, resolved, refresh_timer, dialling, addr>>

\* resolve(): the first of the addresses in the answer.
Answer(e) == <<e, dns[e]>>

\* resolve_all() leaves off at the first lookup that fails.
MutantAfterResolveAll ==
  [e \in Endpoints |-> IF \E f \in 0..e : dns[f] = 0 THEN resolved[e] ELSE Answer(e)]

\* resolve_all(): a lookup that fails keeps the previous address, and the loop goes
\* on with the next endpoint.
AfterResolveAll ==
  [e \in Endpoints |-> IF dns[e] = 0 THEN resolved[e] ELSE Answer(e)]

\* start(), and the timer's handler: resolve_all(), then schedule_refresh().
Resolves(when) ==
  /\ refresh_timer = when
  /\ resolved' = AfterResolveAll
  /\ refresh_timer' = "armed"   \* schedule_refresh()
  /\ UNCHANGED <<vars, dns, dialling, addr>>

start == Resolves("null")
Refresh == Resolves("armed")

MutantTarget(e) == resolved[(e + 1) % NumEndpoints]

\* connect_fresh(): the address is read when the connect begins, and not again.
Target(e) == resolved[e]

\* A connect to an unresolved endpoint fails in async_connect() and leaves nothing.
Dials(u) ==
  /\ refresh_timer # "null" /\ dialling[u] = NotDialling
  /\ \E e \in Endpoints :
       /\ Target(e)[2] # 0
       /\ dialling' = [dialling EXCEPT ![u] = [ep |-> e, target |-> Target(e)]]
  /\ UNCHANGED <<vars, dns, resolved, refresh_timer, addr>>

\* The connection is there: ConnectionPool's Connect, to the endpoint that was chosen.
DialSucceeds(u) ==
  /\ dialling[u] # NotDialling
  /\ Connect(u)
  /\ peer'[hold'[u]] = dialling[u].ep
  /\ addr' = [c \in Conns |-> IF c = hold'[u] THEN dialling[u].target
                              ELSE IF peer'[c] = Closed THEN NoAddress ELSE addr[c]]
  /\ dialling' = [dialling EXCEPT ![u] = NotDialling]
  /\ UNCHANGED <<dns, resolved, refresh_timer>>

\* It is refused, or the deadline passes (RaceWithTimeout).
DialFails(u) ==
  /\ dialling[u] # NotDialling
  /\ dialling' = [dialling EXCEPT ![u] = NotDialling]
  /\ UNCHANGED <<vars, dns, resolved, refresh_timer, addr>>

\* A pooled connection is handed out, put back or closed without a look at addresses.
UsesPool(u) ==
  /\ dialling[u] = NotDialling
  /\ Reuse(u) \/ Release(u) \/ Discard(u)
  /\ addr' = [c \in Conns |-> IF peer'[c] = Closed THEN NoAddress ELSE addr[c]]
  /\ UNCHANGED <<dns, resolved, refresh_timer, dialling>>

ResolverNext ==
  \/ \E e \in Endpoints : DnsChanges(e)
  \/ start \/ Refresh
  \/ \E u \in Users : Dials(u) \/ DialSucceeds(u) \/ DialFails(u) \/ UsesPool(u)

\* The shard's thread starts, its timer goes off again and again, and a connect
\* ends, at the latest with its deadline.
ResolverFairness ==
  /\ WF_resolver_vars(start) /\ WF_resolver_vars(Refresh)
  /\ \A u \in Users : WF_resolver_vars(DialSucceeds(u) \/ DialFails(u))

ResolverSpec == ResolverInit /\ [][ResolverNext]_resolver_vars /\ ResolverFairness
-----------------------------------------------------------------------------
Addresses == (Endpoints \cup {Closed}) \X (0..NumAddresses)

ResolverTypeOK ==
  /\ TypeOK
  /\ dns \in [Endpoints -> 0..NumAddresses]
  /\ resolved \in [Endpoints -> Addresses]
  /\ refresh_timer \in {"null", "armed"}
  /\ dialling \in [Users -> [ep : Endpoints \cup {Closed}, target : Addresses]]
  /\ addr \in [Conns -> Addresses]

\* However often the addresses change under the pool, a connection that a session
\* holds for endpoint e, or that lies in the pool of e, is one to an address the
\* host of e has had: traffic for one upstream never reaches another.
RightHost ==
  \A c \in Conns : peer[c] # Closed => addr[c][1] = peer[c] /\ addr[c][2] # 0

\* Once lookups of the name of an endpoint return one address or fail, the endpoint
\* settles on that address and so do new connections to it, whatever the lookups of
\* the others return: provided the name has stopped failing, or a lookup got through.
\* A lookup that fails later "keeps the previous address" (resolve_all()).
DnsConverges ==
  \A e \in Endpoints, a \in 1..NumAddresses :
    /\ <>[](dns[e] \in {0, a})
    /\ <>[](dns[e] = a) \/ []<>(resolved[e] = <<e, a>>)
    => <>[](/\ resolved[e] = <<e, a>>
            /\ \A u \in Users : dialling[u].ep = e => dialling[u].target = <<e, a>>)
=============================================================================
