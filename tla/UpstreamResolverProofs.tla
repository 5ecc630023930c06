----------------------- MODULE UpstreamResolverProofs -----------------------
(***************************************************************************)
(* The upstream connections of a shard and the addresses behind them, for  *)
(* any number of users, endpoints, connections and addresses.              *)
(*                                                                         *)
(* First ConnectionPool: SingleOwner is inductive together with the types. *)
(* HttpSessionProofs and SessionProofs use what is shown of its steps.     *)
(***************************************************************************)
EXTENDS UpstreamResolver, SequenceTheorems, TLAPS

\* Closed is no endpoint.
LEMMA NotClosed == \A e \in Endpoints : e # -1
BY PoolAssumption DEF Endpoints

\* pop_back() on a stack.
LEMMA PopBack ==
  ASSUME NEW S, NEW q \in Seq(S), q # <<>>
  PROVE  /\ Len(q) \in Nat \ {0}
         /\ q[Len(q)] \in S
         /\ SubSeq(q, 1, Len(q) - 1) \in Seq(S)
         /\ Len(SubSeq(q, 1, Len(q) - 1)) = Len(q) - 1
         /\ \A i \in 1..(Len(q) - 1) : SubSeq(q, 1, Len(q) - 1)[i] = q[i]
<1>1. Len(q) \in Nat \ {0} /\ q[Len(q)] \in S
  OBVIOUS
<1> DEFINE n == Len(q) - 1
<1>2. n \in Nat /\ \A i \in 1..n : q[i] \in S
  BY <1>1
<1> HIDE DEF n
<1>3. /\ SubSeq(q, 1, n) \in Seq(S)
      /\ Len(SubSeq(q, 1, n)) = IF 1 <= n THEN n - 1 + 1 ELSE 0
      /\ \A i \in 1..(n - 1 + 1) : SubSeq(q, 1, n)[i] = q[1 + i - 1]
  BY <1>2, SubSeqProperties
<1>4. Len(SubSeq(q, 1, n)) = n /\ \A i \in 1..n : SubSeq(q, 1, n)[i] = q[i]
  BY <1>2, <1>3
<1> QED
  BY <1>1, <1>3, <1>4 DEF n

\* push_back() on a stack.
LEMMA PushBack ==
  ASSUME NEW S, NEW q \in Seq(S), NEW c \in S
  PROVE  /\ Len(q) \in Nat
         /\ Append(q, c) \in Seq(S)
         /\ Len(Append(q, c)) = Len(q) + 1
         /\ \A i \in 1..Len(q) : Append(q, c)[i] = q[i]
         /\ Append(q, c)[Len(q) + 1] = c
OBVIOUS

\* The initial state: nothing is open, held or pooled.
LEMMA InitOwner == Init => TypeOK /\ SingleOwner
<1> SUFFICES ASSUME Init PROVE TypeOK /\ SingleOwner
  OBVIOUS
<1> USE PoolAssumption, NotClosed DEF Init, Closed
<1>1. TypeOK
  BY DEF TypeOK
<1>2. HeldOnce
  BY DEF HeldOnce
<1>3. PooledOnce
  BY DEF PooledOnce
<1>4. NoneLeaked
  BY DEF NoneLeaked
<1> QED
  BY <1>1, <1>2, <1>3, <1>4 DEF SingleOwner

\* A new connection had no owner, so it gets exactly one.
LEMMA ConnectOwner ==
  ASSUME TypeOK, SingleOwner, NEW u \in Users, Connect(u)
  PROVE  TypeOK' /\ SingleOwner'
<1> USE PoolAssumption, NotClosed DEF Closed
<1>1. PICK c \in Conns, e \in Endpoints :
        /\ peer[c] = Closed
        /\ hold' = [hold EXCEPT ![u] = c]
        /\ peer' = [Shut(hold[u]) EXCEPT ![c] = e]
        /\ pools' = pools
  BY DEF Connect
<1>2. \A d \in Conns : peer'[d] = IF d = c THEN e ELSE IF d = hold[u] THEN Closed ELSE peer[d]
  BY <1>1 DEF Shut
<1>3. TypeOK'
  BY <1>1 DEF TypeOK, Shut
<1>4. HeldOnce'
  BY <1>1, <1>2 DEF TypeOK, SingleOwner, HeldOnce
<1>5. PooledOnce'
  BY <1>1, <1>2 DEF TypeOK, SingleOwner, PooledOnce
<1>6. NoneLeaked'
  <2> SUFFICES ASSUME NEW d \in Conns, peer'[d] # Closed
               PROVE  \/ \E v \in Users : hold'[v] = d
                      \/ \E i \in 1..Len(pools'[peer'[d]]) : pools'[peer'[d]][i] = d
    BY DEF NoneLeaked
  <2>1. CASE d = c
    BY <1>1, <2>1 DEF TypeOK
  <2>2. CASE d # c
    <3>1. peer'[d] = peer[d] /\ d # hold[u]
      BY <1>2, <2>2
    <3>2. \/ \E v \in Users : hold[v] = d
          \/ \E i \in 1..Len(pools[peer[d]]) : pools[peer[d]][i] = d
      BY <3>1 DEF SingleOwner, NoneLeaked
    <3>3. \A v \in Users : hold[v] = d => hold'[v] = d
      BY <1>1, <3>1 DEF TypeOK
    <3> QED
      BY <1>1, <3>1, <3>2, <3>3
  <2> QED
    BY <2>1, <2>2
<1> QED
  BY <1>3, <1>4, <1>5, <1>6 DEF SingleOwner

\* A pooled connection changes hands: it leaves its slot as it gets its user.
LEMMA ReuseOwner ==
  ASSUME TypeOK, SingleOwner, NEW u \in Users, Reuse(u)
  PROVE  TypeOK' /\ SingleOwner'
<1> USE PoolAssumption, NotClosed DEF Closed
<1>1. PICK e \in Endpoints :
        /\ pools[e] # <<>>
        /\ hold' = [hold EXCEPT ![u] = pools[e][Len(pools[e])]]
        /\ peer' = Shut(hold[u])
        /\ pools' = Taken(e)
  BY DEF Reuse
<1> DEFINE n == Len(pools[e])
           c == pools[e][n]
<1>2. n \in Nat \ {0} /\ c \in Conns
  BY <1>1 DEF TypeOK
<1>3. \A d \in Conns : peer'[d] = IF d = hold[u] THEN Closed ELSE peer[d]
  BY <1>1 DEF Shut
<1>4. /\ pools' \in [Endpoints -> Seq(Conns)]
      /\ Len(pools'[e]) = n - 1
      /\ \A i \in 1..(n - 1) : pools'[e][i] = pools[e][i]
      /\ \A f \in Endpoints \ {e} : pools'[f] = pools[f]
  BY <1>1, PopBack DEF TypeOK, Taken
<1>5. hold' \in [Users -> Conns \cup {NoConn}] /\ hold'[u] = c
      /\ \A v \in Users \ {u} : hold'[v] = hold[v]
  BY <1>1, <1>2 DEF TypeOK
<1>6. peer[c] = e /\ (\A v \in Users : hold[v] # c)
      /\ \A i \in 1..(n - 1) : pools[e][i] # c
  BY <1>2 DEF SingleOwner, PooledOnce
<1>7. TypeOK'
  BY <1>1, <1>4, <1>5 DEF TypeOK, Shut
<1>8. HeldOnce'
  BY <1>2, <1>3, <1>5, <1>6 DEF TypeOK, SingleOwner, HeldOnce
<1>9. PooledOnce'
  <2> SUFFICES ASSUME NEW f \in Endpoints
      PROVE /\ Len(pools'[f]) <= MaxIdle
            /\ \A i \in 1..Len(pools'[f]) :
                 /\ peer'[pools'[f][i]] = f
                 /\ \A v \in Users : hold'[v] # pools'[f][i]
                 /\ \A j \in 1..Len(pools'[f]) : pools'[f][j] = pools'[f][i] => j = i
    BY DEF PooledOnce
  <2>1. Len(pools'[f]) \in Nat /\ Len(pools'[f]) <= Len(pools[f])
        /\ \A i \in 1..Len(pools'[f]) : pools'[f][i] = pools[f][i] /\ pools[f][i] # c
                                        /\ pools[f][i] \in Conns
    <3>1. CASE f = e
      BY <3>1, <1>2, <1>4, <1>6 DEF TypeOK
    <3>2. CASE f # e
      BY <3>2, <1>2, <1>4, <1>6 DEF TypeOK, SingleOwner, PooledOnce
    <3> QED
      BY <3>1, <3>2
  <2>2. Len(pools'[f]) <= MaxIdle
    BY <2>1 DEF TypeOK, SingleOwner, PooledOnce
  <2> QED
    BY <2>1, <2>2, <1>3, <1>5 DEF TypeOK, SingleOwner, PooledOnce
<1>10. NoneLeaked'
  <2> SUFFICES ASSUME NEW d \in Conns, peer'[d] # Closed
      PROVE \/ \E v \in Users : hold'[v] = d
            \/ \E i \in 1..Len(pools'[peer'[d]]) : pools'[peer'[d]][i] = d
    BY DEF NoneLeaked
  <2>1. peer'[d] = peer[d] /\ d # hold[u] /\ peer[d] \in Endpoints
    BY <1>3 DEF TypeOK
  <2>2. CASE \E v \in Users : hold[v] = d
    BY <2>1, <2>2, <1>5
  <2>3. CASE \E i \in 1..Len(pools[peer[d]]) : pools[peer[d]][i] = d
    <3>1. CASE d = c
      BY <3>1, <1>5
    <3>2. CASE d # c /\ peer[d] = e
      <4>1. PICK i \in 1..n : pools[e][i] = d
        BY <2>3, <3>2
      <4>2. i \in 1..(n - 1)
        BY <4>1, <3>2, <1>2
      <4> QED
        BY <2>1, <3>2, <4>1, <4>2, <1>4
    <3>3. CASE peer[d] # e
      BY <2>1, <2>3, <3>3, <1>4
    <3> QED
      BY <3>1, <3>2, <3>3
  <2> QED
    BY <2>1, <2>2, <2>3 DEF SingleOwner, NoneLeaked
<1> QED
  BY <1>7, <1>8, <1>9, <1>10 DEF SingleOwner

\* A released connection moves from its user to a new slot.
LEMMA ReleaseOwner ==
  ASSUME TypeOK, SingleOwner, NEW u \in Users, Release(u)
  PROVE  TypeOK' /\ SingleOwner'
<1> USE PoolAssumption, NotClosed DEF Closed
<1>1. PICK e \in Endpoints :
        /\ e = peer[hold[u]]
        /\ Len(pools[e]) < MaxIdle
        /\ pools' = [pools EXCEPT ![e] = Append(@, hold[u])]
  BY DEF Release
<1> DEFINE n == Len(pools[e])
           c == hold[u]
<1>2. n \in Nat /\ c \in Conns /\ hold' = [hold EXCEPT ![u] = NoConn] /\ peer' = peer
  BY DEF TypeOK, Release
<1>3. /\ pools' \in [Endpoints -> Seq(Conns)]
      /\ Len(pools'[e]) = n + 1
      /\ \A i \in 1..n : pools'[e][i] = pools[e][i]
      /\ pools'[e][n + 1] = c
      /\ \A f \in Endpoints \ {e} : pools'[f] = pools[f]
  BY <1>1, <1>2 DEF TypeOK
<1>4. hold' \in [Users -> Conns \cup {NoConn}] /\ hold'[u] = NoConn
      /\ \A v \in Users \ {u} : hold'[v] = hold[v] /\ hold[v] # c
  BY <1>2 DEF TypeOK, SingleOwner, HeldOnce
<1>5. \A f \in Endpoints : \A i \in 1..Len(pools[f]) : pools[f][i] # c /\ pools[f][i] \in Conns
  BY <1>2 DEF TypeOK, SingleOwner, PooledOnce
<1>6. TypeOK'
  BY <1>2, <1>3, <1>4 DEF TypeOK
<1>7. HeldOnce'
  BY <1>2, <1>4 DEF TypeOK, SingleOwner, HeldOnce
<1>8. PooledOnce'
  <2> SUFFICES ASSUME NEW f \in Endpoints
      PROVE /\ Len(pools'[f]) <= MaxIdle
            /\ \A i \in 1..Len(pools'[f]) :
                 /\ peer'[pools'[f][i]] = f
                 /\ \A v \in Users : hold'[v] # pools'[f][i]
                 /\ \A j \in 1..Len(pools'[f]) : pools'[f][j] = pools'[f][i] => j = i
    BY DEF PooledOnce
  <2>1. CASE f = e
    <3>1. \A i \in 1..(n + 1) : i = n + 1 \/ i \in 1..n
      BY <1>2
    <3>2. \A i \in 1..n : /\ peer[pools[e][i]] = e
                          /\ \A v \in Users : hold[v] # pools[e][i]
                          /\ \A j \in 1..n : pools[e][j] = pools[e][i] => j = i
      BY DEF SingleOwner, PooledOnce
    <3> QED
      BY <2>1, <3>1, <3>2, <1>1, <1>2, <1>3, <1>4, <1>5
  <2>2. CASE f # e
    <3>1. pools'[f] = pools[f]
      BY <2>2, <1>3
    <3> QED
      BY <3>1, <1>2, <1>4, <1>5 DEF SingleOwner, PooledOnce
  <2> QED
    BY <2>1, <2>2
<1>9. NoneLeaked'
  <2> SUFFICES ASSUME NEW d \in Conns, peer'[d] # Closed
      PROVE \/ \E v \in Users : hold'[v] = d
            \/ \E i \in 1..Len(pools'[peer'[d]]) : pools'[peer'[d]][i] = d
    BY DEF NoneLeaked
  <2>1. peer'[d] = peer[d] /\ peer[d] \in Endpoints
    BY <1>2 DEF TypeOK
  <2>2. CASE d = c
    <3>1. n + 1 \in 1..Len(pools'[e])
      BY <1>2, <1>3
    <3> QED
      BY <2>1, <2>2, <3>1, <1>1, <1>3
  <2>3. CASE d # c /\ \E v \in Users : hold[v] = d
    BY <2>3, <1>4
  <2>4. CASE \E i \in 1..Len(pools[peer[d]]) : pools[peer[d]][i] = d
    <3>1. PICK i \in 1..Len(pools[peer[d]]) : pools[peer[d]][i] = d
      BY <2>4
    <3>2. CASE peer[d] = e
      <4>1. i \in 1..n /\ i \in 1..Len(pools'[e])
        BY <3>1, <3>2, <1>2, <1>3
      <4> QED
        BY <2>1, <3>1, <3>2, <4>1, <1>3
    <3>3. CASE peer[d] # e
      BY <2>1, <3>1, <3>3, <1>3
    <3> QED
      BY <3>2, <3>3
  <2> QED
    BY <2>1, <2>2, <2>3, <2>4 DEF SingleOwner, NoneLeaked
<1> QED
  BY <1>6, <1>7, <1>8, <1>9 DEF SingleOwner

\* A discarded connection is closed as it loses its user.
LEMMA DiscardOwner ==
  ASSUME TypeOK, SingleOwner, NEW u \in Users, Discard(u)
  PROVE  TypeOK' /\ SingleOwner'
<1> USE PoolAssumption, NotClosed DEF Closed
<1>1. hold' = [hold EXCEPT ![u] = NoConn] /\ pools' = pools /\ hold[u] # NoConn
      /\ \A d \in Conns : peer'[d] = IF d = hold[u] THEN Closed ELSE peer[d]
  BY DEF Discard, Shut
<1>2. TypeOK'
  BY <1>1 DEF TypeOK, Discard, Shut
<1>3. HeldOnce'
  BY <1>1 DEF TypeOK, SingleOwner, HeldOnce
<1>4. PooledOnce'
  BY <1>1 DEF TypeOK, SingleOwner, PooledOnce
<1>5. NoneLeaked'
  BY <1>1 DEF TypeOK, SingleOwner, NoneLeaked
<1> QED
  BY <1>2, <1>3, <1>4, <1>5 DEF SingleOwner

\* Every step keeps the types and unique ownership.
LEMMA StepOwner == TypeOK /\ SingleOwner /\ [Next]_vars => TypeOK' /\ SingleOwner'
<1> SUFFICES ASSUME TypeOK, SingleOwner, [Next]_vars PROVE TypeOK' /\ SingleOwner'
  OBVIOUS
<1>1. CASE UNCHANGED vars
  BY <1>1 DEF vars, TypeOK, SingleOwner, HeldOnce, PooledOnce, NoneLeaked
<1>2. CASE Next
  BY <1>2, ConnectOwner, ReuseOwner, ReleaseOwner, DiscardOwner DEF Next, Step
<1> QED
  BY <1>1, <1>2

\* A step of one user leaves what the others hold as it was.
LEMMA StepSeparate ==
  ASSUME TypeOK, SingleOwner, NEW u \in Users, Step(u),
         NEW v \in Users \ {u}, hold[v] # NoConn
  PROVE  hold'[v] = hold[v] /\ peer'[hold[v]] = peer[hold[v]]
<1> USE PoolAssumption, NotClosed DEF Closed
<1>1. hold[v] \in Conns /\ hold[v] # hold[u] /\ peer[hold[v]] # Closed
  BY DEF TypeOK, SingleOwner, HeldOnce
<1>2. CASE Connect(u)
  BY <1>1, <1>2 DEF TypeOK, Connect, Shut
<1>3. CASE Reuse(u)
  BY <1>1, <1>3 DEF TypeOK, Reuse, Shut
<1>4. CASE Release(u)
  BY <1>1, <1>4 DEF TypeOK, Release
<1>5. CASE Discard(u)
  BY <1>1, <1>5 DEF TypeOK, Discard, Shut
<1> QED
  BY <1>2, <1>3, <1>4, <1>5 DEF Step

\* Connections have one owner each in every reachable state.
THEOREM OwnershipHolds == Spec => [](TypeOK /\ SingleOwner)
BY InitOwner, StepOwner, PTL DEF Spec
-----------------------------------------------------------------------------
(***************************************************************************)
(* UpstreamResolver.  RightHost is not inductive on its own: the address   *)
(* of a new connection is the one its user dialled, and that one was read  *)
(* from the endpoint's entry.                                              *)
(***************************************************************************)

\* An endpoint's entry is an address of its own host, or of none yet.
OwnEntries == \A e \in Endpoints : resolved[e][1] = e

\* A connect in progress goes to an address of the host of its endpoint.
OwnTargets ==
  \A u \in Users :
    dialling[u] # NotDialling =>
      dialling[u].target[1] = dialling[u].ep /\ dialling[u].target[2] # 0

ResolverInv == ResolverTypeOK /\ SingleOwner /\ OwnEntries /\ OwnTargets /\ RightHost

\* What addresses and connects are.
LEMMA AddressTypes ==
  /\ NoAddress \in Addresses /\ Closed \notin Endpoints
  /\ NotDialling \in [ep : Endpoints \cup {Closed}, target : Addresses]
  /\ \A e \in Endpoints, a \in 0..NumAddresses : <<e, a>> \in Addresses
<1>1. Closed \notin Endpoints
  BY NotClosed DEF Closed
<1>2. 0 \in 0..NumAddresses
  BY ResolverAssumption
<1>3. NoAddress \in Addresses
  BY <1>2 DEF NoAddress, Addresses
<1> QED
  BY <1>1, <1>3 DEF NotDialling, Addresses

\* Before the first DNS answer every endpoint has its configured address.
LEMMA ResolverStarts == ResolverInit => ResolverInv
<1> SUFFICES ASSUME ResolverInit PROVE ResolverInv
  OBVIOUS
<1>1. TypeOK /\ SingleOwner
  BY InitOwner DEF ResolverInit
<1>2. resolved \in [Endpoints -> Addresses] /\ OwnEntries
  <2>1. \A e \in Endpoints : <<e, 0>> \in Addresses
    BY AddressTypes, ResolverAssumption
  <2> QED
    BY <2>1 DEF ResolverInit, Unresolved, OwnEntries
<1>3. OwnTargets /\ RightHost
  BY DEF ResolverInit, Init, OwnTargets, RightHost
<1>4. ResolverTypeOK
  BY <1>1, <1>2, AddressTypes DEF ResolverInit, ResolverTypeOK
<1> QED
  BY <1>1, <1>2, <1>3, <1>4 DEF ResolverInv

\* A step of the pool opens no connection but the one that a connect hands over.
LEMMA PeersKept ==
  ASSUME TypeOK, NEW u \in Users, Step(u), NEW c \in Conns, peer'[c] # Closed
  PROVE  peer'[c] = peer[c] \/ (Connect(u) /\ c = hold'[u])
<1>1. CASE Connect(u)
  BY <1>1 DEF Connect, Shut, TypeOK
<1>2. CASE Reuse(u)
  BY <1>2 DEF Reuse, Shut, TypeOK
<1>3. CASE Release(u)
  BY <1>3 DEF Release
<1>4. CASE Discard(u)
  BY <1>4 DEF Discard, Shut, TypeOK
<1> QED
  BY <1>1, <1>2, <1>3, <1>4 DEF Step

\* DnsChanges, start and Refresh: the pool and the connects are left alone.
LEMMA ResolvingKeeps ==
  ASSUME ResolverInv, (\E e \in Endpoints : DnsChanges(e)) \/ start \/ Refresh
  PROVE  ResolverInv'
<1>0. ResolverTypeOK /\ TypeOK /\ SingleOwner /\ OwnEntries /\ OwnTargets /\ RightHost
  BY DEF ResolverInv, ResolverTypeOK
<1>1. UNCHANGED <<vars, dialling, addr>>
  BY DEF DnsChanges, start, Refresh, Resolves
<1>2. TypeOK' /\ SingleOwner'
  BY <1>0, <1>1, StepOwner
<1>3. OwnTargets' /\ RightHost'
  BY <1>0, <1>1 DEF OwnTargets, RightHost, vars
<1>4. CASE \E e \in Endpoints : DnsChanges(e)
  <2>1. PICK e \in Endpoints : DnsChanges(e)
    BY <1>4
  <2>2. PICK a \in 0..NumAddresses : dns' = [dns EXCEPT ![e] = a]
    BY <2>1 DEF DnsChanges
  <2>3. dns' \in [Endpoints -> 0..NumAddresses] /\ UNCHANGED <<resolved, refresh_timer>>
    BY <1>0, <2>1, <2>2 DEF DnsChanges, ResolverTypeOK
  <2> QED
    BY <1>0, <1>1, <1>2, <1>3, <2>3 DEF ResolverInv, ResolverTypeOK, OwnEntries
<1>5. CASE start \/ Refresh
  <2>1. resolved' = AfterResolveAll /\ refresh_timer' = "armed" /\ dns' = dns
    BY <1>5 DEF start, Refresh, Resolves
  <2>2. ASSUME NEW e \in Endpoints
        PROVE  AfterResolveAll[e] \in Addresses /\ AfterResolveAll[e][1] = e
    <3>1. AfterResolveAll[e] = resolved[e] \/ AfterResolveAll[e] = <<e, dns[e]>>
      BY DEF AfterResolveAll, Answer
    <3>2. resolved[e] \in Addresses /\ resolved[e][1] = e /\ <<e, dns[e]>> \in Addresses
      BY <1>0, AddressTypes DEF ResolverTypeOK, OwnEntries
    <3> QED
      BY <3>1, <3>2
  <2>3. resolved' \in [Endpoints -> Addresses] /\ OwnEntries'
    BY <2>1, <2>2 DEF AfterResolveAll, OwnEntries
  <2> QED
    BY <1>0, <1>1, <1>2, <1>3, <2>1, <2>3 DEF ResolverInv, ResolverTypeOK
<1> QED
  BY <1>4, <1>5

\* A connect begins or comes to nothing.
LEMMA DiallingKeeps ==
  ASSUME ResolverInv, NEW u \in Users, Dials(u) \/ DialFails(u)
  PROVE  ResolverInv'
<1>0. ResolverTypeOK /\ TypeOK /\ SingleOwner /\ OwnEntries /\ OwnTargets /\ RightHost
  BY DEF ResolverInv, ResolverTypeOK
<1>1. UNCHANGED <<vars, dns, resolved, refresh_timer, addr>>
  BY DEF Dials, DialFails
<1>2. TypeOK' /\ SingleOwner'
  BY <1>0, <1>1, StepOwner
<1>3. RightHost' /\ OwnEntries'
  BY <1>0, <1>1 DEF RightHost, OwnEntries, vars
<1>4. PICK x \in [ep : Endpoints \cup {Closed}, target : Addresses] :
        /\ dialling' = [dialling EXCEPT ![u] = x]
        /\ x # NotDialling => x.target[1] = x.ep /\ x.target[2] # 0
  <2>1. CASE DialFails(u)
    BY <2>1, AddressTypes DEF DialFails
  <2>2. CASE Dials(u)
    <3>1. PICK e \in Endpoints :
            /\ resolved[e][2] # 0
            /\ dialling' = [dialling EXCEPT ![u] = [ep |-> e, target |-> resolved[e]]]
      BY <2>2 DEF Dials, Target
    <3>2. resolved[e] \in Addresses /\ resolved[e][1] = e
      BY <1>0 DEF ResolverTypeOK, OwnEntries
    <3>3. \A x : x = [ep |-> e, target |-> resolved[e]] =>
                   /\ x \in [ep : Endpoints \cup {Closed}, target : Addresses]
                   /\ x.target[1] = x.ep /\ x.target[2] # 0
      BY <3>1, <3>2
    <3> QED
      BY <3>1, <3>3
  <2> QED
    BY <2>1, <2>2
<1>5. /\ dialling' \in [Users -> [ep : Endpoints \cup {Closed}, target : Addresses]]
      /\ OwnTargets'
  BY <1>0, <1>4 DEF ResolverTypeOK, OwnTargets
<1> QED
  BY <1>0, <1>1, <1>2, <1>3, <1>5 DEF ResolverInv, ResolverTypeOK

\* The new connection has the address that was dialled.
LEMMA DialSucceedsKeeps ==
  ASSUME ResolverInv, NEW u \in Users, DialSucceeds(u)
  PROVE  ResolverInv'
<1>0. ResolverTypeOK /\ TypeOK /\ SingleOwner /\ OwnEntries /\ OwnTargets /\ RightHost
  BY DEF ResolverInv, ResolverTypeOK
<1>1. Step(u) /\ Next /\ Connect(u)
  BY DEF DialSucceeds, Step, Next
<1>2. TypeOK' /\ SingleOwner'
  BY <1>0, <1>1, StepOwner
<1>3. /\ dialling[u] # NotDialling /\ peer'[hold'[u]] = dialling[u].ep
      /\ addr' = [c \in Conns |-> IF c = hold'[u] THEN dialling[u].target
                                  ELSE IF peer'[c] = Closed THEN NoAddress ELSE addr[c]]
      /\ dialling' = [dialling EXCEPT ![u] = NotDialling]
      /\ UNCHANGED <<dns, resolved, refresh_timer>>
  BY DEF DialSucceeds
<1>4. dialling[u].target \in Addresses /\ NoAddress \in Addresses
  BY <1>0, AddressTypes DEF ResolverTypeOK
<1>5. addr' \in [Conns -> Addresses]
  BY <1>0, <1>3, <1>4 DEF ResolverTypeOK
<1>6. /\ dialling' \in [Users -> [ep : Endpoints \cup {Closed}, target : Addresses]]
      /\ OwnTargets' /\ OwnEntries'
  BY <1>0, <1>3, AddressTypes DEF ResolverTypeOK, OwnTargets, OwnEntries
<1>7. RightHost'
  <2> SUFFICES ASSUME NEW c \in Conns, peer'[c] # Closed
               PROVE  addr'[c][1] = peer'[c] /\ addr'[c][2] # 0
    BY DEF RightHost
  <2>1. CASE c = hold'[u]
    BY <1>0, <1>3, <2>1 DEF OwnTargets
  <2>2. CASE c # hold'[u]
    <3>1. peer'[c] = peer[c]
      BY <1>0, <1>1, <2>2, PeersKept
    <3>2. addr'[c] = addr[c]
      BY <1>3, <2>2
    <3> QED
      BY <1>0, <3>1, <3>2 DEF RightHost
  <2> QED
    BY <2>1, <2>2
<1> QED
  BY <1>0, <1>2, <1>3, <1>5, <1>6, <1>7 DEF ResolverInv, ResolverTypeOK

\* The pool hands a connection on with the address it has.
LEMMA UsesPoolKeeps ==
  ASSUME ResolverInv, NEW u \in Users, UsesPool(u)
  PROVE  ResolverInv'
<1>0. ResolverTypeOK /\ TypeOK /\ SingleOwner /\ OwnEntries /\ OwnTargets /\ RightHost
  BY DEF ResolverInv, ResolverTypeOK
<1>1. Step(u) /\ Next /\ (Reuse(u) \/ Release(u) \/ Discard(u))
  BY DEF UsesPool, Step, Next
<1>2. TypeOK' /\ SingleOwner'
  BY <1>0, <1>1, StepOwner
<1>3. /\ addr' = [c \in Conns |-> IF peer'[c] = Closed THEN NoAddress ELSE addr[c]]
      /\ UNCHANGED <<dns, resolved, refresh_timer, dialling>>
  BY DEF UsesPool
<1>4. addr' \in [Conns -> Addresses]
  BY <1>0, <1>3, AddressTypes DEF ResolverTypeOK
<1>5. RightHost'
  <2> SUFFICES ASSUME NEW c \in Conns, peer'[c] # Closed
               PROVE  addr'[c][1] = peer'[c] /\ addr'[c][2] # 0
    BY DEF RightHost
  <2>1. peer'[c] = peer[c]
    <3>1. CASE Reuse(u) \/ Discard(u)
      BY <1>0, <3>1 DEF Reuse, Discard, Shut
    <3>2. CASE Release(u)
      BY <3>2 DEF Release
    <3> QED
      BY <1>1, <3>1, <3>2
  <2>2. addr'[c] = addr[c]
    BY <1>3
  <2> QED
    BY <1>0, <2>1, <2>2 DEF RightHost
<1> QED
  BY <1>0, <1>2, <1>3, <1>4, <1>5
  DEF ResolverInv, ResolverTypeOK, OwnEntries, OwnTargets

\* ResolverInv is inductive: resolves, connects and the pool's steps, in any order.
THEOREM ResolverInvariant == ResolverSpec => []ResolverInv
<1>1. ResolverInv /\ [ResolverNext]_resolver_vars => ResolverInv'
  <2> SUFFICES ASSUME ResolverInv, [ResolverNext]_resolver_vars PROVE ResolverInv'
    OBVIOUS
  <2>1. CASE UNCHANGED resolver_vars
    <3>1. UNCHANGED vars /\ UNCHANGED <<dns, resolved, refresh_timer, dialling, addr>>
      BY <2>1 DEF resolver_vars
    <3>2. TypeOK' /\ SingleOwner'
      BY <3>1, StepOwner DEF ResolverInv, ResolverTypeOK
    <3> QED
      BY <3>1, <3>2 DEF ResolverInv, ResolverTypeOK, OwnEntries, OwnTargets, RightHost, vars
  <2> QED
    BY <2>1, ResolvingKeeps, DiallingKeeps, DialSucceedsKeeps, UsesPoolKeeps DEF ResolverNext
<1> QED
  BY <1>1, ResolverStarts, PTL DEF ResolverSpec

\* Every variable of the resolver keeps its type.
THEOREM ResolverTypes == ResolverSpec => []ResolverTypeOK
<1>1. ResolverInv => ResolverTypeOK
  BY DEF ResolverInv
<1> QED
  BY <1>1, ResolverInvariant, PTL

\* Traffic for one upstream never reaches another, however the addresses change
\* between connect_fresh(), release_connection() and acquire_connection().
THEOREM TrafficReachesItsHost == ResolverSpec => []RightHost
<1>1. ResolverInv => RightHost
  BY DEF ResolverInv
<1> QED
  BY <1>1, ResolverInvariant, PTL

\* Resolving, refreshing and failing connects leave unique ownership intact.
THEOREM OwnedWhileResolving == ResolverSpec => []SingleOwner
<1>1. ResolverInv => SingleOwner
  BY DEF ResolverInv
<1> QED
  BY <1>1, ResolverInvariant, PTL
=============================================================================
