------------------------ MODULE GatewayRuntimeProofs ------------------------
(***************************************************************************)
(* The threads of the gateway, for any number of shards and clients: the   *)
(* handlers of a shard never overlap, sockets are dealt out evenly and     *)
(* never to a loop that has been stopped, and the final summary is exact.  *)
(*                                                                         *)
(* The inductive invariant is RuntimeInv.  Busy is at its heart: while a   *)
(* session opens or closes its shard's thread is inside that handler.  So  *)
(* at most one session of a shard is between its two counters, and none is *)
(* when the thread has been joined.                                        *)
(***************************************************************************)
EXTENDS GatewayRuntime, FiniteSetTheorems, SequenceTheorems, TLAPS

Given == {"posted", "opening", "open", "closing", "closed"}
Begun == {"opening", "open", "closing", "closed"}

\* A task posted to a shard has a socket of its own, which that shard was given.
QueuedOnce ==
  \A s \in Shards :
    \A i \in 1..Len(queue[s]) :
      /\ conn[queue[s][i]].at = "posted" /\ conn[queue[s][i]].shard = s
      /\ \A j \in 1..Len(queue[s]) : queue[s][j] = queue[s][i] => j = i

\* A session's socket is bound to its shard's loop, and while the session opens or
\* closes the shard's thread is busy with it alone.
Busy ==
  \A c \in Clients :
    /\ conn[c].at \in Begun => conn[c].loop = conn[c].shard
    /\ conn[c].at \in {"opening", "closing"} =>
         /\ thread[conn[c].shard] = "busy"
         /\ \A d \in Clients :
              conn[d].at \in {"opening", "closing"} /\ conn[d].shard = conn[c].shard => d = c

\* 1 while a session of the shard is in that state, 0 otherwise.
Some(s, at) == IF \E c \in Clients : conn[c].at = at /\ conn[c].shard = s THEN 1 ELSE 0

\* A connection is counted active after it is counted accepted, and counted closed
\* before it is no longer counted active.
Counted ==
  \A s \in Shards :
    metrics[s]["accepted"] =
      metrics[s]["active"] + metrics[s]["closed"] + Some(s, "opening") - Some(s, "closing")

\* What the counters count.
CountedIn(k) == IF k = "accepted" THEN Begun
                ELSE IF k = "active" THEN {"open", "closing"} ELSE {"closing", "closed"}

Cards == \A s \in Shards, k \in Counters : metrics[s][k] = Cardinality(Of(s, CountedIn(k)))

\* Every shard has been given q sockets, and those before next_shard_ one more.
Dealt ==
  \E q \in Nat :
    \A s \in Shards : Cardinality(Of(s, Given)) = q + (IF s < next_shard THEN 1 ELSE 0)

SessionInv == QueuedOnce /\ Busy /\ Counted /\ Cards /\ Dealt

\* How far start() and stop() are tells which threads have begun or ended and which
\* loops may be stopped.
ThreadInv ==
  /\ main.pc \in {"stop_shard", "join_shard", "summary", "done"} => thread[Listener] = "exited"
  /\ \A s \in Shards :
       /\ stopped[s] => main.pc \in {"stop_shard", "join_shard", "summary", "done"}
       /\ \/ main.pc \in {"stop_shard", "join_shard"} /\ s < main.shard
          \/ main.pc \in {"summary", "done"}
          => thread[s] = "exited"
       /\ main.pc = "start_shard" /\ s >= main.shard => thread[s] = "unborn"

\* Nothing is counted any more once the summary has been printed.
SummaryInv == main.pc = "done" => summary = metrics

RuntimeInv == TypeOK /\ SessionInv /\ ThreadInv /\ SummaryInv
-----------------------------------------------------------------------------
(***************************************************************************)
(* Frames: what a step has to leave alone to keep each part.               *)
(***************************************************************************)

\* Loops are naturals, and the listener's is none of the shards'.
LEMMA LoopNumbers ==
  /\ NumShards \in Nat /\ NumShards > 0 /\ NumClients \in Nat
  /\ Shards \subseteq Nat /\ Listener \notin Shards
  /\ \A s \in Shards : s # Listener
  /\ Shards \subseteq Loops /\ Listener \in Loops
  /\ \A t \in Loops : t # Listener => t \in Shards
BY RuntimeAssumption DEF Shards, Listener, Loops

\* A counter is a natural number.
LEMMA CounterTypes ==
  ASSUME TypeOK, NEW s \in Shards
  PROVE  /\ \A k \in Counters : metrics[s][k] \in 0..NumClients
         /\ metrics[s]["accepted"] \in Nat /\ metrics[s]["active"] \in Nat
         /\ metrics[s]["closed"] \in Nat
<1>1. metrics[s] \in [Counters -> 0..NumClients]
  BY DEF TypeOK, CounterValues
<1>2. "accepted" \in Counters /\ "active" \in Counters /\ "closed" \in Counters
  BY DEF Counters
<1>3. 0..NumClients \subseteq Nat
  BY LoopNumbers
<1>4. \A k \in Counters : metrics[s][k] \in 0..NumClients
  BY <1>1
<1> QED
  BY <1>2, <1>3, <1>4

\* A step that leaves connections, queues and counters alone and ends no session's
\* handler keeps SessionInv.
LEMMA SessionFrame ==
  ASSUME TypeOK, SessionInv, UNCHANGED <<conn, metrics, queue, next_shard>>,
         \A s \in Shards : thread[s] = "busy" => thread'[s] = "busy"
  PROVE  SessionInv'
<1>1. QueuedOnce'
  BY DEF SessionInv, QueuedOnce
<1>2. Busy'
  BY DEF SessionInv, Busy, TypeOK
<1>3. Counted'
  BY DEF SessionInv, Counted, Some
<1>4. Cards'
  BY DEF SessionInv, Cards, Of
<1>5. Dealt'
  BY DEF SessionInv, Dealt, Of
<1> QED
  BY <1>1, <1>2, <1>3, <1>4, <1>5 DEF SessionInv

\* A step of another thread than the main one that begins or revives none keeps
\* ThreadInv.
LEMMA ThreadFrame ==
  ASSUME TypeOK, ThreadInv, UNCHANGED <<main, stopped>>,
         \A t \in Loops : thread[t] \in {"exited", "unborn"} => thread'[t] = thread[t]
  PROVE  ThreadInv'
BY LoopNumbers DEF ThreadInv

\* A step that neither counts nor prints keeps SummaryInv.
LEMMA SummaryFrame ==
  ASSUME SummaryInv, UNCHANGED <<summary, metrics>>, main'.pc = "done" => main.pc = "done"
  PROVE  SummaryInv'
BY DEF SummaryInv

\* Going somewhere else changes one thread.
LEMMA GoesFrame ==
  ASSUME TypeOK, NEW t \in Loops, NEW pc, Goes(t, pc)
  PROVE  /\ thread'[t] = pc
         /\ \A u \in Loops : u # t => thread'[u] = thread[u]
BY DEF TypeOK, Goes
-----------------------------------------------------------------------------
(***************************************************************************)
(* The main thread                                                         *)
(***************************************************************************)
LEMMA MainKeeps ==
  ASSUME RuntimeInv, MainSteps
  PROVE  RuntimeInv'
<1> USE LoopNumbers
<1>0. TypeOK /\ SessionInv /\ ThreadInv /\ SummaryInv
  BY DEF RuntimeInv
<1>a. \A s \in Shards : s <= NumShards - 1 /\ s >= 0
  BY DEF Shards
<1>b. 0 \in Shards /\ (~LastShard => main.shard + 1 \in Shards)
  <2>1. main.shard \in Shards
    BY <1>0 DEF TypeOK
  <2> QED
    BY <2>1 DEF Shards, LastShard
<1>1. CASE StartsShard
  <2>1. TypeOK'
    <3>1. main' \in [pc : {"start_shard", "listen"}, shard : Shards]
      BY <1>0, <1>1, <1>b DEF StartsShard, TypeOK
    <3> QED
      BY <1>0, <1>1, <3>1 DEF StartsShard, TypeOK, Goes, listener_vars, report_vars
  <2>2. SessionInv'
    <3>1. thread[main.shard] = "unborn"
      BY <1>0, <1>1 DEF StartsShard, ThreadInv, TypeOK
    <3> QED
      BY <1>0, <1>1, <3>1, SessionFrame DEF StartsShard, TypeOK, Goes, listener_vars
  <2>3. ThreadInv'
    <3>1. main.shard \in Nat /\ \A s \in Shards : s \in Nat
      BY <1>0 DEF TypeOK
    <3> QED
      BY <1>0, <1>1, <3>1 DEF StartsShard, Goes, ThreadInv, TypeOK
  <2>4. SummaryInv'
    BY <1>0, <1>1, SummaryFrame DEF StartsShard, report_vars
  <2> QED
    BY <2>1, <2>2, <2>3, <2>4 DEF RuntimeInv
<1>2. CASE Listens
  <2>1. TypeOK'
    BY <1>0, <1>2 DEF Listens, TypeOK, MainGoes, report_vars
  <2>2. SessionInv'
    BY <1>0, <1>2, SessionFrame DEF Listens
  <2>3. ThreadInv'
    BY <1>0, <1>2 DEF Listens, ThreadInv, MainGoes, TypeOK
  <2>4. SummaryInv'
    BY <1>0, <1>2, SummaryFrame DEF Listens, MainGoes, report_vars, TypeOK
  <2> QED
    BY <2>1, <2>2, <2>3, <2>4 DEF RuntimeInv
<1>3. CASE StartsListener
  <2>1. TypeOK'
    BY <1>0, <1>3 DEF StartsListener, TypeOK, MainGoes, Goes, listener_vars, report_vars
  <2>2. SessionInv'
    BY <1>0, <1>3, SessionFrame DEF StartsListener, TypeOK, Goes, listener_vars
  <2>3. ThreadInv'
    BY <1>0, <1>3 DEF StartsListener, ThreadInv, MainGoes, TypeOK
  <2>4. SummaryInv'
    BY <1>0, <1>3, SummaryFrame DEF StartsListener, MainGoes, report_vars, TypeOK
  <2> QED
    BY <2>1, <2>2, <2>3, <2>4 DEF RuntimeInv
<1>4. CASE SetsStopping \/ ClosesAcceptor \/ CancelsReports \/ StopsListenerLoop
  <2>1. TypeOK'
    BY <1>0, <1>4 DEF SetsStopping, ClosesAcceptor, CancelsReports, StopsListenerLoop, Stopped,
                      TypeOK, MainGoes, listener_vars, report_vars
  <2>2. SessionInv'
    BY <1>0, <1>4, SessionFrame
    DEF SetsStopping, ClosesAcceptor, CancelsReports, StopsListenerLoop, listener_vars
  <2>3. ThreadInv'
    BY <1>0, <1>4 DEF SetsStopping, ClosesAcceptor, CancelsReports, StopsListenerLoop, Stopped,
                      ThreadInv, MainGoes, TypeOK
  <2>4. SummaryInv'
    BY <1>0, <1>4, SummaryFrame DEF SetsStopping, ClosesAcceptor, CancelsReports,
                      StopsListenerLoop, MainGoes, report_vars, TypeOK
  <2> QED
    BY <2>1, <2>2, <2>3, <2>4 DEF RuntimeInv
<1>5. CASE JoinsListener
  <2>1. TypeOK'
    BY <1>0, <1>5, <1>a DEF JoinsListener, TypeOK, listener_vars, report_vars, Shards
  <2>2. SessionInv'
    BY <1>0, <1>5, SessionFrame DEF JoinsListener, listener_vars
  <2>3. ThreadInv'
    BY <1>0, <1>5, <1>a DEF JoinsListener, Joined, ThreadInv
  <2>4. SummaryInv'
    BY <1>0, <1>5, SummaryFrame DEF JoinsListener, report_vars
  <2> QED
    BY <2>1, <2>2, <2>3, <2>4 DEF RuntimeInv
<1>6. CASE StopsShardLoop
  <2>1. TypeOK'
    BY <1>0, <1>6 DEF StopsShardLoop, Stopped, TypeOK, MainGoes, listener_vars, report_vars
  <2>2. SessionInv'
    BY <1>0, <1>6, SessionFrame DEF StopsShardLoop, listener_vars
  <2>3. ThreadInv'
    BY <1>0, <1>6 DEF StopsShardLoop, Stopped, ThreadInv, MainGoes, TypeOK
  <2>4. SummaryInv'
    BY <1>0, <1>6, SummaryFrame DEF StopsShardLoop, MainGoes, report_vars, TypeOK
  <2> QED
    BY <2>1, <2>2, <2>3, <2>4 DEF RuntimeInv
<1>7. CASE JoinsShard
  <2>1. TypeOK'
    <3>1. main' \in [pc : {"summary", "stop_shard"}, shard : Shards]
      BY <1>0, <1>7, <1>b DEF JoinsShard, TypeOK
    <3> QED
      BY <1>0, <1>7, <3>1 DEF JoinsShard, TypeOK, listener_vars, report_vars
  <2>2. SessionInv'
    BY <1>0, <1>7, SessionFrame DEF JoinsShard, listener_vars
  <2>3. ThreadInv'
    <3>1. main.shard \in Shards /\ main.shard \in Nat
      BY <1>0 DEF TypeOK
    <3>2. \A s \in Shards : s \in Nat /\ (s < main.shard + 1 => s < main.shard \/ s = main.shard)
      BY <3>1
    <3>3. \A s \in Shards : LastShard => s < main.shard \/ s = main.shard
      BY <1>a, <3>1, <3>2 DEF LastShard
    <3> QED
      BY <1>0, <1>7, <3>1, <3>2, <3>3 DEF JoinsShard, Joined, ThreadInv, TypeOK
  <2>4. SummaryInv'
    BY <1>0, <1>7, SummaryFrame DEF JoinsShard, report_vars, TypeOK
  <2> QED
    BY <2>1, <2>2, <2>3, <2>4 DEF RuntimeInv
<1>8. CASE PrintsSummary
  <2>1. TypeOK'
    BY <1>0, <1>8 DEF PrintsSummary, TypeOK, MainGoes, listener_vars
  <2>2. SessionInv'
    BY <1>0, <1>8, SessionFrame DEF PrintsSummary, listener_vars
  <2>3. ThreadInv'
    BY <1>0, <1>8 DEF PrintsSummary, ThreadInv, MainGoes, TypeOK
  <2>4. SummaryInv'
    BY <1>8 DEF PrintsSummary, SummaryInv
  <2> QED
    BY <2>1, <2>2, <2>3, <2>4 DEF RuntimeInv
<1> QED
  BY <1>1, <1>2, <1>3, <1>4, <1>5, <1>6, <1>7, <1>8 DEF MainSteps
-----------------------------------------------------------------------------
(***************************************************************************)
(* Sessions                                                                *)
(***************************************************************************)

\* Clients can be counted.
LEMMA ClientSets ==
  ASSUME NEW T \in SUBSET Clients
  PROVE  IsFiniteSet(T) /\ Cardinality(T) \in 0..NumClients
<1>1. IsFiniteSet(Clients) /\ Cardinality(Clients) = NumClients
  <2>1. 1 \in Int /\ NumClients \in Int
    BY LoopNumbers
  <2>2. IsFiniteSet(1..NumClients) /\ Cardinality(1..NumClients) = IF 1 > NumClients THEN 0 ELSE NumClients - 1 + 1
    BY <2>1, FS_Interval
  <2> QED
    BY <2>2, LoopNumbers DEF Clients
<1>2. IsFiniteSet(T) /\ Cardinality(T) <= Cardinality(Clients)
  BY <1>1, FS_Subset
<1>3. Cardinality(T) \in Nat
  BY <1>2, FS_CardinalityType
<1> QED
  BY <1>1, <1>2, <1>3, LoopNumbers

\* When one client moves, the set of the clients of s in the states X gains it,
\* loses it or stays the same.
LEMMA Moves ==
  ASSUME NEW s, NEW X, NEW c \in Clients, \A d \in Clients : d # c => conn'[d] = conn[d]
  PROVE  Cardinality(Of(s, X)') =
           Cardinality(Of(s, X)) + (IF conn'[c].at \in X /\ conn'[c].shard = s THEN 1 ELSE 0)
                                 - (IF conn[c].at \in X /\ conn[c].shard = s THEN 1 ELSE 0)
<1> DEFINE was == conn[c].at \in X /\ conn[c].shard = s
           is == conn'[c].at \in X /\ conn'[c].shard = s
           T == Of(s, X)
           U == {d \in Clients : conn'[d].shard = s /\ conn'[d].at \in X}
<1>1. U = Of(s, X)'
  BY DEF Of
<1>2. T \in SUBSET Clients /\ U \in SUBSET Clients
  BY DEF Of
<1>3. IsFiniteSet(T) /\ Cardinality(T) \in 0..NumClients
  BY <1>2, ClientSets
<1>4. (c \in T <=> was) /\ (c \in U <=> is)
  BY DEF Of
<1>5. \A d \in Clients : d # c => (d \in T <=> d \in U)
  BY DEF Of
<1>6. Cardinality(T) \in Int
  BY <1>3, LoopNumbers
<1> HIDE DEF T, U, was, is
<1>7. CASE was <=> is
  <2>1. U = T
    BY <1>2, <1>4, <1>5, <1>7
  <2> QED
    BY <1>1, <1>6, <1>7, <2>1 DEF T, was, is
<1>8. CASE is /\ ~was
  <2>1. U = T \cup {c} /\ c \notin T
    BY <1>2, <1>4, <1>5, <1>8
  <2>2. Cardinality(U) = Cardinality(T) + 1
    BY <1>3, <2>1, FS_AddElement
  <2> QED
    BY <1>1, <1>6, <1>8, <2>2 DEF T, was, is
<1>9. CASE was /\ ~is
  <2>1. U = T \ {c} /\ c \in T
    BY <1>2, <1>4, <1>5, <1>9
  <2>2. Cardinality(U) = Cardinality(T) - 1
    BY <1>3, <2>1, FS_RemoveElement
  <2> QED
    BY <1>1, <1>6, <1>9, <2>2 DEF T, was, is
<1> QED
  BY <1>7, <1>8, <1>9 DEF was, is

\* Client c of shard s moves and one counter of s follows: the counters count.
LEMMA CardsMove ==
  ASSUME TypeOK, Cards, NEW s \in Shards, NEW c \in Clients,
         \A d \in Clients : d # c => conn'[d] = conn[d],
         conn[c].shard = s, conn'[c].shard = s,
         NEW k \in Counters, NEW n \in Int, Count(s, k, n),
         \A j \in Counters :
           (IF j = k THEN n ELSE 0) = (IF conn'[c].at \in CountedIn(j) THEN 1 ELSE 0)
                                      - (IF conn[c].at \in CountedIn(j) THEN 1 ELSE 0)
  PROVE  Cards' /\ metrics' \in CounterValues
<1>1. /\ metrics \in [Shards -> [Counters -> 0..NumClients]]
      /\ metrics' = [metrics EXCEPT ![s][k] = @ + n]
  BY DEF TypeOK, CounterValues, Count
<1>2. ASSUME NEW r \in Shards, NEW j \in Counters
      PROVE  /\ metrics'[r][j] = Cardinality(Of(r, CountedIn(j))')
             /\ metrics'[r][j] \in 0..NumClients
  <2>1. Cardinality(Of(r, CountedIn(j))') =
          Cardinality(Of(r, CountedIn(j)))
            + (IF conn'[c].at \in CountedIn(j) /\ conn'[c].shard = r THEN 1 ELSE 0)
            - (IF conn[c].at \in CountedIn(j) /\ conn[c].shard = r THEN 1 ELSE 0)
    BY Moves
  <2>2. metrics[r][j] = Cardinality(Of(r, CountedIn(j))) /\ metrics[r][j] \in Int
    BY LoopNumbers, CounterTypes DEF Cards
  <2>4. metrics'[r][j] = Cardinality(Of(r, CountedIn(j))')
    <3>1. CASE r = s
      <4>1. metrics'[s][j] = metrics[s][j] + (IF j = k THEN n ELSE 0)
        BY <1>1, <2>2, <3>1
      <4> QED
        BY <2>1, <2>2, <3>1, <4>1
    <3>2. CASE r # s
      <4>1. metrics'[r][j] = metrics[r][j]
        BY <1>1, <3>2
      <4> QED
        BY <2>1, <2>2, <3>2, <4>1
    <3> QED
      BY <3>1, <3>2
  <2>5. Of(r, CountedIn(j))' \in SUBSET Clients
    BY DEF Of
  <2> QED
    BY <2>4, <2>5, ClientSets
<1>3. \A r \in Shards : metrics'[r] \in [Counters -> 0..NumClients]
  BY <1>1, <1>2
<1>4. metrics' \in CounterValues
  BY <1>1, <1>3 DEF CounterValues
<1>5. Cards'
  BY <1>2 DEF Cards
<1> QED
  BY <1>4, <1>5

\* A client that stays among the given ones of its shard leaves the deal as it is.
LEMMA DealtStays ==
  ASSUME Dealt, NEW c \in Clients, \A d \in Clients : d # c => conn'[d] = conn[d],
         conn'[c].shard = conn[c].shard, conn[c].at \in Given <=> conn'[c].at \in Given,
         next_shard' = next_shard
  PROVE  Dealt'
<1>1. ASSUME NEW s \in Shards PROVE Cardinality(Of(s, Given)') = Cardinality(Of(s, Given))
  <2>1. Of(s, Given) \in SUBSET Clients
    BY DEF Of
  <2>2. Cardinality(Of(s, Given)) \in Int
    BY <2>1, ClientSets, LoopNumbers
  <2>3. Cardinality(Of(s, Given)') =
          Cardinality(Of(s, Given))
            + (IF conn'[c].at \in Given /\ conn'[c].shard = s THEN 1 ELSE 0)
            - (IF conn[c].at \in Given /\ conn[c].shard = s THEN 1 ELSE 0)
    BY Moves
  <2> QED
    BY <2>2, <2>3
<1> QED
  BY <1>1 DEF Dealt

\* When no other client of s is in the state at, whether one is depends on c.
LEMMA SomeMove ==
  ASSUME NEW s, NEW c \in Clients, \A d \in Clients : d # c => conn'[d] = conn[d],
         conn[c].shard = s, conn'[c].shard = s,
         NEW at, \A d \in Clients : conn[d].at = at /\ conn[d].shard = s => d = c
  PROVE  /\ Some(s, at) = (IF conn[c].at = at THEN 1 ELSE 0)
         /\ Some(s, at)' = (IF conn'[c].at = at THEN 1 ELSE 0)
BY DEF Some

\* The other shards are not concerned.
LEMMA SomeElsewhere ==
  ASSUME NEW s, NEW c \in Clients, \A d \in Clients : d # c => conn'[d] = conn[d],
         conn[c].shard = s, conn'[c].shard = s, NEW r, r # s, NEW at
  PROVE  Some(r, at)' = Some(r, at)
BY DEF Some

\* One of the four steps of a session's life: from one state to the next, with the
\* counter that on_accept() or on_close() writes.
LifeStep(from, to, k, n) ==
  \/ from = "posted" /\ to = "opening" /\ k = "accepted" /\ n = 1
  \/ from = "opening" /\ to = "open" /\ k = "active" /\ n = 1
  \/ from = "open" /\ to = "closing" /\ k = "closed" /\ n = 1
  \/ from = "closing" /\ to = "closed" /\ k = "active" /\ n = -1

\* A shard's step on one of its own sessions keeps the counts of that shard and all others.
LEMMA SessionStep ==
  ASSUME RuntimeInv, NEW s \in Shards, NEW c \in Clients, NEW k, NEW n,
         LifeStep(conn[c].at, conn'[c].at, k, n), Count(s, k, n),
         \A d \in Clients : d # c => conn'[d] = conn[d],
         conn[c].shard = s, conn'[c].shard = s, conn'[c].loop = s,
         \A d \in Clients : conn[d].at \in {"opening", "closing"} /\ conn[d].shard = s => d = c,
         conn'[c].at \in {"opening", "closing"} => thread'[s] = "busy",
         \A r \in Shards : r # s => thread'[r] = thread[r],
         main.pc # "done", UNCHANGED <<next_shard, main, summary>>
  PROVE  /\ metrics' \in CounterValues
         /\ Busy' /\ Counted' /\ Cards' /\ Dealt' /\ SummaryInv'
<1>0. TypeOK /\ Busy /\ Counted /\ Cards /\ Dealt /\ SummaryInv
  BY DEF RuntimeInv, SessionInv
<1>1. k \in Counters /\ n \in Int
  BY DEF LifeStep, Counters
<1>2. Cards' /\ metrics' \in CounterValues
  <2>1. \A j \in Counters :
          (IF j = k THEN n ELSE 0) = (IF conn'[c].at \in CountedIn(j) THEN 1 ELSE 0)
                                     - (IF conn[c].at \in CountedIn(j) THEN 1 ELSE 0)
    BY DEF LifeStep, CountedIn, Begun, Counters
  <2> QED
    BY <1>0, <1>1, <2>1, CardsMove
<1>3. Dealt'
  BY <1>0, DealtStays DEF LifeStep, Given
<1>4. Busy'
  <2>1. \A d \in Clients : conn[d].shard \in Shards
    BY <1>0 DEF TypeOK
  <2> QED
    BY <1>0, <2>1 DEF Busy, LifeStep
<1>5. /\ metrics \in [Shards -> [Counters -> 0..NumClients]]
      /\ metrics' = [metrics EXCEPT ![s][k] = @ + n]
  BY <1>0 DEF TypeOK, CounterValues, Count
<1>6. \A r \in Shards : r # s => metrics'[r] = metrics[r]
  BY <1>5
<1>7. ASSUME NEW j \in Counters PROVE metrics'[s][j] = metrics[s][j] + (IF j = k THEN n ELSE 0)
  <2>1. metrics[s][j] \in Int
    BY <1>0, CounterTypes, LoopNumbers
  <2> QED
    BY <1>5, <2>1
<1>8. /\ Some(s, "opening") = (IF conn[c].at = "opening" THEN 1 ELSE 0)
      /\ Some(s, "opening")' = (IF conn'[c].at = "opening" THEN 1 ELSE 0)
      /\ Some(s, "closing") = (IF conn[c].at = "closing" THEN 1 ELSE 0)
      /\ Some(s, "closing")' = (IF conn'[c].at = "closing" THEN 1 ELSE 0)
  BY SomeMove
<1>9. /\ metrics[s]["accepted"] \in Nat /\ metrics[s]["active"] \in Nat
      /\ metrics[s]["closed"] \in Nat
  BY <1>0, CounterTypes
<1>10. \A r \in Shards : r # s => Some(r, "opening")' = Some(r, "opening")
                                  /\ Some(r, "closing")' = Some(r, "closing")
  BY SomeElsewhere
<1>11. /\ metrics'[s]["accepted"] = metrics[s]["accepted"] + (IF "accepted" = k THEN n ELSE 0)
       /\ metrics'[s]["active"] = metrics[s]["active"] + (IF "active" = k THEN n ELSE 0)
       /\ metrics'[s]["closed"] = metrics[s]["closed"] + (IF "closed" = k THEN n ELSE 0)
  BY <1>7 DEF Counters
<1>12. Counted'
  <2>1. metrics'[s]["accepted"] =
          metrics'[s]["active"] + metrics'[s]["closed"] + Some(s, "opening")' - Some(s, "closing")'
    <3>1. metrics[s]["accepted"] =
            metrics[s]["active"] + metrics[s]["closed"] + Some(s, "opening") - Some(s, "closing")
      BY <1>0 DEF Counted
    <3> QED
      BY <1>8, <1>9, <1>11, <3>1 DEF LifeStep
  <2> QED
    BY <1>0, <1>6, <1>10, <2>1 DEF Counted
<1>13. SummaryInv'
  BY DEF SummaryInv
<1> QED
  BY <1>2, <1>3, <1>4, <1>12, <1>13

\* What a queue's tail holds.
LEMMA TailHolds ==
  ASSUME NEW S, NEW q \in Seq(S), q # <<>>
  PROVE  /\ Len(q) \in Nat /\ 1 \in 1..Len(q) /\ Head(q) = q[1] /\ Head(q) \in S
         /\ Tail(q) \in Seq(S) /\ Len(Tail(q)) = Len(q) - 1
         /\ \A i \in 1..Len(Tail(q)) : i + 1 \in 1..Len(q) /\ Tail(q)[i] = q[i + 1]
OBVIOUS

\* What is queued is a client.
LEMMA QueuedClients ==
  ASSUME TypeOK, NEW s \in Shards, NEW i \in 1..Len(queue[s])
  PROVE  queue[s][i] \in Clients
<1>1. queue[s] \in Seq(Clients)
  BY DEF TypeOK
<1> QED
  BY <1>1

\* A step that leaves the queues and every posted socket alone keeps QueuedOnce.
LEMMA QueueFrame ==
  ASSUME TypeOK, QueuedOnce, queue' = queue,
         \A d \in Clients : conn[d].at = "posted" => conn'[d] = conn[d]
  PROVE  QueuedOnce'
<1>1. \A s \in Shards : \A i \in 1..Len(queue[s]) : queue[s][i] \in Clients
  BY QueuedClients
<1> QED
  BY <1>1 DEF QueuedOnce

\* What a session's step does to its connection.
LEMMA BecomesFrame ==
  ASSUME TypeOK, NEW c \in Clients,
         NEW at \in {"accepted", "open", "closing", "closed"}, Becomes(c, at)
  PROVE  /\ conn' \in [Clients -> [at : {"away", "accepted", "dropped", "posted", "opening",
                                         "open", "closing", "closed"},
                                   shard : Shards, loop : Loops]]
         /\ conn'[c].at = at /\ conn'[c].shard = conn[c].shard /\ conn'[c].loop = conn[c].loop
         /\ \A d \in Clients : d # c => conn'[d] = conn[d]
BY DEF TypeOK, Becomes

\* The adopted socket's session takes the client at the head of the shard's queue.
LEMMA SessionStartsKeeps ==
  ASSUME RuntimeInv, NEW s \in Shards, SessionStarts(s)
  PROVE  RuntimeInv'
<1> DEFINE c == Head(queue[s])
<1>0. TypeOK /\ SessionInv /\ ThreadInv /\ QueuedOnce /\ Busy
  BY DEF RuntimeInv, SessionInv
<1>1. s \in Loops /\ s # Listener
  BY LoopNumbers
<1>2. queue[s] \in Seq(Clients) /\ queue[s] # <<>>
  BY <1>0 DEF TypeOK, SessionStarts
<1>3. /\ Len(queue[s]) \in Nat /\ 1 \in 1..Len(queue[s]) /\ c = queue[s][1] /\ c \in Clients
      /\ Tail(queue[s]) \in Seq(Clients) /\ Len(Tail(queue[s])) = Len(queue[s]) - 1
      /\ \A i \in 1..Len(Tail(queue[s])) :
           i + 1 \in 1..Len(queue[s]) /\ Tail(queue[s])[i] = queue[s][i + 1]
  BY <1>2, TailHolds
<1>4. conn[c].at = "posted" /\ conn[c].shard = s
  BY <1>0, <1>3 DEF QueuedOnce
<1>5. /\ conn' = [conn EXCEPT ![c].at = "opening", ![c].loop = s]
      /\ queue' = [queue EXCEPT ![s] = Tail(@)]
      /\ thread[s] = "idle"
  BY DEF SessionStarts, AdoptedBy, InLoop
<1> HIDE DEF c
<1>6. /\ conn' \in [Clients -> [at : {"away", "accepted", "dropped", "posted", "opening",
                                         "open", "closing", "closed"},
                                   shard : Shards, loop : Loops]]
      /\ conn'[c].at = "opening" /\ conn'[c].shard = s /\ conn'[c].loop = s
      /\ \A d \in Clients : d # c => conn'[d] = conn[d]
  BY <1>0, <1>1, <1>3, <1>4, <1>5 DEF TypeOK
<1>7. queue' \in [Shards -> Seq(Clients)] /\ queue'[s] = Tail(queue[s])
      /\ \A r \in Shards : r # s => queue'[r] = queue[r]
  BY <1>0, <1>3, <1>5 DEF TypeOK
<1>8. thread'[s] = "busy" /\ \A t \in Loops : t # s => thread'[t] = thread[t]
  BY <1>0, <1>1, GoesFrame DEF SessionStarts
<1>9. QueuedOnce'
  <2>1. ASSUME NEW r \in Shards, r # s, NEW i \in 1..Len(queue[r])
        PROVE  conn'[queue[r][i]] = conn[queue[r][i]]
    <3>1. queue[r][i] \in Clients
      BY <1>0, QueuedClients
    <3>2. conn[queue[r][i]].shard = r
      BY <1>0 DEF QueuedOnce
    <3> QED
      BY <1>4, <1>6, <2>1, <3>1, <3>2
  <2>2. ASSUME NEW i \in 1..Len(Tail(queue[s]))
        PROVE  /\ conn'[Tail(queue[s])[i]].at = "posted" /\ conn'[Tail(queue[s])[i]].shard = s
               /\ \A j \in 1..Len(Tail(queue[s])) :
                    Tail(queue[s])[j] = Tail(queue[s])[i] => j = i
    <3>1. i + 1 \in 1..Len(queue[s]) /\ i \in Nat /\ i + 1 # 1
      BY <1>3
    <3>2. Tail(queue[s])[i] = queue[s][i + 1]
      BY <1>3
    <3>3. /\ conn[queue[s][i + 1]].at = "posted" /\ conn[queue[s][i + 1]].shard = s
          /\ \A j \in 1..Len(queue[s]) : queue[s][j] = queue[s][i + 1] => j = i + 1
      BY <1>0, <3>1 DEF QueuedOnce
    <3>4. queue[s][i + 1] # c /\ queue[s][i + 1] \in Clients
      BY <1>0, <1>3, <3>1, <3>3, QueuedClients
    <3>5. conn'[queue[s][i + 1]] = conn[queue[s][i + 1]]
      BY <1>6, <3>4
    <3>6. ASSUME NEW j \in 1..Len(Tail(queue[s])), Tail(queue[s])[j] = Tail(queue[s])[i]
          PROVE  j = i
      <4>1. j + 1 \in 1..Len(queue[s]) /\ Tail(queue[s])[j] = queue[s][j + 1] /\ j \in Int
        BY <1>3
      <4>2. j + 1 = i + 1
        BY <3>2, <3>3, <3>6, <4>1
      <4> QED
        BY <3>1, <4>1, <4>2
    <3> QED
      BY <3>2, <3>3, <3>5, <3>6
  <2>3. ASSUME NEW r \in Shards, r # s, NEW i \in 1..Len(queue[r])
        PROVE  /\ conn'[queue[r][i]].at = "posted" /\ conn'[queue[r][i]].shard = r
               /\ \A j \in 1..Len(queue[r]) : queue[r][j] = queue[r][i] => j = i
    <3>1. conn'[queue[r][i]] = conn[queue[r][i]]
      BY <2>1, <2>3
    <3> QED
      BY <1>0, <3>1 DEF QueuedOnce
  <2>4. ASSUME NEW r \in Shards, NEW i \in 1..Len(queue'[r])
        PROVE  /\ conn'[queue'[r][i]].at = "posted" /\ conn'[queue'[r][i]].shard = r
               /\ \A j \in 1..Len(queue'[r]) : queue'[r][j] = queue'[r][i] => j = i
    <3>1. CASE r = s
      BY <1>7, <2>2, <2>4, <3>1
    <3>2. CASE r # s
      BY <1>7, <2>3, <2>4, <3>2
    <3> QED
      BY <3>1, <3>2
  <2> QED
    BY <2>4 DEF QueuedOnce
<1>10. main.pc # "done"
  BY <1>0, <1>5 DEF ThreadInv
<1>11. /\ metrics' \in CounterValues
       /\ Busy' /\ Counted' /\ Cards' /\ Dealt' /\ SummaryInv'
  <2>1. LifeStep(conn[c].at, conn'[c].at, "accepted", 1) /\ Count(s, "accepted", 1)
    BY <1>4, <1>6 DEF LifeStep, SessionStarts
  <2>2. \A d \in Clients : conn[d].at \in {"opening", "closing"} /\ conn[d].shard = s => d = c
    BY <1>0, <1>5 DEF Busy
  <2>3. \A r \in Shards : r # s => thread'[r] = thread[r]
    BY <1>8, LoopNumbers
  <2>4. UNCHANGED <<next_shard, main, summary>>
    BY DEF SessionStarts, listener_vars, report_vars
  <2> QED
    BY <1>3, <1>4, <1>6, <1>8, <1>10, <2>1, <2>2, <2>3, <2>4, SessionStep
<1>12. ThreadInv'
  BY <1>0, <1>5, <1>8, ThreadFrame DEF SessionStarts
<1>13. TypeOK'
  BY <1>0, <1>1, <1>6, <1>7, <1>11
  DEF SessionStarts, TypeOK, Goes, listener_vars, report_vars
<1> QED
  BY <1>9, <1>11, <1>12, <1>13 DEF RuntimeInv, SessionInv

\* The other three steps of a session.
LEMMA SessionGoesOn ==
  ASSUME RuntimeInv, NEW t \in Loops, NEW c \in Clients,
         (t \in Shards /\ SessionStarted(t, c)) \/ SessionEnds(t, c) \/ SessionEnded(t, c)
  PROVE  RuntimeInv'
<1>0. TypeOK /\ SessionInv /\ ThreadInv /\ QueuedOnce /\ Busy
  BY DEF RuntimeInv, SessionInv
<1>1. conn[c].shard = t /\ conn[c].at \in Begun /\ conn[c].loop = t /\ t \in Shards
  <2>1. conn[c].shard \in Shards
    BY <1>0 DEF TypeOK
  <2> QED
    BY <1>0, <2>1 DEF Busy, Begun, SessionStarted, SessionEnds, SessionEnded
<1>2. PICK at \in {"open", "closing", "closed"}, k \in Counters, n \in Int :
        /\ LifeStep(conn[c].at, at, k, n) /\ Becomes(c, at) /\ Count(t, k, n)
        /\ at = "closing" => Goes(t, "busy")
  <2>1. CASE SessionStarted(t, c)
    BY <2>1 DEF SessionStarted, LifeStep, Counters
  <2>2. CASE SessionEnds(t, c)
    BY <1>1, <2>2 DEF SessionEnds, LifeStep, Counters
  <2>3. CASE SessionEnded(t, c)
    <3>1. -1 \in Int
      OBVIOUS
    <3> QED
      BY <1>1, <2>3, <3>1 DEF SessionEnded, LifeStep, Counters
  <2> QED
    BY <2>1, <2>2, <2>3
<1>3. /\ conn' \in [Clients -> [at : {"away", "accepted", "dropped", "posted", "opening",
                                         "open", "closing", "closed"},
                                   shard : Shards, loop : Loops]]
      /\ conn'[c].at = at /\ conn'[c].shard = t /\ conn'[c].loop = t
      /\ \A d \in Clients : d # c => conn'[d] = conn[d]
  <2>1. at \in {"accepted", "open", "closing", "closed"}
    OBVIOUS
  <2> QED
    BY <1>0, <1>1, <1>2, <2>1, BecomesFrame
<1>4. \E pc \in {"busy", "idle"} : Goes(t, pc)
  BY DEF SessionStarted, SessionEnds, SessionEnded
<1>5. \A u \in Loops : u # t => thread'[u] = thread[u]
  BY <1>0, <1>4, GoesFrame
<1>6. thread[t] \in {"busy", "idle"}
  BY DEF SessionStarted, SessionEnds, SessionEnded, InLoop
<1>7. at = "closing" => thread'[t] = "busy"
  BY <1>0, <1>2, GoesFrame
<1>8. main.pc # "done"
  BY <1>0, <1>1, <1>6 DEF ThreadInv
<1>9. UNCHANGED <<next_shard, main, summary, stopped, queue>>
  BY DEF SessionStarted, SessionEnds, SessionEnded, listener_vars, report_vars
<1>10. \A d \in Clients : conn[d].at \in {"opening", "closing"} /\ conn[d].shard = t => d = c
  <2>1. CASE conn[c].at \in {"opening", "closing"}
    BY <1>0, <1>1, <2>1 DEF Busy
  <2>2. CASE SessionEnds(t, c)
    BY <1>0, <2>2 DEF Busy, SessionEnds, InLoop
  <2> QED
    BY <2>1, <2>2 DEF SessionStarted, SessionEnded
<1>11. /\ metrics' \in CounterValues
       /\ Busy' /\ Counted' /\ Cards' /\ Dealt' /\ SummaryInv'
  <2>1. \A r \in Shards : r # t => thread'[r] = thread[r]
    BY <1>5, LoopNumbers
  <2>2. conn'[c].at \in {"opening", "closing"} => thread'[t] = "busy"
    BY <1>3, <1>7
  <2>3. LifeStep(conn[c].at, conn'[c].at, k, n) /\ Count(t, k, n)
    BY <1>2, <1>3
  <2> QED
    BY <1>1, <1>3, <1>8, <1>9, <1>10, <2>1, <2>2, <2>3, SessionStep
<1>12. QueuedOnce'
  BY <1>0, <1>1, <1>3, <1>9, QueueFrame DEF Begun
<1>13. ThreadInv'
  BY <1>0, <1>5, <1>6, <1>9, ThreadFrame
<1>14. TypeOK'
  BY <1>0, <1>3, <1>4, <1>9, <1>11
  DEF SessionStarted, SessionEnds, SessionEnded, TypeOK, Goes, listener_vars, report_vars
<1> QED
  BY <1>11, <1>12, <1>13, <1>14 DEF RuntimeInv, SessionInv

\* A thread begins or leaves its loop.
LEMMA LoopKeeps ==
  ASSUME RuntimeInv, NEW t \in Loops, (t \in Shards /\ ShardRuns(t)) \/ Exit(t)
  PROVE  RuntimeInv'
<1>0. TypeOK /\ SessionInv /\ ThreadInv /\ SummaryInv
  BY DEF RuntimeInv
<1>1. thread[t] \in {"starting", "idle"}
  BY DEF ShardRuns, Exit
<1>2. \A u \in Loops : u # t => thread'[u] = thread[u]
  BY <1>0, GoesFrame DEF ShardRuns, Exit
<1>3. UNCHANGED <<conn, metrics, queue, next_shard, main, stopped, summary>>
  BY DEF ShardRuns, Exit, listener_vars, report_vars
<1>4. SessionInv'
  BY <1>0, <1>1, <1>2, <1>3, LoopNumbers, SessionFrame
<1>5. ThreadInv'
  BY <1>0, <1>1, <1>2, <1>3, ThreadFrame
<1>6. SummaryInv'
  BY <1>0, <1>3, SummaryFrame
<1>7. TypeOK'
  BY <1>0 DEF ShardRuns, Exit, Goes, TypeOK, listener_vars, report_vars
<1> QED
  BY <1>4, <1>5, <1>6, <1>7 DEF RuntimeInv
-----------------------------------------------------------------------------
(***************************************************************************)
(* The listener's thread, and the environment                              *)
(***************************************************************************)

\* Clients whose session has not begun may change without being counted.
LEMMA BegunFrame ==
  ASSUME TypeOK, SessionInv, metrics' = metrics,
         \A s \in Shards : thread'[s] = thread[s],
         \A c \in Clients : \/ conn'[c] = conn[c]
                            \/ conn[c].at \notin Begun /\ conn'[c].at \notin Begun
  PROVE  Busy' /\ Counted' /\ Cards'
<1>1. \A s : /\ Of(s, CountedIn("accepted"))' = Of(s, CountedIn("accepted"))
             /\ Of(s, CountedIn("active"))' = Of(s, CountedIn("active"))
             /\ Of(s, CountedIn("closed"))' = Of(s, CountedIn("closed"))
  BY DEF Of, CountedIn, Begun
<1>2. \A s : Some(s, "opening")' = Some(s, "opening") /\ Some(s, "closing")' = Some(s, "closing")
  BY DEF Some, Begun
<1>3. Busy'
  <2>1. \A d \in Clients : conn[d].shard \in Shards
    BY DEF TypeOK
  <2> QED
    BY <2>1 DEF SessionInv, Busy, Begun
<1>4. Counted'
  BY <1>2 DEF SessionInv, Counted
<1>5. Cards'
  BY <1>1 DEF SessionInv, Cards, Counters
<1> QED
  BY <1>3, <1>4, <1>5

\* Before a socket is posted it concerns no shard.
Outside == {"away", "accepted", "dropped"}

\* Clients that no shard has been given move freely.
LEMMA OutsideFrame ==
  ASSUME TypeOK, SessionInv, UNCHANGED <<metrics, queue, next_shard>>,
         \A s \in Shards : thread'[s] = thread[s],
         \A c \in Clients : \/ conn'[c] = conn[c]
                            \/ conn[c].at \in Outside /\ conn'[c].at \in Outside
  PROVE  SessionInv'
<1>1. \A s : Of(s, Given)' = Of(s, Given)
  BY DEF Of, Given, Outside
<1>2. Busy' /\ Counted' /\ Cards'
  <2>1. \A c \in Clients : \/ conn'[c] = conn[c]
                           \/ conn[c].at \notin Begun /\ conn'[c].at \notin Begun
    BY DEF Outside, Begun
  <2> QED
    BY <2>1, BegunFrame
<1>3. QueuedOnce'
  BY QueueFrame DEF SessionInv, Outside
<1>4. Dealt'
  BY <1>1 DEF SessionInv, Dealt
<1> QED
  BY <1>2, <1>3, <1>4 DEF SessionInv

\* Steps of the listener's thread that hand over no socket.
LEMMA ListenerKeeps ==
  ASSUME RuntimeInv, ListenerRuns \/ SeesRunning \/ Rearms \/ TimerHandler \/ Reports
  PROVE  RuntimeInv'
<1>0. TypeOK /\ SessionInv /\ ThreadInv /\ SummaryInv /\ Listener \in Loops
  BY LoopNumbers DEF RuntimeInv
<1>1. thread[Listener] \in {"starting", "idle", "rearming", "reporting"}
  BY DEF ListenerRuns, SeesRunning, Rearms, TimerHandler, Reports, InLoop
<1>2. \A u \in Loops : u # Listener => thread'[u] = thread[u]
  BY <1>0, GoesFrame DEF ListenerRuns, SeesRunning, Rearms, TimerHandler, Reports
<1>3. UNCHANGED <<conn, metrics, queue, next_shard, main, stopped, summary>>
  BY DEF ListenerRuns, SeesRunning, Rearms, TimerHandler, Reports, listener_vars, report_vars
<1>4. SessionInv'
  BY <1>0, <1>2, <1>3, LoopNumbers, SessionFrame
<1>5. ThreadInv'
  BY <1>0, <1>1, <1>2, <1>3, ThreadFrame
<1>6. SummaryInv'
  BY <1>0, <1>3, SummaryFrame
<1>7. TypeOK'
  BY <1>0 DEF ListenerRuns, SeesRunning, Rearms, TimerHandler, Reports, Goes, TypeOK, listener_vars,
              report_vars
<1> QED
  BY <1>4, <1>5, <1>6, <1>7 DEF RuntimeInv

\* The environment, and an accept that the stopping listener drops.
LEMMA EnvironmentKeeps ==
  ASSUME RuntimeInv, Environment \/ SeesStopping
  PROVE  RuntimeInv'
<1>0. TypeOK /\ SessionInv /\ ThreadInv /\ SummaryInv
  BY DEF RuntimeInv
<1>1. CASE Signal
  <2>1. TypeOK'
    BY <1>0, <1>1 DEF Signal, TypeOK, MainGoes, listener_vars, report_vars
  <2>2. SessionInv'
    BY <1>0, <1>1, SessionFrame DEF Signal, listener_vars
  <2>3. ThreadInv'
    BY <1>0, <1>1 DEF Signal, ThreadInv, MainGoes, TypeOK
  <2>4. SummaryInv'
    BY <1>0, <1>1, SummaryFrame DEF Signal, MainGoes, report_vars, TypeOK
  <2> QED
    BY <2>1, <2>2, <2>3, <2>4 DEF RuntimeInv
<1>2. CASE AcceptFails \/ IntervalEnds
  <2>1. TypeOK'
    BY <1>0, <1>2 DEF AcceptFails, IntervalEnds, TypeOK, listener_vars, report_vars
  <2>2. SessionInv'
    BY <1>0, <1>2, SessionFrame DEF AcceptFails, IntervalEnds, listener_vars
  <2>3. ThreadInv'
    BY <1>0, <1>2, ThreadFrame DEF AcceptFails, IntervalEnds
  <2>4. SummaryInv'
    BY <1>0, <1>2, SummaryFrame DEF AcceptFails, IntervalEnds, report_vars
  <2> QED
    BY <2>1, <2>2, <2>3, <2>4 DEF RuntimeInv
<1>3. CASE (\E c \in Clients : ClientArrives(c)) \/ SeesStopping
  <2>1. \A d \in Clients : \/ conn'[d] = conn[d]
                           \/ conn[d].at \in Outside /\ conn'[d].at \in Outside
    <3>1. ASSUME NEW c \in Clients, ClientArrives(c)
          PROVE  /\ conn[c].at = "away" /\ conn'[c].at = "accepted"
                 /\ \A d \in Clients : d # c => conn'[d] = conn[d]
      BY <1>0, <3>1, BecomesFrame DEF ClientArrives
    <3>2. ASSUME SeesStopping, NEW d \in Clients
          PROVE  \/ conn'[d] = conn[d]
                 \/ conn[d].at = "accepted" /\ conn'[d].at = "dropped"
      <4>1. conn[d] \in [at : {"away", "accepted", "dropped", "posted", "opening", "open",
                              "closing", "closed"}, shard : Shards, loop : Loops]
        BY <1>0 DEF TypeOK
      <4>2. conn'[d] = IF conn[d].at = "accepted" THEN [conn[d] EXCEPT !.at = "dropped"]
                       ELSE conn[d]
        BY <3>2 DEF SeesStopping
      <4>3. CASE conn[d].at = "accepted"
        <5>1. conn'[d] = [conn[d] EXCEPT !.at = "dropped"]
          BY <4>2, <4>3
        <5>2. conn'[d].at = "dropped"
          BY <4>1, <5>1
        <5> QED
          BY <4>3, <5>2
      <4>4. CASE conn[d].at # "accepted"
        BY <4>2, <4>4
      <4> QED
        BY <4>3, <4>4
    <3> QED
      BY <1>3, <3>1, <3>2 DEF Outside
  <2>2. UNCHANGED <<main, thread, stopped, metrics, queue, next_shard, summary>>
    BY <1>3 DEF ClientArrives, SeesStopping, report_vars
  <2>3. SessionInv'
    BY <1>0, <2>1, <2>2, OutsideFrame
  <2>4. ThreadInv'
    BY <1>0, <2>2, ThreadFrame
  <2>5. SummaryInv'
    BY <1>0, <2>2, SummaryFrame
  <2>6. conn' \in [Clients -> [at : {"away", "accepted", "dropped", "posted", "opening",
                                     "open", "closing", "closed"},
                               shard : Shards, loop : Loops]]
    <3>1. ASSUME NEW c \in Clients, ClientArrives(c)
          PROVE  conn' \in [Clients -> [at : {"away", "accepted", "dropped", "posted", "opening",
                                     "open", "closing", "closed"},
                               shard : Shards, loop : Loops]]
      BY <1>0, <3>1, BecomesFrame DEF ClientArrives
    <3>2. CASE SeesStopping
      BY <1>0, <3>2 DEF SeesStopping, TypeOK
    <3> QED
      BY <1>3, <3>1, <3>2
  <2>7. TypeOK'
    BY <1>0, <1>3, <2>2, <2>6 DEF ClientArrives, SeesStopping, TypeOK, report_vars
  <2> QED
    BY <2>3, <2>4, <2>5, <2>7 DEF RuntimeInv
<1> QED
  BY <1>1, <1>2, <1>3 DEF Environment

\* What a queue holds after Append.
LEMMA AppendHolds ==
  ASSUME NEW S, NEW q \in Seq(S), NEW c \in S
  PROVE  /\ Len(q) \in Nat /\ Append(q, c) \in Seq(S) /\ Len(Append(q, c)) = Len(q) + 1
         /\ \A i \in 1..Len(q) : Append(q, c)[i] = q[i]
         /\ Append(q, c)[Len(q) + 1] = c
         /\ \A i \in 1..(Len(q) + 1) : i \in 1..Len(q) \/ i = Len(q) + 1
OBVIOUS

\* Round robin: the turn passes on, and from the last shard back to the first.
LEMMA TurnPasses ==
  ASSUME next_shard \in Shards
  PROVE  /\ AfterHandOff = IF next_shard = NumShards - 1 THEN 0 ELSE next_shard + 1
         /\ AfterHandOff \in Shards
<1>1. next_shard \in Int /\ 0 <= next_shard /\ next_shard < NumShards
  BY LoopNumbers DEF Shards
<1>2. CASE next_shard = NumShards - 1
  <2>1. next_shard + 1 = NumShards
    BY <1>1, <1>2, LoopNumbers
  <2>2. NumShards % NumShards = 0
    BY LoopNumbers
  <2> QED
    BY <1>2, <2>1, <2>2, LoopNumbers DEF AfterHandOff, Shards
<1>3. CASE next_shard # NumShards - 1
  <2>1. next_shard + 1 \in 0..(NumShards - 1)
    BY <1>1, <1>3, LoopNumbers
  <2>2. (next_shard + 1) % NumShards = next_shard + 1
    BY <2>1, LoopNumbers
  <2> QED
    BY <1>3, <2>1, <2>2 DEF AfterHandOff, Shards
<1> QED
  BY <1>2, <1>3

\* The socket posted to the shard whose turn it is.
LEMMA PostKeeps ==
  ASSUME TypeOK, SessionInv, NEW c \in Clients, conn[c].at = "accepted",
         conn' = [conn EXCEPT ![c].at = "posted", ![c].shard = next_shard],
         queue' = [queue EXCEPT ![next_shard] = Posted(next_shard, c)],
         next_shard' = AfterHandOff, metrics' = metrics,
         \A s \in Shards : thread'[s] = thread[s]
  PROVE  /\ SessionInv' /\ queue' \in [Shards -> Seq(Clients)]
         /\ conn' \in [Clients -> [at : {"away", "accepted", "dropped", "posted", "opening",
                                         "open", "closing", "closed"},
                                   shard : Shards, loop : Loops]]
<1> DEFINE n == next_shard
<1>0. QueuedOnce /\ Dealt /\ n \in Shards /\ queue[n] \in Seq(Clients)
  BY DEF SessionInv, TypeOK
<1>1. /\ conn' \in [Clients -> [at : {"away", "accepted", "dropped", "posted", "opening",
                                         "open", "closing", "closed"},
                                   shard : Shards, loop : Loops]]
      /\ conn'[c].at = "posted" /\ conn'[c].shard = n
      /\ \A d \in Clients : d # c => conn'[d] = conn[d]
  BY <1>0 DEF TypeOK
<1>2. /\ Len(queue[n]) \in Nat /\ Append(queue[n], c) \in Seq(Clients)
      /\ Len(Append(queue[n], c)) = Len(queue[n]) + 1
      /\ \A i \in 1..Len(queue[n]) : Append(queue[n], c)[i] = queue[n][i]
      /\ Append(queue[n], c)[Len(queue[n]) + 1] = c
      /\ \A i \in 1..(Len(queue[n]) + 1) : i \in 1..Len(queue[n]) \/ i = Len(queue[n]) + 1
  BY <1>0, AppendHolds
<1>3. /\ queue' \in [Shards -> Seq(Clients)]
      /\ queue'[n] = Append(queue[n], c)
      /\ \A r \in Shards : r # n => queue'[r] = queue[r]
  BY <1>0, <1>2 DEF TypeOK, Posted
<1>4. Busy' /\ Counted' /\ Cards'
  <2>1. \A d \in Clients : \/ conn'[d] = conn[d]
                           \/ conn[d].at \notin Begun /\ conn'[d].at \notin Begun
    BY <1>1 DEF Begun
  <2> QED
    BY <2>1, BegunFrame
<1> HIDE DEF n
<1>5. QueuedOnce'
  <2>1. ASSUME NEW r \in Shards, NEW i \in 1..Len(queue[r])
        PROVE  /\ conn'[queue[r][i]].at = "posted" /\ conn'[queue[r][i]].shard = r
               /\ queue[r][i] # c
               /\ \A j \in 1..Len(queue[r]) : queue[r][j] = queue[r][i] => j = i
    <3>1. /\ conn[queue[r][i]].at = "posted" /\ conn[queue[r][i]].shard = r
          /\ \A j \in 1..Len(queue[r]) : queue[r][j] = queue[r][i] => j = i
      BY <1>0 DEF QueuedOnce
    <3>2. queue[r][i] \in Clients /\ queue[r][i] # c
      BY <3>1, QueuedClients
    <3>3. conn'[queue[r][i]] = conn[queue[r][i]]
      BY <1>1, <3>2
    <3> QED
      BY <3>1, <3>2, <3>3
  <2>2. ASSUME NEW r \in Shards, NEW i \in 1..Len(queue'[r])
        PROVE  /\ conn'[queue'[r][i]].at = "posted" /\ conn'[queue'[r][i]].shard = r
               /\ \A j \in 1..Len(queue'[r]) : queue'[r][j] = queue'[r][i] => j = i
    <3>1. CASE r # n
      <4>1. queue'[r] = queue[r]
        BY <1>3, <3>1
      <4>2. i \in 1..Len(queue[r])
        BY <2>2, <4>1
      <4>3. /\ conn'[queue[r][i]].at = "posted" /\ conn'[queue[r][i]].shard = r
            /\ \A j \in 1..Len(queue[r]) : queue[r][j] = queue[r][i] => j = i
        BY <2>1, <4>2
      <4> QED
        BY <4>1, <4>3
    <3>2. CASE r = n /\ i \in 1..Len(queue[n])
      <4>1. queue'[n][i] = queue[n][i]
        BY <1>2, <1>3, <3>2
      <4>2. /\ conn'[queue[n][i]].at = "posted" /\ conn'[queue[n][i]].shard = n
            /\ queue[n][i] # c
            /\ \A j \in 1..Len(queue[n]) : queue[n][j] = queue[n][i] => j = i
        BY <2>1, <3>2
      <4>3. ASSUME NEW j \in 1..Len(queue'[n]), queue'[n][j] = queue[n][i] PROVE j = i
        BY <1>2, <1>3, <4>2, <4>3
      <4> QED
        BY <3>2, <4>1, <4>2, <4>3
    <3>3. CASE r = n /\ i = Len(queue[n]) + 1
      <4>1. queue'[n][i] = c
        BY <1>2, <1>3, <3>3
      <4>2. ASSUME NEW j \in 1..Len(queue'[n]), queue'[n][j] = c PROVE j = i
        <5>1. CASE j \in 1..Len(queue[n])
          <6>1. queue'[n][j] = queue[n][j] /\ queue[n][j] # c
            BY <1>0, <1>2, <1>3, <2>1, <3>3, <5>1
          <6> QED
            BY <4>2, <6>1
        <5> QED
          BY <1>2, <1>3, <3>3, <5>1
      <4> QED
        BY <1>1, <3>3, <4>1, <4>2
    <3> QED
      BY <1>2, <1>3, <2>2, <3>1, <3>2, <3>3
  <2> QED
    BY <2>2 DEF QueuedOnce
<1>6. Dealt'
  <2>1. PICK q \in Nat :
          \A s \in Shards : Cardinality(Of(s, Given)) = q + (IF s < next_shard THEN 1 ELSE 0)
    BY <1>0 DEF Dealt
  <2>2. ASSUME NEW s \in Shards
        PROVE  Cardinality(Of(s, Given)') = q + (IF s < n \/ s = n THEN 1 ELSE 0)
    <3>1. Cardinality(Of(s, Given)') =
            Cardinality(Of(s, Given))
              + (IF conn'[c].at \in Given /\ conn'[c].shard = s THEN 1 ELSE 0)
              - (IF conn[c].at \in Given /\ conn[c].shard = s THEN 1 ELSE 0)
      BY <1>1, Moves
    <3>2. conn'[c].at \in Given /\ conn[c].at \notin Given
      BY <1>1 DEF Given
    <3>3. Cardinality(Of(s, Given)') = Cardinality(Of(s, Given)) + (IF s = n THEN 1 ELSE 0)
      <4>1. Cardinality(Of(s, Given)) \in Int
        BY <2>1
      <4> QED
        BY <1>1, <3>1, <3>2, <4>1
    <3>4. Cardinality(Of(s, Given)) = q + (IF s < n THEN 1 ELSE 0)
      BY <2>1 DEF n
    <3>5. s \in Int /\ n \in Int
      BY <1>0, LoopNumbers
    <3> QED
      BY <3>3, <3>4, <3>5
  <2>3. AfterHandOff = IF n = NumShards - 1 THEN 0 ELSE n + 1
    BY <1>0, TurnPasses DEF n
  <2>4. \A s \in Shards : s \in Nat /\ s <= NumShards - 1
    BY LoopNumbers DEF Shards
  <2>5. n \in Nat
    BY <1>0, LoopNumbers
  <2>6. CASE n = NumShards - 1
    <3>1. \A s \in Shards : Cardinality(Of(s, Given)') = (q + 1) + (IF s < next_shard' THEN 1 ELSE 0)
      BY <2>2, <2>3, <2>4, <2>5, <2>6, LoopNumbers
    <3>2. q + 1 \in Nat
      OBVIOUS
    <3> QED
      BY <3>1, <3>2 DEF Dealt
  <2>7. CASE n # NumShards - 1
    <3>1. \A s \in Shards : Cardinality(Of(s, Given)') = q + (IF s < next_shard' THEN 1 ELSE 0)
      BY <2>2, <2>3, <2>4, <2>5, <2>7, LoopNumbers
    <3> QED
      BY <3>1 DEF Dealt
  <2> QED
    BY <2>6, <2>7
<1> QED
  BY <1>1, <1>3, <1>4, <1>5, <1>6 DEF SessionInv

\* The listener posts the accepted socket to the next shard's loop.
LEMMA HandsOverKeeps ==
  ASSUME RuntimeInv, HandsOver
  PROVE  RuntimeInv'
<1>0. TypeOK /\ SessionInv /\ ThreadInv /\ SummaryInv /\ Listener \in Loops
  BY LoopNumbers DEF RuntimeInv
<1>1. thread[Listener] = "handing_over" /\ \A u \in Loops : u # Listener => thread'[u] = thread[u]
  BY <1>0, GoesFrame DEF HandsOver
<1>2. \A s \in Shards : thread'[s] = thread[s]
  BY <1>1, LoopNumbers
<1>3. UNCHANGED <<main, stopped, metrics, summary>>
  BY DEF HandsOver, report_vars
<1>4. ThreadInv'
  BY <1>0, <1>1, <1>3, ThreadFrame
<1>5. CASE accept = "ready"
  <2>1. PICK c \in Clients :
          /\ conn[c].at = "accepted"
          /\ conn' = [conn EXCEPT ![c].at = "posted", ![c].shard = next_shard]
          /\ queue' = [queue EXCEPT ![next_shard] = Posted(next_shard, c)]
          /\ next_shard' = AfterHandOff
    BY <1>5 DEF HandsOver
  <2>2. /\ SessionInv' /\ queue' \in [Shards -> Seq(Clients)]
        /\ conn' \in [Clients -> [at : {"away", "accepted", "dropped", "posted", "opening",
                                        "open", "closing", "closed"},
                                  shard : Shards, loop : Loops]]
    BY <1>0, <1>2, <1>3, <2>1, PostKeeps
  <2>3. SummaryInv'
    BY <1>0, <1>3, SummaryFrame
  <2>4. next_shard' \in Shards
    BY <1>0, <2>1, TurnPasses DEF TypeOK
  <2>5. TypeOK'
    BY <1>0, <1>3, <2>2, <2>4 DEF HandsOver, AfterAccept, Goes, TypeOK, report_vars
  <2> QED
    BY <1>4, <2>2, <2>3, <2>5 DEF RuntimeInv
<1>6. CASE accept # "ready"
  <2>1. UNCHANGED <<conn, queue, next_shard>>
    BY <1>6 DEF HandsOver
  <2>2. SessionInv'
    BY <1>0, <1>2, <1>3, <2>1, SessionFrame
  <2>3. SummaryInv'
    BY <1>0, <1>3, <2>1, SummaryFrame
  <2>4. TypeOK'
    BY <1>0, <1>3, <2>1 DEF HandsOver, AfterAccept, Goes, TypeOK, report_vars
  <2> QED
    BY <1>4, <2>2, <2>3, <2>4 DEF RuntimeInv
<1> QED
  BY <1>5, <1>6

-----------------------------------------------------------------------------
(***************************************************************************)
(* The theorems                                                            *)
(***************************************************************************)
LEMMA RuntimeInit == Init => RuntimeInv
<1> SUFFICES ASSUME Init PROVE RuntimeInv
  OBVIOUS
<1> USE LoopNumbers
<1>1. Zeros \in CounterValues /\ 0 \in Shards
  BY DEF Zeros, CounterValues, Shards
<1>2. TypeOK
  <2>1. queue \in [Shards -> Seq(Clients)]
    BY DEF Init
  <2>2. conn \in [Clients -> [at : {"away"}, shard : Shards, loop : Loops]]
    BY <1>1 DEF Init
  <2> QED
    BY <1>1, <2>1, <2>2 DEF Init, TypeOK
<1>3. \A c \in Clients : conn[c].at = "away"
  BY DEF Init
<1>4. QueuedOnce
  BY DEF Init, QueuedOnce
<1>5. Busy
  BY <1>3 DEF Busy, Begun
<1>6. \A s : Of(s, Given) = {} /\ \A k : Of(s, CountedIn(k)) = {}
  BY <1>3 DEF Of, Given, CountedIn, Begun
<1>7. Cardinality({}) = 0
  BY FS_EmptySet
<1>8. \A s \in Shards, k \in Counters : metrics[s][k] = 0
  BY DEF Init, Zeros
<1>9. Counted
  <2>1. \A s : Some(s, "opening") = 0 /\ Some(s, "closing") = 0
    BY <1>3 DEF Some
  <2> QED
    BY <1>8, <2>1 DEF Counted, Counters
<1>10. Cards
  BY <1>6, <1>7, <1>8 DEF Cards
<1>11. Dealt
  <2>1. \A s \in Shards : Cardinality(Of(s, Given)) = 0 + (IF s < next_shard THEN 1 ELSE 0)
    <3>1. \A s \in Shards : ~(s < next_shard)
      BY DEF Init
    <3> QED
      BY <1>6, <1>7, <3>1
  <2> QED
    BY <2>1 DEF Dealt
<1>12. ThreadInv
  BY DEF Init, ThreadInv
<1>13. SummaryInv
  BY DEF Init, SummaryInv
<1> QED
  BY <1>2, <1>4, <1>5, <1>9, <1>10, <1>11, <1>12, <1>13 DEF RuntimeInv, SessionInv

\* One case per thread: main, the shards, the listener's loop, the clients.
LEMMA RuntimeStep == RuntimeInv /\ [Next]_vars => RuntimeInv'
<1> SUFFICES ASSUME RuntimeInv, [Next]_vars PROVE RuntimeInv'
  OBVIOUS
<1>1. CASE MainSteps
  BY <1>1, MainKeeps
<1>2. CASE \E s \in Shards : ShardSteps(s)
  <2>1. PICK s \in Shards : ShardSteps(s)
    BY <1>2
  <2>2. s \in Loops
    BY LoopNumbers
  <2> QED
    BY <2>1, <2>2, LoopKeeps, SessionStartsKeeps, SessionGoesOn DEF ShardSteps
<1>3. CASE ListenerSteps
  BY <1>3, ListenerKeeps, EnvironmentKeeps, HandsOverKeeps
  DEF ListenerSteps, AcceptHandler
<1>4. CASE \E t \in Loops : \/ Exit(t)
                            \/ \E c \in Clients : SessionEnds(t, c) \/ SessionEnded(t, c)
  BY <1>4, LoopKeeps, SessionGoesOn
<1>5. CASE Environment
  BY <1>5, EnvironmentKeeps
<1>6. CASE UNCHANGED vars
  <2>1. UNCHANGED <<main, thread, stopped, queue, conn, metrics, next_shard, summary>>
    BY <1>6 DEF vars, listener_vars, report_vars
  <2>2. TypeOK'
    BY <1>6 DEF RuntimeInv, TypeOK, vars, listener_vars, report_vars
  <2>3. SessionInv' /\ ThreadInv' /\ SummaryInv'
    BY <2>1, SessionFrame, ThreadFrame, SummaryFrame DEF RuntimeInv
  <2> QED
    BY <2>2, <2>3 DEF RuntimeInv
<1> QED
  BY <1>1, <1>2, <1>3, <1>4, <1>5, <1>6 DEF Next

\* RuntimeInv holds throughout every behaviour of the gateway's threads, whatever
\* the number of shards and clients.
THEOREM RuntimeInvariant == Spec => []RuntimeInv
BY RuntimeInit, RuntimeStep, PTL DEF Spec

\* Every variable keeps its type: next_shard_ stays an index of shards_, and no
\* counter goes below zero or above the number of connections.
THEOREM TypeCorrect == Spec => []TypeOK
<1>1. RuntimeInv => TypeOK
  BY DEF RuntimeInv
<1> QED
  BY <1>1, RuntimeInvariant, PTL

\* The handlers of one shard's sessions never overlap: adopt_socket() has bound
\* each socket to its shard's loop, and that loop has one thread.
THEOREM ShardsShareNothing == Spec => []OneThreadPerShard
<1>1. RuntimeInv => OneThreadPerShard
  <2> SUFFICES ASSUME RuntimeInv, NEW s \in Shards
               PROVE  Cardinality(Of(s, {"opening", "closing"})) <= 1
    BY DEF OneThreadPerShard
  <2>1. CASE Of(s, {"opening", "closing"}) = {}
    BY <2>1, FS_EmptySet
  <2>2. CASE \E c : c \in Of(s, {"opening", "closing"})
    <3>1. PICK c : c \in Of(s, {"opening", "closing"})
      BY <2>2
    <3>2. Of(s, {"opening", "closing"}) = {c}
      BY <3>1 DEF RuntimeInv, SessionInv, Busy, Of
    <3>3. Cardinality({c}) = 1
      BY FS_Singleton
    <3> QED
      BY <3>2, <3>3
  <2> QED
    BY <2>1, <2>2
<1> QED
  BY <1>1, RuntimeInvariant, PTL

\* Listener::do_accept() deals the sockets out evenly, through accept errors and
\* whatever the shards do.
THEOREM DealtEvenly == Spec => []Balanced
<1>1. RuntimeInv => Balanced
  <2> SUFFICES ASSUME RuntimeInv, NEW s \in Shards, NEW t \in Shards
               PROVE  Cardinality(Of(s, Given)) <= Cardinality(Of(t, Given)) + 1
    BY DEF Balanced, Given
  <2>1. PICK q \in Nat :
          \A r \in Shards : Cardinality(Of(r, Given)) = q + (IF r < next_shard THEN 1 ELSE 0)
    BY DEF RuntimeInv, SessionInv, Dealt
  <2>2. /\ Cardinality(Of(s, Given)) = q + (IF s < next_shard THEN 1 ELSE 0)
        /\ Cardinality(Of(t, Given)) = q + (IF t < next_shard THEN 1 ELSE 0)
    BY <2>1
  <2> QED
    BY <2>2
<1> QED
  BY <1>1, RuntimeInvariant, PTL

\* The summary that is printed after stop() is exact, per shard and per counter: no
\* session is between its two counters when the threads have been joined.
THEOREM SummaryIsExact == Spec => []SummaryExact
<1>1. RuntimeInv => SummaryExact
  <2> SUFFICES ASSUME RuntimeInv, main.pc = "done", NEW s \in Shards
               PROVE  /\ summary[s]["accepted"] = summary[s]["active"] + summary[s]["closed"]
                      /\ summary[s]["active"] = Cardinality(Of(s, {"open"}))
                      /\ summary[s]["closed"] = Cardinality(Of(s, {"closed"}))
    BY DEF SummaryExact
  <2>0. TypeOK /\ Busy /\ Counted /\ Cards /\ summary = metrics /\ thread[s] = "exited"
    BY DEF RuntimeInv, SessionInv, SummaryInv, ThreadInv
  <2>1. \A c \in Clients : conn[c].shard = s => conn[c].at \notin {"opening", "closing"}
    BY <2>0 DEF Busy
  <2>2. Some(s, "opening") = 0 /\ Some(s, "closing") = 0
    BY <2>1 DEF Some
  <2>3. metrics[s]["accepted"] =
          metrics[s]["active"] + metrics[s]["closed"] + Some(s, "opening") - Some(s, "closing")
    BY <2>0 DEF Counted
  <2>4. metrics[s]["active"] \in Nat /\ metrics[s]["closed"] \in Nat
    BY <2>0, CounterTypes
  <2>5. /\ CountedIn("active") = {"open", "closing"} /\ "active" \in Counters
        /\ CountedIn("closed") = {"closing", "closed"} /\ "closed" \in Counters
    BY DEF CountedIn, Counters
  <2>6. /\ Of(s, {"open", "closing"}) = Of(s, {"open"})
        /\ Of(s, {"closing", "closed"}) = Of(s, {"closed"})
    BY <2>1 DEF Of
  <2>7. /\ metrics[s]["active"] = Cardinality(Of(s, {"open"}))
        /\ metrics[s]["closed"] = Cardinality(Of(s, {"closed"}))
    <3>1. /\ metrics[s]["active"] = Cardinality(Of(s, CountedIn("active")))
          /\ metrics[s]["closed"] = Cardinality(Of(s, CountedIn("closed")))
      BY <2>0, <2>5 DEF Cards
    <3> QED
      BY <2>5, <2>6, <3>1
  <2> QED
    BY <2>0, <2>2, <2>3, <2>4, <2>7
<1> QED
  BY <1>1, RuntimeInvariant, PTL

\* No socket is posted to a loop that will not run again: stop() joins the listener
\* before it stops the first shard.
THEOREM PostsAreServed == Spec => NoPostToStopped
<1> DEFINE Post == \A s \in Shards : Len(queue'[s]) > Len(queue[s]) => ~stopped[s]
<1>1. RuntimeInv /\ [Next]_vars => [Post]_vars
  <2> SUFFICES ASSUME RuntimeInv, Next, NEW s \in Shards, Len(queue'[s]) > Len(queue[s])
               PROVE  ~stopped[s]
    OBVIOUS
  <2>0. TypeOK /\ ThreadInv /\ Len(queue[s]) \in Nat
    BY DEF RuntimeInv, TypeOK
  <2>1. queue' # queue
    BY <2>0
  <2>2. CASE HandsOver
    BY <2>0, <2>2 DEF HandsOver, ThreadInv
  <2>3. ASSUME NEW t \in Shards, SessionStarts(t) PROVE FALSE
    <3>1. queue[t] \in Seq(Clients) /\ queue[t] # <<>> /\ queue' = [queue EXCEPT ![t] = Tail(@)]
      BY <2>0, <2>3 DEF TypeOK, SessionStarts
    <3>2. Len(Tail(queue[t])) = Len(queue[t]) - 1 /\ Len(queue[t]) \in Nat
      BY <3>1, TailHolds
    <3> QED
      BY <2>0, <3>1, <3>2 DEF TypeOK
  <2> QED
    BY <2>1, <2>2, <2>3
    DEF Next, MainSteps, StartsShard, Listens, StartsListener, SetsStopping, ClosesAcceptor,
        CancelsReports, StopsListenerLoop, JoinsListener, StopsShardLoop, JoinsShard,
        PrintsSummary, ShardSteps, ShardRuns, SessionStarted, ListenerSteps, ListenerRuns,
        AcceptHandler, SeesRunning, SeesStopping, Rearms, TimerHandler, Reports,
        Exit, SessionEnds, SessionEnded, Environment, Signal, ClientArrives, AcceptFails,
        IntervalEnds
<1> QED
  BY <1>1, RuntimeInvariant, PTL DEF Spec, NoPostToStopped
=============================================================================
