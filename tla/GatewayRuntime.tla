--------------------------- MODULE GatewayRuntime ---------------------------
(***************************************************************************)
(* The threads of the gateway (src/runtime): the main thread that starts   *)
(* and stops everything (GatewayRuntime), one thread and event loop per    *)
(* GatewayShard, and one for the Listener, which the MetricsAggregator     *)
(* shares.                                                                 *)
(*                                                                         *)
(* A step is what a thread does between two points where another thread    *)
(* can see a difference: stop() runs against handlers that are half done,  *)
(* with one of a session's two counters moved and the other not.  A        *)
(* session is reduced to its beginning and its end; HttpSession has the    *)
(* rest.                                                                   *)
(*                                                                         *)
(* The counters are relaxed atomics.  The shard that owns them sees its    *)
(* own updates in order, and so does the main thread once it has joined    *)
(* the shard's.  What a periodic report loads in between has no order to   *)
(* rely on: the values are printed and nothing depends on them, so they    *)
(* are left out of the model.                                              *)
(***************************************************************************)
EXTENDS Integers, Sequences, FiniteSets

CONSTANTS
  NumShards,   \* config.shard_count
  NumClients   \* connections that may arrive

ASSUME RuntimeAssumption == NumShards \in Nat \ {0} /\ NumClients \in Nat

Clients == 1..NumClients

Shards == 0..(NumShards - 1)

\* Threads and loops: one per shard, named like it, and the listener's.
Listener == NumShards
Loops == 0..NumShards

VARIABLES
  main,        \* the main thread: what it does next, and to which shard
  thread,      \* per loop: what its thread is doing
  stopped,     \* per loop: io_context::stop() has been called
  queue,       \* per shard: sockets in the tasks accept_from() has posted
  conn,        \* per client: how far its connection is, the shard it was given
               \* to, and the loop its socket is bound to
  accept,      \* async_accept: "none", "armed", or completed with its handler
               \* queued: "ready" (a socket) or "error"
  listening,   \* the acceptor is open
  stopping,    \* Listener::stopping_
  next_shard,  \* Listener::next_shard_
  reporting,   \* interval_seconds_ # 0
  timer,       \* the aggregator's: "null", "idle", "armed", or completed with its
               \* handler queued: "expired" or "cancelled"
  metrics,     \* per shard: the connection counters of LocalMetrics
  summary      \* per shard: what print_metrics_summary() prints of them

listener_vars == <<accept, listening, stopping, next_shard>>
report_vars == <<reporting, timer, summary>>
vars == <<main, thread, stopped, queue, conn, listener_vars, metrics, report_vars>>

Counters == {"accepted", "active", "closed"}
Zeros == [s \in Shards |-> [k \in Counters |-> 0]]

Init ==
  /\ main = [pc |-> "start_shard", shard |-> 0]
  /\ thread = [t \in Loops |-> "unborn"]
  /\ stopped = [t \in Loops |-> FALSE]
  /\ queue = [s \in Shards |-> <<>>]
  /\ conn = [c \in Clients |-> [at |-> "away", shard |-> 0, loop |-> Listener]]
  /\ accept = "none" /\ listening = FALSE /\ stopping = FALSE /\ next_shard = 0
  /\ reporting \in BOOLEAN /\ timer = "null"
  /\ metrics = Zeros /\ summary = Zeros

Goes(t, pc) == thread' = [thread EXCEPT ![t] = pc]
MainGoes(pc) == main' = [main EXCEPT !.pc = pc]
Becomes(c, at) == conn' = [conn EXCEPT ![c].at = at]
-----------------------------------------------------------------------------
(***************************************************************************)
(* Event loops (BoostEventLoop).  A thread that is "idle" is inside        *)
(* io_context::run(), between two handlers.  A loop that has been stopped  *)
(* runs no further handler, also when it was stopped before run().         *)
(***************************************************************************)
InLoop(t) == thread[t] = "idle" /\ ~stopped[t]

Exit(t) ==
  /\ thread[t] = "idle" /\ stopped[t]
  /\ Goes(t, "exited")
  /\ UNCHANGED <<main, stopped, queue, conn, listener_vars, metrics, report_vars>>

MutantStopped(t) == stopped

\* stop(): the work guard is released and the loop stopped, from another thread.
Stopped(t) == [stopped EXCEPT ![t] = TRUE]

MutantJoined(t) == thread[t] # "unborn"

\* thread::join()
Joined(t) == thread[t] = "exited"

MutantPosted(s, c) == IF thread[s] = "idle" THEN Append(queue[s], c) ELSE queue[s]

\* post(): also to a loop that does not run yet, or no longer.
Posted(s, c) == Append(queue[s], c)
-----------------------------------------------------------------------------
(***************************************************************************)
(* GatewayShard                                                            *)
(***************************************************************************)

\* The thread pins itself, resolves its upstreams (blocking) and enters run().
ShardRuns(s) ==
  /\ thread[s] = "starting"
  /\ Goes(s, "idle")
  /\ UNCHANGED <<main, stopped, queue, conn, listener_vars, metrics, report_vars>>

MutantAdoptedBy(s) == Listener

\* adopt_socket(): the socket is bound anew to the loop that adopts it, and its
\* completions run there from now on.
AdoptedBy(s) == s

Count(s, k, n) == metrics' = [metrics EXCEPT ![s][k] = @ + n]

\* The task of accept_from(): adopt_socket(), dispatch_accept(), session->start(),
\* which counts first in connections_accepted and then in connections_active.
SessionStarts(s) ==
  /\ InLoop(s) /\ queue[s] # <<>>
  /\ LET c == Head(queue[s])
     IN conn' = [conn EXCEPT ![c].at = "opening", ![c].loop = AdoptedBy(s)]
  /\ queue' = [queue EXCEPT ![s] = Tail(@)]
  /\ Count(s, "accepted", 1)
  /\ Goes(s, "busy")
  /\ UNCHANGED <<main, stopped, listener_vars, report_vars>>

SessionStarted(s, c) ==
  /\ thread[s] = "busy" /\ conn[c].at = "opening" /\ conn[c].shard = s
  /\ Becomes(c, "open")
  /\ Count(s, "active", 1)
  /\ Goes(s, "idle")
  /\ UNCHANGED <<main, stopped, queue, listener_vars, report_vars>>

\* A completion of the session's socket runs on the thread of the loop the socket
\* is bound to and ends the session: close() counts in connections_closed first.
SessionEnds(t, c) ==
  /\ InLoop(t) /\ conn[c].at = "open" /\ conn[c].loop = t
  /\ Becomes(c, "closing")
  /\ Count(conn[c].shard, "closed", 1)
  /\ Goes(t, "busy")
  /\ UNCHANGED <<main, stopped, queue, listener_vars, report_vars>>

SessionEnded(t, c) ==
  /\ thread[t] = "busy" /\ conn[c].at = "closing" /\ conn[c].loop = t
  /\ Becomes(c, "closed")
  /\ Count(conn[c].shard, "active", -1)
  /\ Goes(t, "idle")
  /\ UNCHANGED <<main, stopped, queue, listener_vars, report_vars>>
-----------------------------------------------------------------------------
(***************************************************************************)
(* Listener                                                                *)
(***************************************************************************)

\* External: the kernel completes the accept, with a connection or an error.
\* Clients are told apart by the order in which they are accepted.
ClientArrives(c) ==
  /\ accept = "armed" /\ listening
  /\ conn[c].at = "away" /\ \A d \in 1..(c - 1) : conn[d].at # "away"
  /\ accept' = "ready"
  /\ Becomes(c, "accepted")
  /\ UNCHANGED <<main, thread, stopped, queue, listening, stopping, next_shard, metrics,
                 report_vars>>

AcceptFails ==
  /\ accept = "armed" /\ listening
  /\ accept' = "error"
  /\ UNCHANGED <<main, thread, stopped, queue, conn, listening, stopping, next_shard,
                 metrics, report_vars>>

MutantAfterHandOff == next_shard

MutantNoWrap == next_shard + 1

AfterHandOff == (next_shard + 1) % NumShards

\* The accept handler looks at stopping_ once, and then acts on what it saw.
SeesRunning ==
  /\ InLoop(Listener) /\ accept \in {"ready", "error"} /\ ~stopping
  /\ Goes(Listener, "handing_over")
  /\ UNCHANGED <<main, stopped, queue, conn, listener_vars, metrics, report_vars>>

MutantAfterAccept == IF accept = "ready" THEN "rearming" ELSE "idle"

\* Whatever the accept brought, do_accept() comes next.
AfterAccept == "rearming"

\* The socket goes to the next shard in turn; an error is logged.
HandsOver ==
  /\ thread[Listener] = "handing_over"
  /\ IF accept = "ready"
     THEN \E c \in Clients :
            /\ conn[c].at = "accepted"
            /\ conn' = [conn EXCEPT ![c].at = "posted", ![c].shard = next_shard]
            /\ queue' = [queue EXCEPT ![next_shard] = Posted(next_shard, c)]
            /\ next_shard' = AfterHandOff
     ELSE UNCHANGED <<conn, queue, next_shard>>
  /\ accept' = "none"
  /\ Goes(Listener, AfterAccept)
  /\ UNCHANGED <<main, stopped, listening, stopping, metrics, report_vars>>

\* The handler of an accept that finds stopping_ set: a socket it was given is destroyed.
SeesStopping ==
  /\ InLoop(Listener) /\ accept \in {"ready", "error"} /\ stopping
  /\ conn' = [c \in Clients |->
                IF conn[c].at = "accepted" THEN [conn[c] EXCEPT !.at = "dropped"] ELSE conn[c]]
  /\ accept' = "none"
  /\ UNCHANGED <<main, thread, stopped, queue, listening, stopping, next_shard, metrics,
                 report_vars>>

\* async_accept() on an open acceptor waits, on a closed one it fails at once.
\* While the main thread is inside close() the two calls race on the acceptor: the
\* operation is registered, fails, or is lost with the descriptor's old state.
Rearms ==
  /\ thread[Listener] = "rearming"
  /\ accept' \in IF main.pc = "closing" THEN {"armed", "error", "none"}
                  ELSE {IF listening THEN "armed" ELSE "error"}
  /\ Goes(Listener, "idle")
  /\ UNCHANGED <<main, stopped, queue, conn, listening, stopping, next_shard, metrics,
                 report_vars>>
-----------------------------------------------------------------------------
(***************************************************************************)
(* MetricsAggregator                                                       *)
(***************************************************************************)

\* The listener's thread: metrics_aggregator_->start(), then run().
ListenerRuns ==
  /\ thread[Listener] = "starting"
  /\ timer' = IF reporting THEN "armed" ELSE "null"
  /\ Goes(Listener, "idle")
  /\ UNCHANGED <<main, stopped, queue, conn, listener_vars, metrics, reporting,
                 summary>>

\* External: the interval is over.
IntervalEnds ==
  /\ timer = "armed"
  /\ timer' = "expired"
  /\ UNCHANGED <<main, thread, stopped, queue, conn, listener_vars, metrics, reporting,
                 summary>>

\* The timer's handler returns when the timer was cancelled, and reports otherwise.
TimerHandler ==
  /\ InLoop(Listener) /\ timer \in {"expired", "cancelled"}
  /\ timer' = "idle"
  /\ Goes(Listener, IF timer = "expired" THEN "reporting" ELSE "idle")
  /\ UNCHANGED <<main, stopped, queue, conn, listener_vars, metrics, reporting,
                 summary>>

\* report_now() loads the counters of every shard and prints the sums, schedule()
\* arms the timer again, also when the main thread has meanwhile cancelled it.
Reports ==
  /\ thread[Listener] = "reporting"
  /\ timer' = "armed"
  /\ Goes(Listener, "idle")
  /\ UNCHANGED <<main, stopped, queue, conn, listener_vars, metrics, reporting, summary>>
-----------------------------------------------------------------------------
(***************************************************************************)
(* GatewayRuntime, on the main thread                                      *)
(***************************************************************************)
LastShard == main.shard = NumShards - 1

\* start(): a thread for each shard in turn ...
StartsShard ==
  /\ main.pc = "start_shard"
  /\ Goes(main.shard, "starting")
  /\ main' = IF LastShard THEN [pc |-> "listen", shard |-> 0]
             ELSE [main EXCEPT !.shard = @ + 1]
  /\ UNCHANGED <<stopped, queue, conn, listener_vars, metrics, report_vars>>

\* ... then the acceptor, with its first async_accept() ...
Listens ==
  /\ main.pc = "listen"
  /\ listening' = TRUE /\ accept' = "armed"
  /\ MainGoes("spawn_listener")
  /\ UNCHANGED <<thread, stopped, queue, conn, stopping, next_shard, metrics, report_vars>>

\* ... and last the listener's thread.
StartsListener ==
  /\ main.pc = "spawn_listener"
  /\ Goes(Listener, "starting")
  /\ MainGoes("serving")
  /\ UNCHANGED <<stopped, queue, conn, listener_vars, metrics, report_vars>>

\* External: run_until_signal() returns from its wait.
Signal ==
  /\ main.pc = "serving"
  /\ MainGoes("stop")
  /\ UNCHANGED <<thread, stopped, queue, conn, listener_vars, metrics, report_vars>>

\* stop(): Listener::stop() sets stopping_, then closes the acceptor, which
\* completes an accept that is waiting.
SetsStopping ==
  /\ main.pc = "stop"
  /\ stopping' = TRUE
  /\ MainGoes("closing")
  /\ UNCHANGED <<thread, stopped, queue, conn, accept, listening, next_shard, metrics,
                 report_vars>>

ClosesAcceptor ==
  /\ main.pc = "closing"
  /\ listening' = FALSE
  /\ accept' = IF accept = "armed" THEN "error" ELSE accept
  /\ MainGoes("cancel_reports")
  /\ UNCHANGED <<thread, stopped, queue, conn, stopping, next_shard, metrics, report_vars>>

\* MetricsAggregator::stop(): cancel() reaches a wait in progress, not a handler
\* that is already queued; a timer the listener's thread has not made yet is missed.
CancelsReports ==
  /\ main.pc = "cancel_reports"
  /\ timer' = IF timer = "armed" THEN "cancelled" ELSE timer
  /\ MainGoes("stop_listener")
  /\ UNCHANGED <<thread, stopped, queue, conn, listener_vars, metrics, reporting,
                 summary>>

StopsListenerLoop ==
  /\ main.pc = "stop_listener"
  /\ stopped' = Stopped(Listener)
  /\ MainGoes("join_listener")
  /\ UNCHANGED <<thread, queue, conn, listener_vars, metrics, report_vars>>

JoinsListener ==
  /\ main.pc = "join_listener" /\ Joined(Listener)
  /\ main' = [pc |-> "stop_shard", shard |-> 0]
  /\ UNCHANGED <<thread, stopped, queue, conn, listener_vars, metrics, report_vars>>

\* GatewayShard::stop(), for each shard in turn.  Sessions that are open then are
\* neither closed nor counted as closed.
StopsShardLoop ==
  /\ main.pc = "stop_shard"
  /\ stopped' = Stopped(main.shard)
  /\ MainGoes("join_shard")
  /\ UNCHANGED <<thread, queue, conn, listener_vars, metrics, report_vars>>

JoinsShard ==
  /\ main.pc = "join_shard" /\ Joined(main.shard)
  /\ main' = IF LastShard THEN [main EXCEPT !.pc = "summary"]
             ELSE [pc |-> "stop_shard", shard |-> main.shard + 1]
  /\ UNCHANGED <<thread, stopped, queue, conn, listener_vars, metrics, report_vars>>

\* print_metrics_summary(), when every thread has been joined: the joins make the
\* last value of each counter the one that is loaded.
PrintsSummary ==
  /\ main.pc = "summary"
  /\ summary' = metrics
  /\ MainGoes("done")
  /\ UNCHANGED <<thread, stopped, queue, conn, listener_vars, metrics, reporting, timer>>
-----------------------------------------------------------------------------
MainSteps ==
  \/ StartsShard \/ Listens \/ StartsListener
  \/ SetsStopping \/ ClosesAcceptor \/ CancelsReports
  \/ StopsListenerLoop \/ JoinsListener
  \/ StopsShardLoop \/ JoinsShard
  \/ PrintsSummary

ShardSteps(s) ==
  \/ ShardRuns(s)
  \/ SessionStarts(s)
  \/ \E c \in Clients : SessionStarted(s, c)

AcceptHandler == SeesRunning \/ SeesStopping

ListenerSteps ==
  \/ ListenerRuns
  \/ AcceptHandler \/ HandsOver \/ Rearms
  \/ TimerHandler \/ Reports

Environment == \/ Signal
               \/ \E c \in Clients : ClientArrives(c)
               \/ AcceptFails
               \/ IntervalEnds

Next ==
  \/ MainSteps
  \/ \E s \in Shards : ShardSteps(s)
  \/ ListenerSteps
  \/ \E t \in Loops : \/ Exit(t)
                      \/ \E c \in Clients : SessionEnds(t, c) \/ SessionEnded(t, c)
  \/ Environment

\* Every thread makes progress with what it has to do.  An io_context runs its
\* handlers in the order they were queued, so a queued accept handler is not
\* passed over for ever in favour of reports.  No fairness for the environment:
\* clients need not come, a session need not end, the signal need not be sent.
Fairness ==
  /\ WF_vars(MainSteps)
  /\ \A s \in Shards : WF_vars(ShardSteps(s))
  /\ WF_vars(ListenerSteps) /\ SF_vars(AcceptHandler)
  /\ \A t \in Loops : WF_vars(Exit(t)) /\ WF_vars(\E c \in Clients : SessionEnded(t, c))

Spec == Init /\ [][Next]_vars /\ Fairness
-----------------------------------------------------------------------------
CounterValues == [Shards -> [Counters -> 0..NumClients]]

TypeOK ==
  /\ main \in [pc : {"start_shard", "listen", "spawn_listener", "serving", "stop", "closing",
                     "cancel_reports", "stop_listener", "join_listener", "stop_shard",
                     "join_shard", "summary", "done"},
               shard : Shards]
  /\ thread \in [Loops -> {"unborn", "starting", "idle", "busy", "handing_over", "rearming",
                           "reporting", "exited"}]
  /\ stopped \in [Loops -> BOOLEAN]
  /\ queue \in [Shards -> Seq(Clients)]
  /\ conn \in [Clients -> [at : {"away", "accepted", "dropped", "posted", "opening", "open",
                                 "closing", "closed"},
                           shard : Shards, loop : Loops]]
  /\ accept \in {"none", "armed", "ready", "error"}
  /\ listening \in BOOLEAN /\ stopping \in BOOLEAN /\ next_shard \in Shards
  /\ reporting \in BOOLEAN /\ timer \in {"null", "idle", "armed", "expired", "cancelled"}
  /\ metrics \in CounterValues /\ summary \in CounterValues

Of(s, states) == {c \in Clients : conn[c].shard = s /\ conn[c].at \in states}

\* The rule the shards stand on (net/event_loop.hpp, IEventLoop): no two handlers
\* of sessions of one shard ever run at the same time, whichever thread runs them.
\* It is adopt_socket() that makes it true: an accepted socket is bound to the
\* listener's loop.
OneThreadPerShard == \A s \in Shards : Cardinality(Of(s, {"opening", "closing"})) <= 1

\* Listener::do_accept() hands sockets out evenly, through accept errors and
\* whatever the shards are doing: no shard is ever two ahead of another.
Balanced ==
  LET given(s) == Cardinality(Of(s, {"posted", "opening", "open", "closing", "closed"}))
  IN \A s, s2 \in Shards : given(s) <= given(s2) + 1

\* print_metrics_summary() after stop() is exact: it counts as active the sessions
\* that stop() abandoned, as closed those that ended, as accepted both, and a socket
\* whose task the shard never ran not at all.
SummaryExact ==
  main.pc = "done" =>
    \A s \in Shards :
      /\ summary[s]["accepted"] = summary[s]["active"] + summary[s]["closed"]
      /\ summary[s]["active"] = Cardinality(Of(s, {"open"}))
      /\ summary[s]["closed"] = Cardinality(Of(s, {"closed"}))

\* GatewayRuntime::stop() joins the listener before it stops a shard, so no socket
\* is handed to a loop that will not run again.
NoPostToStopped == [][\A s \in Shards : Len(queue'[s]) > Len(queue[s]) => ~stopped[s]]_vars

\* GatewayRuntime::stop() returns: wherever the handlers, the accept and the report
\* are when the signal comes, every thread can be joined.
StopTerminates == main.pc = "stop" ~> main.pc = "done"

\* A socket the listener accepted becomes a session on its shard, also when the
\* shard is still resolving its upstreams, unless the gateway is being stopped.
SocketServed ==
  \A c \in Clients :
    conn[c].at = "accepted" ~> conn[c].at \in {"opening", "open", "closing", "closed"} \/ stopping

\* Listener::do_accept() never gives up: once the acceptor is open an accept is
\* always armed again, after an error like after a socket, until stop().
KeepsAccepting == listening ~> accept = "armed" \/ stopping
=============================================================================
