--------------------------- MODULE RaceWithTimeout ---------------------------
(***************************************************************************)
(* net::race_with_timeout (src/net/race_with_timeout.cpp), used by         *)
(* UpstreamManager::connect_fresh: an operation races a timer, and the     *)
(* winner cancels the loser and calls on_done.                             *)
(*                                                                         *)
(* The completion of an operation, or of the timer, and the run of its     *)
(* handler are two steps: between them the handler sits in the loop's      *)
(* queue with its outcome fixed, and a cancel() comes too late for it.     *)
(***************************************************************************)
EXTENDS Naturals

CONSTANT Races   \* operations, each with its timer

VARIABLES
  timer,     \* per race: "idle", "armed", "expired" (handler queued without
             \* error), "cancelled" (handler queued with an error), "ran"
  op,        \* per race: "idle", "running", "ok", "failed", "aborted" (the last
             \* three: handler queued with this outcome), "ran"
  finished,  \* per race: *done, shared by the two handlers
  calls      \* per race: how often on_done was called with which result

vars == <<timer, op, finished, calls>>

Results == {"ok", "failed", "timeout"}

Init ==
  /\ timer = [r \in Races |-> "idle"]
  /\ op = [r \in Races |-> "idle"]
  /\ finished = [r \in Races |-> FALSE]
  /\ calls = [r \in Races |-> [x \in Results |-> 0]]

CallsOnDone(r, x) == calls' = [calls EXCEPT ![r][x] = @ + 1]

\* ITimer::cancel(): a timer that has not expired completes with an error.
CancelTimer(t) == IF t = "armed" THEN "cancelled" ELSE t

MutantCancelOp(o) == o

\* ISocket::cancel(): a connect that has not completed is aborted.
CancelOp(o) == IF o = "running" THEN "aborted" ELSE o

\* The timer is armed before the operation starts.
Start(r) ==
  /\ timer[r] = "idle"
  /\ timer' = [timer EXCEPT ![r] = "armed"]
  /\ op' = [op EXCEPT ![r] = "running"]
  /\ UNCHANGED <<finished, calls>>

\* start_op calls back before it returns: async_connect on an address it cannot
\* parse.
StartFails(r) ==
  /\ timer[r] = "idle"
  /\ timer' = [timer EXCEPT ![r] = CancelTimer("armed")]
  /\ op' = [op EXCEPT ![r] = "ran"]
  /\ finished' = [finished EXCEPT ![r] = TRUE]
  /\ CallsOnDone(r, "failed")

\* External: the clock, and the operation itself.
TimerExpires(r) ==
  /\ timer[r] = "armed"
  /\ timer' = [timer EXCEPT ![r] = "expired"]
  /\ UNCHANGED <<op, finished, calls>>

OpCompletes(r) ==
  /\ op[r] = "running"
  /\ \E x \in {"ok", "failed"} : op' = [op EXCEPT ![r] = x]
  /\ UNCHANGED <<timer, finished, calls>>

MutantTimerLost(r) == timer[r] = "cancelled"

\* The timer's handler returns at once if the operation was first or the timer
\* was cancelled.
TimerLost(r) == finished[r] \/ timer[r] = "cancelled"

TimerHandler(r) ==
  /\ timer[r] \in {"expired", "cancelled"}
  /\ timer' = [timer EXCEPT ![r] = "ran"]
  /\ IF TimerLost(r)
     THEN UNCHANGED <<op, finished, calls>>
     ELSE /\ finished' = [finished EXCEPT ![r] = TRUE]
          /\ op' = [op EXCEPT ![r] = CancelOp(@)]
          /\ CallsOnDone(r, "timeout")

OpHandler(r) ==
  /\ op[r] \in {"ok", "failed", "aborted"}
  /\ op' = [op EXCEPT ![r] = "ran"]
  /\ IF finished[r]
     THEN UNCHANGED <<timer, finished, calls>>
     ELSE /\ finished' = [finished EXCEPT ![r] = TRUE]
          /\ timer' = [timer EXCEPT ![r] = CancelTimer(@)]
          /\ CallsOnDone(r, IF op[r] = "ok" THEN "ok" ELSE "failed")

Next ==
  \E r \in Races :
    \/ Start(r) \/ StartFails(r)
    \/ TimerExpires(r) \/ OpCompletes(r)
    \/ TimerHandler(r) \/ OpHandler(r)

\* The clock runs and the loop runs queued handlers; the operation itself may
\* never complete.
Fairness ==
  \A r \in Races : /\ WF_vars(TimerExpires(r))
                   /\ WF_vars(TimerHandler(r))
                   /\ WF_vars(OpHandler(r))

Spec == Init /\ [][Next]_vars /\ Fairness
-----------------------------------------------------------------------------
\* Types of the four functions.
TypeOK ==
  /\ timer \in [Races -> {"idle", "armed", "expired", "cancelled", "ran"}]
  /\ op \in [Races -> {"idle", "running", "ok", "failed", "aborted", "ran"}]
  /\ finished \in [Races -> BOOLEAN]
  /\ calls \in [Races -> [Results -> Nat]]

Delivered(r) == calls[r]["ok"] + calls[r]["failed"] + calls[r]["timeout"]

\* on_done is called once in all, also when the deadline and the completion are
\* both queued before either handler runs: UpstreamManager moves the socket and
\* the session's continuation out on the first call.
CalledAtMostOnce == \A r \in Races : Delivered(r) <= 1

\* The inductive form: the done flag is set exactly when on_done has been called,
\* and until then both the timer and the operation still have a handler to run.
OnceInv ==
  \A r \in Races :
    /\ Delivered(r) = (IF finished[r] THEN 1 ELSE 0)
    /\ ~finished[r] /\ timer[r] # "idle" =>
         timer[r] \in {"armed", "expired"} /\ op[r] \in {"running", "ok", "failed"}
    /\ timer[r] = "idle" => op[r] = "idle" /\ ~finished[r]

Once == INSTANCE OneShot WITH
  begun <- {r \in Races : timer[r] # "idle"},
  results <- [r \in Races |-> {x \in Results : calls[r][x] > 0}]

\* race_with_timeout implements OneShot, liveness included: a connect to a server
\* that never answers ends too.
ImplementsOneShot == Once!Spec

\* The loser is not left behind: after on_done both handlers run and release the
\* socket and the timer they share.
LoserIsCancelled ==
  \A r \in Races : finished[r] ~> timer[r] = "ran" /\ op[r] = "ran"
=============================================================================
