--------------------------- MODULE BodyFilterGate ---------------------------
(***************************************************************************)
(* BodyFilterGate (src/filter/body_filter_gate.hpp) over a filter chain of *)
(* which only the verdict on a chunk is visible: "continue", "stop" (stop  *)
(* the iteration and buffer) or "respond" (answer the client directly).    *)
(* FilterChain.tla has the chain itself.                                   *)
(*                                                                         *)
(* A body unit is one chunk drained from the parser; the state of the gate *)
(* in one direction is the number of units it is holding back.             *)
(***************************************************************************)
EXTENDS Naturals

CONSTANT HighWatermark   \* body_buffer_high_watermark_bytes, in units

ASSUME GateAssumption == HighWatermark \in Nat

Verdicts == {"continue", "stop", "respond"}

MutantOverWatermark(held) == held > HighWatermark + 1

\* The hard cap: checked on every "stop", the last chunk included.
OverWatermark(held) == held > HighWatermark

\* apply(): what happens to one chunk when buf units are held back already.
apply(buf, verdict, end_stream) ==
  IF \/ verdict = "respond"
     \/ verdict = "stop" /\ OverWatermark(buf + 1)
  THEN [outcome |-> "reject", data |-> 0, buf |-> 0]
  ELSE IF verdict = "stop" /\ ~end_stream
       THEN [outcome |-> "buffering", data |-> 0, buf |-> buf + 1]
       ELSE [outcome |-> "forward", data |-> buf + 1, buf |-> 0]

(***************************************************************************)
(* The drain loops of HttpSession put the k chunks of one socket read      *)
(* through apply(), one chunk behind, so that only the last of them        *)
(* carries end_stream.  They stop at the first rejection; otherwise the    *)
(* serialiser gets everything up to the last chunk that was let through    *)
(* (the j-th) and the gate keeps the rest.                                 *)
(***************************************************************************)
Rejected(buf, k, V) ==
  /\ k > 0
  /\ \/ "respond" \in V
     \/ "stop" \in V /\ OverWatermark(buf + k)

MutantPassed(buf, k, end_stream, V) ==
  {j \in 0..k :
     /\ j < k => "stop" \in V /\ ~OverWatermark((IF j = 0 THEN buf ELSE 0) + (k - j))
     /\ j > 0 => "continue" \in V}

\* j = 0: nothing is let through.  j = k: everything is.
Passed(buf, k, end_stream, V) ==
  {j \in 0..k :
     /\ j < k =>
          /\ "stop" \in V
          /\ ~end_stream
          /\ ~OverWatermark((IF j = 0 THEN buf ELSE 0) + (k - j))
     /\ j > 0 =>
          \/ "continue" \in V
          \/ j = k /\ end_stream /\ "stop" \in V /\ ~OverWatermark(buf + k)}

MutantForwardedBy(buf, j) == j

\* What was held back goes out in front.
ForwardedBy(buf, j) == IF j = 0 THEN 0 ELSE buf + j
HeldBy(buf, k, j) == (IF j = 0 THEN buf ELSE 0) + (k - j)
=============================================================================
