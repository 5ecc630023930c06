--------------------------- MODULE SerializerSpec ---------------------------
(***************************************************************************)
(* One serialiser and its caller.  HttpSession starts it with a head,      *)
(* provides body chunks as they leave the body filters, the last one with  *)
(* is_last, and pulls whenever a write has completed; the two kinds of     *)
(* call interleave freely.                                                 *)
(***************************************************************************)
EXTENDS Serializer

CONSTANTS
  MaxBody,     \* bound on the body of a message, in units
  MaxChunk     \* bound on one provide_body call, in units

ASSUME BoundsAssumption == MaxBody \in Nat /\ MaxChunk \in Nat

VARIABLES
  ser,         \* the serialiser's fields
  given,       \* body units provided so far for this message
  out          \* units pulled so far for this message

vars == <<ser, given, out>>

Init ==
  /\ \E chunked \in BOOLEAN : ser = StartSerializer(chunked)
  /\ given = 0
  /\ out = 0

\* The caller sets request_final_body_provided_ with the last chunk and provides
\* nothing after it.
Provide(k, is_last) ==
  /\ ~ser.last
  /\ given + k <= MaxBody
  /\ ser' = provide_body(ser, k, is_last)
  /\ given' = given + k
  /\ UNCHANGED out

PullOnce ==
  /\ ser' = pull(ser)
  /\ out' = out + Pulled(ser)
  /\ UNCHANGED given

\* reset_for_next_request makes a new serialiser once the message is done.
NextMessage ==
  /\ done(ser)
  /\ \E chunked \in BOOLEAN : ser' = StartSerializer(chunked)
  /\ given' = 0
  /\ out' = 0

Next ==
  \/ \E k \in 0..MaxChunk, is_last \in BOOLEAN : Provide(k, is_last)
  \/ PullOnce
  \/ NextMessage

Spec == Init /\ [][Next]_vars
-----------------------------------------------------------------------------
\* Types of the serialiser's fields and of the caller's two counters.
TypeOK ==
  /\ ser \in Serializers
  /\ given \in Nat
  /\ out \in Nat

\* Units a message of given body units occupies on the wire so far.
WireUnits == HeadUnits + given + (IF ser.chunked /\ ser.last THEN 1 ELSE 0)

\* No unit is lost, duplicated or invented between start/provide_body and pull,
\* however pulls and provides interleave: what was handed over is either out or
\* still held, and the terminator frame is there exactly once.
Conservation == out + ser.head + ser.pending = WireUnits

\* done() is reported only when the whole message is out: HttpSession turns to
\* the response (or to the next request) on it.
DoneIsComplete == done(ser) => ser.last /\ out = WireUnits

\* A pull of 0 units means there is nothing to send, and once the last unit is
\* out one more pull reports done(): HttpSession reads n = 0 && !done() as "ask
\* the other side for more", which would wait forever otherwise.
EmptyPullIsHonest ==
  /\ Pulled(ser) = 0 => ser.head = 0 /\ ser.pending = 0
  /\ FullyPulled(ser) => done(pull(ser))
=============================================================================
