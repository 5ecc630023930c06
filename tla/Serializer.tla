----------------------------- MODULE Serializer -----------------------------
(***************************************************************************)
(* RequestSerializer and ResponseSerializer (src/net/http/native): the     *)
(* two classes differ only in how the first line of the head is formatted, *)
(* so one set of operators models both.                                    *)
(*                                                                         *)
(* Bytes are abstracted to units: a head is HeadUnits units, a body chunk  *)
(* handed over by provide_body is one unit per body unit, and the chunked  *)
(* terminator is one unit more.  A pull fills an output buffer of W units. *)
(***************************************************************************)
EXTENDS Naturals

CONSTANTS
  HeadUnits,   \* size of a serialised head (never empty: it has a first line)
  W            \* size of the caller's output buffer, write_buf_

ASSUME SerializerAssumption ==
  /\ HeadUnits \in Nat \ {0}
  /\ W \in Nat \ {0}

\* head_bytes_ not yet pulled, pending_bytes_ not yet pulled, chunked_,
\* is_last_provided_ and stage_.
Serializers ==
  [stage : {"head", "body", "done"}, head : Nat, pending : Nat,
   chunked : BOOLEAN, last : BOOLEAN]

MutantLesser(a, b) == a

Lesser(a, b) == IF a <= b THEN a ELSE b

StartSerializer(chunked) ==
  [stage |-> "head", head |-> HeadUnits, pending |-> 0,
   chunked |-> chunked, last |-> FALSE]

MutantFramed(ser, k, is_last) == k + (IF ser.chunked THEN 1 ELSE 0)

\* append_chunk adds the terminator frame after the last chunk; a body that is
\* not chunked is appended as it is.
Framed(ser, k, is_last) == k + (IF ser.chunked /\ is_last THEN 1 ELSE 0)

provide_body(ser, k, is_last) ==
  [ser EXCEPT !.pending = @ + Framed(ser, k, is_last),
              !.last = @ \/ is_last]

\* Units of the head this pull copies out.
HeadPart(ser) == IF ser.stage = "head" THEN Lesser(W, ser.head) ELSE 0

\* Does this pull go on to the body?  A head that fills the buffer exactly
\* returns early, even when the whole head is out.
ReachesBody(ser) ==
  \/ ser.stage = "body"
  \/ /\ ser.stage = "head"
     /\ HeadPart(ser) = ser.head
     /\ HeadPart(ser) < W

BodyPart(ser) ==
  IF ReachesBody(ser) THEN Lesser(W - HeadPart(ser), ser.pending) ELSE 0

Pulled(ser) == HeadPart(ser) + BodyPart(ser)

MutantStageAfterPull(ser) ==
  IF ReachesBody(ser) THEN IF ser.last THEN "done" ELSE "body"
  ELSE IF ser.stage = "head" /\ HeadPart(ser) = ser.head THEN "body" ELSE ser.stage

StageAfterPull(ser) ==
  IF ReachesBody(ser)
  THEN IF BodyPart(ser) = ser.pending /\ ser.last THEN "done" ELSE "body"
  ELSE IF ser.stage = "head" /\ HeadPart(ser) = ser.head THEN "body" ELSE ser.stage

\* The serialiser after a pull that copied Pulled(ser) units out.
pull(ser) ==
  [ser EXCEPT !.stage = StageAfterPull(ser),
              !.head = @ - HeadPart(ser),
              !.pending = @ - BodyPart(ser)]

done(ser) == ser.stage = "done"

\* Every unit of the message has been copied out.  done() may lag behind: after
\* a head that fills the buffer exactly it needs one more, empty, pull.
FullyPulled(ser) == ser.last /\ ser.head = 0 /\ ser.pending = 0
=============================================================================
