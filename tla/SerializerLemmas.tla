-------------------------- MODULE SerializerLemmas --------------------------
(***************************************************************************)
(* The serialiser's operations keep its types and what its stage says of   *)
(* the units still to come, for any size of head and of output buffer.     *)
(***************************************************************************)
EXTENDS Serializer, TLAPS

\* provide_body keeps the serialiser well-typed.
LEMMA ProvideType ==
  ASSUME NEW x \in Serializers, NEW k \in Nat, NEW last \in BOOLEAN
  PROVE  provide_body(x, k, last) \in Serializers
<1>1. Framed(x, k, last) \in Nat
  BY DEF Framed
<1>2. x.pending + Framed(x, k, last) \in Nat
  BY <1>1 DEF Serializers
<1>3. (x.last \/ last) \in BOOLEAN
  OBVIOUS
<1>4. \A p \in Nat, b \in BOOLEAN : [x EXCEPT !.pending = p, !.last = b] \in Serializers
  BY DEF Serializers
<1> QED
  BY <1>2, <1>3, <1>4 DEF provide_body

\* A pull copies no more than it holds, and keeps the serialiser well-typed.
LEMMA PullType ==
  ASSUME NEW x \in Serializers
  PROVE  /\ HeadPart(x) \in 0..x.head /\ BodyPart(x) \in 0..x.pending
         /\ pull(x) \in Serializers
         /\ Pulled(x) \in Nat
<1>1. HeadPart(x) \in 0..x.head /\ HeadPart(x) <= W
  BY SerializerAssumption DEF Serializers, HeadPart, Lesser
<1>2. BodyPart(x) \in 0..x.pending
  BY <1>1, SerializerAssumption DEF Serializers, BodyPart, Lesser
<1>3. StageAfterPull(x) \in {"head", "body", "done"}
  BY DEF Serializers, StageAfterPull
<1>4. x.head - HeadPart(x) \in Nat /\ x.pending - BodyPart(x) \in Nat /\ Pulled(x) \in Nat
  BY <1>1, <1>2 DEF Serializers, Pulled
<1>5. \A g \in {"head", "body", "done"}, h, p \in Nat :
        [x EXCEPT !.stage = g, !.head = h, !.pending = p] \in Serializers
  BY DEF Serializers
<1>6. pull(x) \in Serializers
  BY <1>3, <1>4, <1>5 DEF pull
<1> QED
  BY <1>1, <1>2, <1>4, <1>6

\* A new serialiser is well-typed.
LEMMA StartType ==
  ASSUME NEW chunked \in BOOLEAN
  PROVE  StartSerializer(chunked) \in Serializers
BY SerializerAssumption DEF StartSerializer, Serializers

\* A serialiser is past its head exactly when the head is out, and reports done()
\* only with everything out.
SerSound(ser) ==
  /\ ser.stage = "head" <=> ser.head > 0
  /\ ser.stage = "done" => ser.last /\ ser.pending = 0
  /\ ser.head <= HeadUnits

\* A pull takes what it reports; one that finds nothing has nothing left to find.
LEMMA PullSound ==
  ASSUME NEW x \in Serializers, SerSound(x)
  PROVE  /\ SerSound(pull(x))
         /\ pull(x).last = x.last /\ pull(x).chunked = x.chunked
         /\ pull(x).head + pull(x).pending = x.head + x.pending - Pulled(x)
         /\ x.head = HeadUnits => Pulled(x) > 0
         /\ x.pending > 0 => Pulled(x) > 0
         /\ pull(x).head < HeadUnits
         /\ Pulled(x) = 0 => x.head = 0 /\ x.pending = 0 /\ pull(x).head = 0 /\ pull(x).pending = 0
         /\ Pulled(x) = 0 /\ x.last <=> FullyPulled(x)
         /\ FullyPulled(x) => done(pull(x))
         /\ done(pull(x)) => FullyPulled(pull(x))
<1>1. /\ HeadPart(x) \in 0..x.head /\ BodyPart(x) \in 0..x.pending
      /\ pull(x) \in Serializers /\ Pulled(x) \in Nat
  BY PullType
<1>2. /\ x.head \in Nat /\ x.pending \in Nat /\ x.last \in BOOLEAN
      /\ x.stage \in {"head", "body", "done"}
      /\ HeadUnits \in Nat /\ HeadUnits > 0 /\ W \in Nat /\ W > 0
  BY SerializerAssumption DEF Serializers
<1>3. /\ pull(x).stage = StageAfterPull(x) /\ pull(x).head = x.head - HeadPart(x)
      /\ pull(x).pending = x.pending - BodyPart(x)
      /\ pull(x).last = x.last /\ pull(x).chunked = x.chunked
  BY DEF pull, Serializers
<1>4. CASE x.stage = "head"
  <2>1. HeadPart(x) = IF W <= x.head THEN W ELSE x.head
    BY <1>4 DEF HeadPart, Lesser
  <2>2. x.head > 0
    BY <1>4 DEF SerSound
  <2>3. CASE W <= x.head
    <3>1. ~ReachesBody(x)
      BY <1>2, <1>4, <2>1, <2>3 DEF ReachesBody
    <3> QED
      BY <1>1, <1>2, <1>3, <1>4, <2>1, <2>2, <2>3, <3>1
         DEF SerSound, StageAfterPull, BodyPart, Pulled, done, FullyPulled
  <2>4. CASE ~(W <= x.head)
    <3>1. ReachesBody(x)
      BY <1>2, <1>4, <2>1, <2>4 DEF ReachesBody
    <3>2. HeadPart(x) = x.head /\ pull(x).head = 0 /\ Pulled(x) = x.head + BodyPart(x)
      BY <1>1, <1>2, <1>3, <2>1, <2>4 DEF Pulled
    <3>3. pull(x).stage = IF BodyPart(x) = x.pending /\ x.last THEN "done" ELSE "body"
      BY <1>3, <3>1 DEF StageAfterPull
    <3>4. SerSound(pull(x))
      BY <1>1, <1>2, <1>3, <3>2, <3>3 DEF SerSound
    <3> QED
      BY <1>1, <1>2, <1>3, <2>2, <3>2, <3>3, <3>4 DEF done, FullyPulled
  <2> QED
    BY <2>3, <2>4
<1>5. CASE x.stage = "body"
  <2>1. ReachesBody(x) /\ HeadPart(x) = 0 /\ x.head = 0
    BY <1>2, <1>5 DEF ReachesBody, HeadPart, SerSound
  <2>2. BodyPart(x) = IF W <= x.pending THEN W ELSE x.pending
    BY <1>2, <2>1 DEF BodyPart, Lesser
  <2>3. pull(x).head = 0 /\ Pulled(x) = BodyPart(x)
    BY <1>1, <1>2, <1>3, <2>1 DEF Pulled
  <2>4. pull(x).stage = IF BodyPart(x) = x.pending /\ x.last THEN "done" ELSE "body"
    BY <1>3, <2>1 DEF StageAfterPull
  <2>5. SerSound(pull(x))
    BY <1>1, <1>2, <1>3, <2>3, <2>4 DEF SerSound
  <2> QED
    BY <1>1, <1>2, <1>3, <2>1, <2>2, <2>3, <2>4, <2>5 DEF done, FullyPulled
<1>6. CASE x.stage = "done"
  <2>1. ~ReachesBody(x) /\ HeadPart(x) = 0 /\ x.head = 0
    BY <1>2, <1>6 DEF ReachesBody, HeadPart, SerSound
  <2> QED
    BY <1>1, <1>2, <1>3, <1>6, <2>1
       DEF SerSound, StageAfterPull, BodyPart, Lesser, Pulled, done, FullyPulled
<1> QED
  BY <1>2, <1>4, <1>5, <1>6

\* A serialiser takes body until it has been given the last of it.
LEMMA ProvideSound ==
  ASSUME NEW x \in Serializers, SerSound(x), ~x.last, NEW k \in Nat, NEW end \in BOOLEAN
  PROVE  LET p == provide_body(x, k, end) IN
         /\ SerSound(p) /\ p.head = x.head /\ p.chunked = x.chunked /\ p.last = end
         /\ p.pending = x.pending + k + (IF x.chunked /\ end THEN 1 ELSE 0)
<1>1. x.pending \in Nat /\ x.head \in Nat /\ Framed(x, k, end) = k + (IF x.chunked /\ end THEN 1 ELSE 0)
  BY DEF Framed, Serializers
<1> QED
  BY <1>1 DEF provide_body, Serializers, SerSound

\* A serialiser that has just been started.
LEMMA StartSound ==
  ASSUME NEW chunked \in BOOLEAN
  PROVE  LET n == StartSerializer(chunked) IN
         /\ SerSound(n) /\ n.head = HeadUnits /\ n.pending = 0 /\ ~n.last /\ n.chunked = chunked
BY SerializerAssumption DEF StartSerializer, SerSound
=============================================================================
