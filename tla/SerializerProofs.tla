-------------------------- MODULE SerializerProofs --------------------------
(***************************************************************************)
(* The serialiser for every size of head, output buffer and body.          *)
(***************************************************************************)
EXTENDS SerializerSpec, SerializerLemmas

\* Every reachable serialiser has the stated types.
THEOREM TypeCorrect == Spec => []TypeOK
<1>1. Init => TypeOK
  BY StartType DEF Init, TypeOK
<1>2. TypeOK /\ [Next]_vars => TypeOK'
  <2> SUFFICES ASSUME TypeOK, [Next]_vars PROVE TypeOK'
    OBVIOUS
  <2>1. ASSUME NEW k \in 0..MaxChunk, NEW last \in BOOLEAN, Provide(k, last) PROVE TypeOK'
    BY <2>1, ProvideType, BoundsAssumption DEF Provide, TypeOK
  <2>2. CASE PullOnce
    BY <2>2, PullType DEF PullOnce, TypeOK
  <2>3. CASE NextMessage
    BY <2>3, StartType DEF NextMessage, TypeOK
  <2>4. CASE UNCHANGED vars
    BY <2>4 DEF vars, TypeOK
  <2> QED
    BY <2>1, <2>2, <2>3, <2>4 DEF Next
<1> QED
  BY <1>1, <1>2, PTL DEF Spec

\* Nothing provided to the serialiser is lost or duplicated on its way out.
THEOREM ConservationHolds == Spec => []Conservation
<1>1. Init => Conservation
  BY SerializerAssumption DEF Init, Conservation, WireUnits, StartSerializer
<1>2. TypeOK /\ Conservation /\ [Next]_vars => Conservation'
  <2> SUFFICES ASSUME TypeOK, Conservation, [Next]_vars PROVE Conservation'
    OBVIOUS
  <2> USE SerializerAssumption
  <2>1. ASSUME NEW k \in 0..MaxChunk, NEW last \in BOOLEAN, Provide(k, last)
        PROVE Conservation'
    BY <2>1, BoundsAssumption
    DEF Provide, TypeOK, Conservation, WireUnits, provide_body, Framed, Serializers
  <2>2. CASE PullOnce
    <3>1. /\ HeadPart(ser) \in 0..ser.head /\ BodyPart(ser) \in 0..ser.pending
      BY PullType DEF TypeOK
    <3>2. ser'.head = ser.head - HeadPart(ser) /\ ser'.pending = ser.pending - BodyPart(ser)
          /\ ser'.chunked = ser.chunked /\ ser'.last = ser.last
      BY <2>2 DEF PullOnce, pull, TypeOK, Serializers
    <3>3. out' = out + HeadPart(ser) + BodyPart(ser) /\ given' = given
      BY <2>2, <3>1 DEF PullOnce, Pulled, TypeOK, Serializers
    <3> QED
      BY <3>1, <3>2, <3>3 DEF Conservation, WireUnits, TypeOK, Serializers
  <2>3. CASE NextMessage
    BY <2>3 DEF NextMessage, Conservation, WireUnits, StartSerializer
  <2>4. CASE UNCHANGED vars
    BY <2>4 DEF vars, Conservation, WireUnits
  <2> QED
    BY <2>1, <2>2, <2>3, <2>4 DEF Next
<1> QED
  BY <1>1, <1>2, TypeCorrect, PTL DEF Spec

\* The stage follows what is left: the head is out once the body stage is reached,
\* and at the end nothing is left.
StageInv ==
  /\ ser.stage = "head" => ser.head > 0
  /\ ser.stage # "head" => ser.head = 0
  /\ ser.stage = "done" => ser.last /\ ser.pending = 0

\* StageInv is an invariant: the early return after an exactly filled buffer
\* leaves the serialiser in the body stage.
THEOREM StageInvariant == Spec => []StageInv
<1>1. Init => StageInv
  BY SerializerAssumption DEF Init, StageInv, StartSerializer
<1>2. TypeOK /\ StageInv /\ [Next]_vars => StageInv'
  <2> SUFFICES ASSUME TypeOK, StageInv, [Next]_vars PROVE StageInv'
    OBVIOUS
  <2> USE SerializerAssumption
  <2>1. ASSUME NEW k \in 0..MaxChunk, NEW last \in BOOLEAN, Provide(k, last) PROVE StageInv'
    BY <2>1 DEF Provide, StageInv, provide_body, TypeOK, Serializers
  <2>2. CASE PullOnce
    BY <2>2 DEF PullOnce, StageInv, pull, StageAfterPull, ReachesBody, HeadPart, BodyPart,
                Lesser, TypeOK, Serializers
  <2>3. CASE NextMessage
    BY <2>3 DEF NextMessage, StageInv, StartSerializer
  <2>4. CASE UNCHANGED vars
    BY <2>4 DEF vars, StageInv
  <2> QED
    BY <2>1, <2>2, <2>3, <2>4 DEF Next
<1> QED
  BY <1>1, <1>2, TypeCorrect, PTL DEF Spec

\* done() means the whole message is out.
THEOREM DoneMeansComplete == Spec => []DoneIsComplete
<1>1. TypeOK /\ StageInv /\ Conservation => DoneIsComplete
  BY SerializerAssumption
  DEF TypeOK, StageInv, Conservation, DoneIsComplete, done, WireUnits, Serializers
<1> QED
  BY <1>1, TypeCorrect, StageInvariant, ConservationHolds, PTL

\* An empty pull means nothing is left, and a finished message reports done().
THEOREM EmptyPullHonest == Spec => []EmptyPullIsHonest
<1>1. TypeOK /\ StageInv => EmptyPullIsHonest
  BY SerializerAssumption
  DEF TypeOK, StageInv, EmptyPullIsHonest, Pulled, HeadPart, BodyPart, ReachesBody, Lesser,
      FullyPulled, done, pull, StageAfterPull, Serializers
<1> QED
  BY <1>1, TypeCorrect, StageInvariant, PTL
=============================================================================
