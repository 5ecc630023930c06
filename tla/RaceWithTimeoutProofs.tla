----------------------- MODULE RaceWithTimeoutProofs -----------------------
(***************************************************************************)
(* on_done is called at most once, for any number of races, and every step *)
(* of a race is one that OneShot allows.                                   *)
(***************************************************************************)
EXTENDS RaceWithTimeout, TLAPS

\* A call of on_done keeps the type of calls.
LEMMA CallsType ==
  ASSUME calls \in [Races -> [Results -> Nat]], NEW r \in Races, NEW x \in Results,
         CallsOnDone(r, x)
  PROVE  calls' \in [Races -> [Results -> Nat]]
BY DEF CallsOnDone

\* Every reachable state of race_with_timeout has the stated types.
THEOREM TypeCorrect == Spec => []TypeOK
<1>1. Init => TypeOK
  BY DEF Init, TypeOK, Results
<1>2. TypeOK /\ [Next]_vars => TypeOK'
  <2> SUFFICES ASSUME TypeOK, [Next]_vars PROVE TypeOK'
    OBVIOUS
  <2> USE DEF TypeOK, Results
  <2>1. ASSUME NEW r \in Races, Start(r) PROVE TypeOK'
    BY <2>1 DEF Start
  <2>2. ASSUME NEW r \in Races, StartFails(r) PROVE TypeOK'
    BY <2>2 DEF StartFails, CallsOnDone, CancelTimer
  <2>3. ASSUME NEW r \in Races, TimerExpires(r) PROVE TypeOK'
    BY <2>3 DEF TimerExpires
  <2>4. ASSUME NEW r \in Races, OpCompletes(r) PROVE TypeOK'
    BY <2>4 DEF OpCompletes
  <2>5. ASSUME NEW r \in Races, TimerHandler(r) PROVE TypeOK'
    <3>1. calls' \in [Races -> [Results -> Nat]]
      BY <2>5, CallsType DEF TimerHandler, TimerLost
    <3> QED
      BY <2>5, <3>1 DEF TimerHandler, TimerLost, CancelOp
  <2>6. ASSUME NEW r \in Races, OpHandler(r) PROVE TypeOK'
    <3>1. calls' \in [Races -> [Results -> Nat]]
      BY <2>6, CallsType DEF OpHandler
    <3> QED
      BY <2>6, <3>1 DEF OpHandler, CancelTimer
  <2>7. CASE UNCHANGED vars
    BY <2>7 DEF vars
  <2> QED
    BY <2>1, <2>2, <2>3, <2>4, <2>5, <2>6, <2>7 DEF Next
<1> QED
  BY <1>1, <1>2, PTL DEF Spec

\* One call more is one delivery more, and leaves the other races alone.
LEMMA OneMoreCall ==
  ASSUME TypeOK, NEW r \in Races, NEW x \in Results, CallsOnDone(r, x)
  PROVE  \A q \in Races : Delivered(q)' = IF q = r THEN Delivered(q) + 1 ELSE Delivered(q)
BY DEF TypeOK, Results, CallsOnDone, Delivered

\* The done flag counts the calls of on_done.
THEOREM OnceInvariant == Spec => []OnceInv
<1>1. Init => OnceInv
  <2> SUFFICES ASSUME Init, NEW r \in Races PROVE Delivered(r) = 0
    BY DEF Init, OnceInv
  <2>1. "ok" \in Results /\ "failed" \in Results /\ "timeout" \in Results
    BY DEF Results
  <2>2. calls[r]["ok"] = 0 /\ calls[r]["failed"] = 0 /\ calls[r]["timeout"] = 0
    BY <2>1 DEF Init
  <2> QED
    BY <2>2 DEF Delivered
<1>2. TypeOK /\ OnceInv /\ [Next]_vars => OnceInv'
  <2> SUFFICES ASSUME TypeOK, OnceInv, [Next]_vars PROVE OnceInv'
    OBVIOUS
  <2>1. ASSUME NEW r \in Races, Start(r) PROVE OnceInv'
    BY <2>1 DEF Start, OnceInv, Delivered, TypeOK
  <2>2. ASSUME NEW r \in Races, StartFails(r) PROVE OnceInv'
    <3>1. \A q \in Races : Delivered(q)' = IF q = r THEN Delivered(q) + 1 ELSE Delivered(q)
      BY <2>2, OneMoreCall DEF StartFails, Results
    <3> QED
      BY <2>2, <3>1 DEF StartFails, OnceInv, TypeOK, CancelTimer
  <2>3. ASSUME NEW r \in Races, TimerExpires(r) PROVE OnceInv'
    BY <2>3 DEF TimerExpires, OnceInv, Delivered, TypeOK
  <2>4. ASSUME NEW r \in Races, OpCompletes(r) PROVE OnceInv'
    BY <2>4 DEF OpCompletes, OnceInv, Delivered, TypeOK
  <2>5. ASSUME NEW r \in Races, TimerHandler(r) PROVE OnceInv'
    <3>1. CASE TimerLost(r)
      BY <2>5, <3>1 DEF TimerHandler, TimerLost, OnceInv, Delivered, TypeOK
    <3>2. CASE ~TimerLost(r)
      <4>1. \A q \in Races : Delivered(q)' = IF q = r THEN Delivered(q) + 1 ELSE Delivered(q)
        BY <2>5, <3>2, OneMoreCall DEF TimerHandler, Results
      <4> QED
        BY <2>5, <3>2, <4>1 DEF TimerHandler, TimerLost, OnceInv, TypeOK, CancelOp
    <3> QED
      BY <3>1, <3>2
  <2>6. ASSUME NEW r \in Races, OpHandler(r) PROVE OnceInv'
    <3>1. CASE finished[r]
      BY <2>6, <3>1 DEF OpHandler, OnceInv, Delivered, TypeOK
    <3>2. CASE ~finished[r]
      <4>1. \A q \in Races : Delivered(q)' = IF q = r THEN Delivered(q) + 1 ELSE Delivered(q)
        BY <2>6, <3>2, OneMoreCall DEF OpHandler, Results
      <4> QED
        BY <2>6, <3>2, <4>1 DEF OpHandler, OnceInv, TypeOK, CancelTimer
    <3> QED
      BY <3>1, <3>2
  <2>7. CASE UNCHANGED vars
    BY <2>7 DEF vars, OnceInv, Delivered
  <2> QED
    BY <2>1, <2>2, <2>3, <2>4, <2>5, <2>6, <2>7 DEF Next
<1> QED
  BY <1>1, <1>2, TypeCorrect, PTL DEF Spec

\* on_done of race_with_timeout is called at most once, however the deadline and
\* the completion of the operation fall.
THEOREM AtMostOnce == Spec => []CalledAtMostOnce
<1>1. OnceInv => CalledAtMostOnce
  <2> SUFFICES ASSUME OnceInv, NEW r \in Races PROVE Delivered(r) <= 1
    BY DEF CalledAtMostOnce
  <2>1. Delivered(r) = 0 \/ Delivered(r) = 1
    BY DEF OnceInv
  <2> QED
    BY <2>1
<1> QED
  BY <1>1, OnceInvariant, PTL

\* The mapping: the races begun, and the results on_done of a race was called with.
Begun == {r \in Races : timer[r] # "idle"}
ResultsOf(c) == [r \in Races |-> {x \in Results : c[r][x] > 0}]

\* The first call of on_done for a race gives it its one result.
LEMMA FirstResult ==
  ASSUME TypeOK, OnceInv, NEW r \in Races, ~finished[r], NEW x \in Results, CallsOnDone(r, x)
  PROVE  /\ ResultsOf(calls)[r] = {}
         /\ ResultsOf(calls') = [ResultsOf(calls) EXCEPT ![r] = {x}]
<1>1. Delivered(r) = 0
  BY DEF OnceInv
<1>2. \A y \in Results : calls[r][y] \in Nat
  BY DEF TypeOK
<1>3. \A y \in Results : calls[r][y] = 0
  <2>1. \A a, b, c \in Nat : a + b + c = 0 => a = 0 /\ b = 0 /\ c = 0
    OBVIOUS
  <2>2. "ok" \in Results /\ "failed" \in Results /\ "timeout" \in Results
    BY DEF Results
  <2>3. calls[r]["ok"] = 0 /\ calls[r]["failed"] = 0 /\ calls[r]["timeout"] = 0
    BY <1>1, <1>2, <2>1, <2>2 DEF Delivered
  <2> QED
    BY <2>3 DEF Results
<1>4. calls'[r] = [calls[r] EXCEPT ![x] = @ + 1]
  BY DEF TypeOK, CallsOnDone
<1>5. \A y \in Results : calls'[r][y] = IF y = x THEN 1 ELSE 0
  BY <1>3, <1>4 DEF TypeOK
<1>6. {y \in Results : calls'[r][y] > 0} = {x}
  BY <1>5
<1>7. \A q \in Races \ {r} : calls'[q] = calls[q]
  BY DEF TypeOK, CallsOnDone
<1>8. {y \in Results : calls[r][y] > 0} = {}
  BY <1>3
<1> QED
  BY <1>6, <1>7, <1>8 DEF ResultsOf

\* Every step of a race is a Begin or a Finish of it, or changes neither.
LEMMA StepMaps ==
  ASSUME TypeOK, OnceInv, [Next]_vars
  PROVE  [Once!Next]_(Once!vars)
<1> DEFINE R == ResultsOf(calls)
           Mapped == \/ \E r \in Races : Once!Begin(r) \/ Once!Finish(r)
                     \/ UNCHANGED <<Begun, R>>
<1>1. ASSUME NEW r \in Races, Start(r) PROVE Mapped
  <2>1. r \notin Begun /\ Begun' = Begun \cup {r} /\ R' = R
    BY <1>1 DEF Start, Begun, ResultsOf, TypeOK
  <2> QED
    BY <2>1 DEF Once!Begin, Begun, ResultsOf
<1>2. ASSUME NEW r \in Races, StartFails(r) PROVE Mapped
  <2>1. r \notin Begun /\ Begun' = Begun \cup {r}
    BY <1>2 DEF StartFails, CancelTimer, Begun, TypeOK
  <2>2. "failed" \in Results /\ ~finished[r] /\ CallsOnDone(r, "failed")
    BY <1>2 DEF StartFails, OnceInv, Results
  <2>3. R' = [R EXCEPT ![r] = {"failed"}]
    BY <2>2, FirstResult DEF ResultsOf
  <2> QED
    BY <2>1, <2>2, <2>3 DEF Once!Begin, Begun, ResultsOf
<1>3. ASSUME NEW r \in Races, TimerExpires(r) PROVE Mapped
  BY <1>3 DEF TimerExpires, Begun, ResultsOf, TypeOK
<1>4. ASSUME NEW r \in Races, OpCompletes(r) PROVE Mapped
  BY <1>4 DEF OpCompletes, Begun, ResultsOf
<1>5. ASSUME NEW r \in Races, TimerHandler(r) PROVE Mapped
  <2>1. r \in Begun /\ Begun' = Begun
    BY <1>5 DEF TimerHandler, Begun, TypeOK
  <2>2. CASE TimerLost(r)
    BY <1>5, <2>1, <2>2 DEF TimerHandler, ResultsOf
  <2>3. CASE ~TimerLost(r)
    <3>1. "timeout" \in Results /\ ~finished[r] /\ CallsOnDone(r, "timeout")
      BY <1>5, <2>3 DEF TimerHandler, TimerLost, Results
    <3>2. R[r] = {} /\ R' = [R EXCEPT ![r] = {"timeout"}]
      BY <3>1, FirstResult DEF ResultsOf
    <3> QED
      BY <2>1, <3>1, <3>2 DEF Once!Finish, Begun, ResultsOf
  <2> QED
    BY <2>2, <2>3
<1>6. ASSUME NEW r \in Races, OpHandler(r) PROVE Mapped
  <2>1. timer[r] # "idle"
    BY <1>6 DEF OpHandler, OnceInv
  <2>2. r \in Begun /\ Begun' = Begun
    BY <1>6, <2>1 DEF OpHandler, CancelTimer, Begun, TypeOK
  <2>3. CASE finished[r]
    BY <1>6, <2>2, <2>3 DEF OpHandler, ResultsOf
  <2>4. CASE ~finished[r]
    <3>1. PICK x \in Results : CallsOnDone(r, x)
      BY <1>6, <2>4 DEF OpHandler, Results
    <3>2. R[r] = {} /\ R' = [R EXCEPT ![r] = {x}]
      BY <2>4, <3>1, FirstResult DEF ResultsOf
    <3> QED
      BY <2>2, <3>2 DEF Once!Finish, Begun, ResultsOf
  <2> QED
    BY <2>3, <2>4
<1>7. ASSUME UNCHANGED vars PROVE Mapped
  BY <1>7 DEF vars, Begun, ResultsOf
<1>8. Mapped
  BY <1>1, <1>2, <1>3, <1>4, <1>5, <1>6, <1>7 DEF Next
<1> QED
  BY <1>8 DEF Once!Next, Once!vars, Begun, ResultsOf

\* The safety part of OneShot: on_done is called only for an operation that was
\* started, once, and with one result, in every order of expiry, completion and
\* handlers.  That it is called at all rests on fairness and is left to TLC.
THEOREM OneShotSafety == Spec => Once!Init /\ [][Once!Next]_(Once!vars)
<1>1. Init => Once!Init
  BY DEF Init, Once!Init, Results
<1> QED
  BY <1>1, StepMaps, TypeCorrect, OnceInvariant, PTL DEF Spec
=============================================================================
