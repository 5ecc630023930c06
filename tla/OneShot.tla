------------------------------ MODULE OneShot ------------------------------
(***************************************************************************)
(* What race_with_timeout promises its caller: for each operation started, *)
(* on_done is called exactly once, with the result of the operation or     *)
(* with a timeout.                                                         *)
(***************************************************************************)
CONSTANTS Races, Results

VARIABLES
  begun,    \* the operations started
  results   \* per operation: the results on_done has been called with

vars == <<begun, results>>

Init ==
  /\ begun = {}
  /\ results = [r \in Races |-> {}]

\* An operation whose start fails synchronously has its result at once.
Begin(r) ==
  /\ r \notin begun
  /\ begun' = begun \cup {r}
  /\ \/ UNCHANGED results
     \/ \E x \in Results : results' = [results EXCEPT ![r] = {x}]

Finish(r) ==
  /\ r \in begun /\ results[r] = {}
  /\ \E x \in Results : results' = [results EXCEPT ![r] = {x}]
  /\ UNCHANGED begun

Next == \E r \in Races : Begin(r) \/ Finish(r)

Spec == Init /\ [][Next]_vars /\ \A r \in Races : WF_vars(Finish(r))
=============================================================================
