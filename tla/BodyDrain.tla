----------------------------- MODULE BodyDrain -----------------------------
(***************************************************************************)
(* drain_request_body_into_serializer() and its twin for responses         *)
(* (src/session/http_session.cpp).  BodyFilterGate describes what they     *)
(* leave behind after the k chunks of one read in closed form.  Here the   *)
(* loop is run chunk by chunk from every state the chain can be in, and    *)
(* the two are compared.                                                   *)
(***************************************************************************)
EXTENDS FilterChain

CONSTANT MaxRead   \* bound: chunks one socket read delivers

\* A loop under way: what the serialiser has been given and what the gate holds.
\* The answer to a refused chunk leaves nothing of either.
Draining(fwd, held) == [outcome |-> "ok", fwd |-> fwd, held |-> held]
Refusal == [outcome |-> "reject", fwd |-> 0, held |-> 0]

\* process_*_data_chunk(): one chunk goes to the gate; FALSE ends the loop.
ProcessChunk(st, verdict, end_stream) ==
  LET g == apply(st.held, verdict, end_stream)
  IN IF st.outcome = "reject" \/ g.outcome = "reject" THEN Refusal
     ELSE Draining(st.fwd + g.data, g.buf)

ChunkProcessed(S, end_stream, V) ==
  {ProcessChunk(q[1], q[2], end_stream) : q \in S \X V}

\* drain_*_body_into_serializer: the states after each chunk; only the last chunk is
\* shown with end_stream.
DrainLoop(buf, k, end_stream, V) ==
  LET After[i \in 0..k] ==
        IF i = 0 THEN {Draining(0, buf)}
        ELSE ChunkProcessed(After[i - 1], end_stream /\ i = k, V)
  IN After[k]

DrainClosedForm(buf, k, end_stream, V) ==
  {Draining(ForwardedBy(buf, j), HeldBy(buf, k, j)) : j \in Passed(buf, k, end_stream, V)}
  \cup {r \in {Refusal} : Rejected(buf, k, V)}

\* Whatever a chain holds back, the drain loop over the next read lets out, keeps
\* or refuses exactly what Passed and Rejected say, for every set of verdicts.
DrainMatchesApply ==
  \A k \in 0..MaxRead, end_stream \in BOOLEAN, V \in SUBSET Verdicts :
    DrainLoop(Len(state.buffer), k, end_stream, V)
      = DrainClosedForm(Len(state.buffer), k, end_stream, V)
=============================================================================
