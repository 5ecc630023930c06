---------------------------- MODULE FilterChain ----------------------------
(***************************************************************************)
(* FilterChain::apply_data (src/filter/filter_chain.hpp) and the           *)
(* BodyFilterGate around it: how the chunks of one direction's bodies go   *)
(* through the filters.  HttpSession uses only the gate's totals; here     *)
(* each chunk has an identity, <<message, index>>, and each filter is      *)
(* asked.                                                                  *)
(*                                                                         *)
(* Filters are numbered in the order the chain visits them: registration   *)
(* order for requests, the reverse for responses.                          *)
(***************************************************************************)
EXTENDS BodyFilterGate, Sequences

CONSTANTS
  NumFilters,    \* filters_.size()
  MaxChunks,     \* bound: chunks of a body
  MaxMessages    \* bound: messages on one keep-alive connection

ASSUME ChainAssumption == NumFilters \in Nat /\ MaxChunks \in Nat /\ MaxMessages \in Nat

VARIABLES
  state,    \* DataIterationState: blocked, at (blocked_filter_index), buffer
  message,  \* number of the message being relayed
  fed,      \* chunks of it drained from the parser
  out,      \* chunks handed to the serialiser
  seen,     \* per chunk: the filters that have been shown it
  status    \* "open", "ended" (with its last chunk), "cut" (the end came on its
            \* own, after the last chunk), "rejected"

vars == <<state, message, fed, out, seen, status>>

Clear == [blocked |-> FALSE, at |-> 0, buffer |-> <<>>]

Init ==
  /\ state = Clear
  /\ message = 1
  /\ fed = 0
  /\ out = <<>>
  /\ seen = [i \in 1..MaxChunks |-> {}]
  /\ status = "open"

MutantCurrent(chunk) == <<chunk>>

\* A blocked chain appends the chunk to its buffer and shows the whole of it...
Current(chunk) == IF state.blocked THEN Append(state.buffer, chunk) ELSE <<chunk>>

MutantRestarts == 1

\* ... to the filter that blocked it, not to the first.
FirstAsked == IF state.blocked THEN state.at ELSE 1

Shown(data, upto) ==
  seen' = [i \in 1..MaxChunks |->
             IF \E d \in 1..Len(data) : data[d] = <<message, i>>
             THEN seen[i] \cup (FirstAsked..upto) ELSE seen[i]]

ChunkArrives ==
  /\ status = "open" /\ fed < MaxChunks
  /\ fed' = fed + 1
  /\ UNCHANGED message

Finished(end_stream) == IF end_stream THEN "ended" ELSE "open"

\* Every filter asked continues (or there is none): the data goes out.
ChunkPasses(end_stream) ==
  LET data == Current(<<message, fed + 1>>)
  IN /\ ChunkArrives
     /\ Shown(data, NumFilters)
     /\ out' = out \o data
     /\ state' = Clear
     /\ status' = Finished(end_stream)

\* Filter p answers directly; the gate clears its state.
ChunkRefused(p) ==
  /\ ChunkArrives
  /\ p \in FirstAsked..NumFilters
  /\ Shown(Current(<<message, fed + 1>>), p)
  /\ state' = Clear
  /\ status' = "rejected"
  /\ UNCHANGED out

\* Filter p stops and buffers.  The gate refuses too much, lets the last chunk
\* of a message go in spite of the filter, and waits otherwise.
ChunkStopped(p, end_stream) ==
  LET data == Current(<<message, fed + 1>>)
  IN /\ ChunkArrives
     /\ p \in FirstAsked..NumFilters
     /\ Shown(data, p)
     /\ \/ /\ OverWatermark(Len(data))
           /\ state' = Clear
           /\ status' = "rejected"
           /\ UNCHANGED out
        \/ /\ ~OverWatermark(Len(data)) /\ end_stream
           /\ state' = Clear
           /\ out' = out \o data
           /\ status' = "ended"
        \/ /\ ~OverWatermark(Len(data)) /\ ~end_stream
           /\ state' = [blocked |-> TRUE, at |-> p, buffer |-> data]
           /\ UNCHANGED <<out, status>>

\* A chunked body whose terminator comes in a read of its own: the drain loop has
\* no chunk to show, so the gate is not called.
EndWithoutChunk ==
  /\ status = "open"
  /\ status' = "cut"
  /\ UNCHANGED <<state, message, fed, out, seen>>

MutantAfterReset == state

\* BodyFilterGate::reset(), called by reset_for_next_request().
AfterReset == Clear

NextMessage ==
  /\ status \in {"ended", "cut"}
  /\ message < MaxMessages
  /\ state' = AfterReset
  /\ message' = message + 1
  /\ fed' = 0
  /\ out' = <<>>
  /\ seen' = [i \in 1..MaxChunks |-> {}]
  /\ status' = "open"

Next ==
  \/ \E end_stream \in BOOLEAN : ChunkPasses(end_stream)
  \/ \E p \in 1..NumFilters : ChunkRefused(p)
  \/ \E p \in 1..NumFilters, end_stream \in BOOLEAN : ChunkStopped(p, end_stream)
  \/ EndWithoutChunk
  \/ NextMessage

Spec == Init /\ [][Next]_vars
-----------------------------------------------------------------------------
Chunks(n) == [i \in 1..n |-> <<message, i>>]

\* Chunks leave the chain in order, each once, none of another message among
\* them, and those not out yet are in the buffer; a message that ends with a
\* chunk is out completely.
NothingLostInChain ==
  /\ status \in {"open", "cut"} => out \o state.buffer = Chunks(fed)
  /\ status = "ended" => out = Chunks(fed) /\ state = Clear

\* Between two chunks the gate holds no more than the watermark, and holds
\* something exactly while a filter is blocking.
WatermarkHolds ==
  /\ Len(state.buffer) <= HighWatermark
  /\ state.blocked <=> state.buffer # <<>>

\* The gate as HttpSession sees it, one verdict per chunk and a count of held
\* units, is what the chain of filters does.
ChainMatchesGate ==
  [][fed' = fed + 1 =>
       \E v \in Verdicts :
         LET g == apply(Len(state.buffer), v, status' = "ended")
         IN /\ Len(state'.buffer) = g.buf
            /\ status' # "rejected" => Len(out') = Len(out) + g.data
            /\ status' = "rejected" <=> g.outcome = "reject"]_vars

\* What a filter holds back stays with it: while the chain is blocked the filters
\* after the blocking one have seen none of the buffer, and what has left an open
\* message has been seen by the last filter.  (Filters before the blocking one do
\* miss chunks: apply_data() resumes at blocked_filter_index.)
HeldBackInTurn ==
  /\ \A d \in 1..Len(state.buffer) :
       LET s == seen[state.buffer[d][2]]
       IN state.at \in s /\ \A p \in s : p <= state.at
  /\ NumFilters > 0 /\ status = "open" => \A d \in 1..Len(out) : NumFilters \in seen[out[d][2]]
=============================================================================
