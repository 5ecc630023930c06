------------------------- MODULE FilterChainProofs -------------------------
(***************************************************************************)
(* The filter chain and its gate, for any number of filters, chunks and    *)
(* messages and any watermark: nothing is lost, the watermark holds, each  *)
(* filter keeps back what it holds, and the gate's closed form is what the *)
(* chain does.                                                             *)
(*                                                                         *)
(* The inductive invariant is ChainInv.  The three properties need one     *)
(* another: that a chain that is not blocked holds nothing makes the data  *)
(* shown to the filters the buffer with the chunk appended in both cases,  *)
(* and that the chunks out and held are the first fed ones tells which     *)
(* entries of seen a step may touch.                                       *)
(*                                                                         *)
(* The drain loop: the closed form obeys the loop's recursion, and by      *)
(* induction over the chunks nothing else does.                            *)
(***************************************************************************)
EXTENDS BodyDrain, SequenceTheorems, WellFoundedInduction, TLAPS

ChunkIds == Nat \X Nat

\* Types of the chain's state; a blocked chain knows the filter that blocked it.
ChainTypes ==
  /\ state \in [blocked : BOOLEAN, at : 0..NumFilters, buffer : Seq(ChunkIds)]
  /\ state.blocked => state.at \in 1..NumFilters
  /\ message \in Nat
  /\ fed \in 0..MaxChunks
  /\ out \in Seq(ChunkIds)
  /\ seen \in [1..MaxChunks -> SUBSET (1..NumFilters)]
  /\ status \in {"open", "ended", "cut", "rejected"}

\* No filter has seen a chunk that has not arrived.
UnseenAhead == \A i \in 1..MaxChunks : i > fed => seen[i] = {}

ChainInv ==
  ChainTypes /\ UnseenAhead /\ NothingLostInChain /\ WatermarkHolds /\ HeldBackInTurn

\* What the filters are shown is the buffer with the chunk appended, blocked or not.
LEMMA CurrentAppends ==
  ASSUME ChainTypes, WatermarkHolds, NEW c \in ChunkIds
  PROVE  Current(c) = Append(state.buffer, c)
<1>1. CASE state.blocked
  BY <1>1 DEF Current
<1>2. CASE ~state.blocked
  <2>1. state.buffer = <<>>
    BY <1>2 DEF WatermarkHolds
  <2>2. Append(<<>>, c) = <<c>>
    OBVIOUS
  <2> QED
    BY <1>2, <2>1, <2>2 DEF Current
<1> QED
  BY <1>1, <1>2 DEF ChainTypes

\* Chunks 1 to n of message m, as a sequence.
ChunkSeq(m, n) == [i \in 1..n |-> <<m, i>>]

\* The chunks a message has let go so far are a sequence of its chunk numbers.
LEMMA ChunksAreSeq ==
  ASSUME NEW m \in Nat, NEW n \in Nat
  PROVE  /\ ChunkSeq(m, n) \in Seq(ChunkIds)
         /\ Len(ChunkSeq(m, n)) = n
         /\ \A i \in 1..n : ChunkSeq(m, n)[i] = <<m, i>>
<1> DEFINE c == ChunkSeq(m, n)
<1>1. c \in [1..n -> ChunkIds] /\ DOMAIN c = 1..n
  BY DEF ChunkIds, ChunkSeq
<1>2. c \in Seq(ChunkIds)
  BY <1>1, SeqDef
<1>3. DOMAIN c = 1..Len(c) /\ Len(c) \in Nat
  BY <1>2, LenProperties
<1>4. Len(c) = n
  BY <1>1, <1>3
<1>5. \A i \in 1..n : c[i] = <<m, i>>
  BY DEF ChunkSeq
<1> QED
  BY <1>2, <1>4, <1>5

\* A sequence is the concatenation of two others exactly when each has its share.
LEMMA SplitSeq ==
  ASSUME NEW S, NEW s \in Seq(S), NEW t \in Seq(S), NEW c \in Seq(S)
  PROVE  s \o t = c <=>
           /\ Len(s) + Len(t) = Len(c)
           /\ \A d \in 1..Len(s) : s[d] = c[d]
           /\ \A d \in 1..Len(t) : t[d] = c[Len(s) + d]
<1>1. s \o t \in Seq(S) /\ Len(s \o t) = Len(s) + Len(t)
  BY ConcatProperties
<1>2. \A i \in 1 .. Len(s) + Len(t) :
        (s \o t)[i] = IF i <= Len(s) THEN s[i] ELSE t[i - Len(s)]
  BY ConcatProperties
<1>3. Len(s) \in Nat /\ Len(t) \in Nat
  BY LenProperties
<1>4. \A d \in 1..Len(s) : (s \o t)[d] = s[d]
  BY <1>2, <1>3
<1>5. ASSUME NEW d \in 1..Len(t) PROVE (s \o t)[Len(s) + d] = t[d]
  <2>1. Len(s) + d \in 1..(Len(s) + Len(t)) /\ ~(Len(s) + d <= Len(s)) /\ (Len(s) + d) - Len(s) = d
    BY <1>3
  <2> QED
    BY <1>2, <2>1
<1>6. ASSUME s \o t = c
      PROVE  /\ Len(s) + Len(t) = Len(c)
             /\ \A d \in 1..Len(s) : s[d] = c[d]
             /\ \A d \in 1..Len(t) : t[d] = c[Len(s) + d]
  BY <1>1, <1>4, <1>5, <1>6
<1>7. ASSUME /\ Len(s) + Len(t) = Len(c)
             /\ \A d \in 1..Len(s) : s[d] = c[d]
             /\ \A d \in 1..Len(t) : t[d] = c[Len(s) + d]
      PROVE  s \o t = c
  <2>1. ASSUME NEW i \in 1..Len(c) PROVE (s \o t)[i] = c[i]
    <3>1. CASE i <= Len(s)
      BY <1>3, <1>4, <1>7, <3>1
    <3>2. CASE ~(i <= Len(s))
      <4>1. i - Len(s) \in 1..Len(t) /\ Len(s) + (i - Len(s)) = i
        BY <1>3, <1>7, <3>2
      <4> QED
        BY <1>5, <1>7, <4>1
    <3> QED
      BY <3>1, <3>2
  <2> QED
    BY <1>1, <1>7, <2>1, SeqEqual
<1> QED
  BY <1>6, <1>7

\* What Append() does, element by element.
LEMMA Appended ==
  ASSUME NEW S, NEW b \in Seq(S), NEW c \in S, NEW data, data = Append(b, c)
  PROVE  /\ data \in Seq(S) /\ data # <<>> /\ Len(data) = Len(b) + 1
         /\ \A d \in 1..Len(b) : data[d] = b[d]
         /\ data[Len(b) + 1] = c
BY AppendProperties

\* Chunk fed + 1 continues the chunks before it.
LEMMA NextChunk ==
  ASSUME NEW m \in Nat, NEW n \in Nat
  PROVE  \A i \in 1..n : ChunkSeq(m, n)[i] = ChunkSeq(m, n + 1)[i]
BY DEF ChunkSeq

\* What the filters are shown when the next chunk arrives.
Data == Current(<<message, fed + 1>>)

\* The data a chunk is shown as: what is held and the chunk, the chunks that follow
\* those already out.
LEMMA ArrivingData ==
  ASSUME ChainInv, status = "open", fed < MaxChunks
  PROVE  /\ Data \in Seq(ChunkIds) /\ Data # <<>>
         /\ Len(Data) = Len(state.buffer) + 1
         /\ Len(out) + Len(Data) = fed + 1
         /\ \A d \in 1..Len(Data) : Data[d] = ChunkSeq(message, fed + 1)[Len(out) + d]
         /\ \A d \in 1..Len(out) : out[d] = ChunkSeq(message, fed + 1)[d]
         /\ out \o Data = ChunkSeq(message, fed + 1)
<1> DEFINE c == <<message, fed + 1>>
<1>1. /\ out \in Seq(ChunkIds) /\ state.buffer \in Seq(ChunkIds)
      /\ message \in Nat /\ fed \in Nat /\ fed + 1 \in Nat
  BY ChainAssumption DEF ChainInv, ChainTypes
<1>2. c \in ChunkIds
  BY <1>1 DEF ChunkIds
<1>3. Data = Append(state.buffer, c)
  BY <1>2, CurrentAppends DEF ChainInv, Data
<1>3a. c = ChunkSeq(message, fed + 1)[fed + 1]
  BY <1>1 DEF ChunkSeq
<1> HIDE DEF c
<1>4. /\ Data \in Seq(ChunkIds) /\ Data # <<>> /\ Len(Data) = Len(state.buffer) + 1
      /\ \A d \in 1..Len(state.buffer) : Data[d] = state.buffer[d]
      /\ Data[Len(state.buffer) + 1] = c
  BY <1>1, <1>2, <1>3, Appended
<1>5. out \o state.buffer = ChunkSeq(message, fed)
  BY DEF ChainInv, NothingLostInChain, Chunks, ChunkSeq
<1>6. ChunkSeq(message, fed) \in Seq(ChunkIds) /\ Len(ChunkSeq(message, fed)) = fed
  BY <1>1, ChunksAreSeq
<1>7. ChunkSeq(message, fed + 1) \in Seq(ChunkIds) /\ Len(ChunkSeq(message, fed + 1)) = fed + 1
  BY <1>1, ChunksAreSeq
<1>8. /\ Len(out) + Len(state.buffer) = fed
      /\ \A d \in 1..Len(out) : out[d] = ChunkSeq(message, fed)[d]
      /\ \A d \in 1..Len(state.buffer) : state.buffer[d] = ChunkSeq(message, fed)[Len(out) + d]
  <2>1. /\ Len(out) + Len(state.buffer) = Len(ChunkSeq(message, fed))
        /\ \A d \in 1..Len(out) : out[d] = ChunkSeq(message, fed)[d]
        /\ \A d \in 1..Len(state.buffer) :
             state.buffer[d] = ChunkSeq(message, fed)[Len(out) + d]
    <3>1. ChunkSeq(message, fed) \in Seq(ChunkIds)
      BY <1>6
    <3> QED
      BY <1>1, <1>5, <3>1, SplitSeq
  <2> QED
    BY <1>6, <2>1
<1>9. Len(out) \in Nat /\ Len(state.buffer) \in Nat
  BY <1>1, LenProperties
<1>10. Len(out) + Len(Data) = fed + 1
  BY <1>1, <1>4, <1>8, <1>9
<1>11. \A i \in 1..fed : ChunkSeq(message, fed)[i] = ChunkSeq(message, fed + 1)[i]
  BY <1>1, NextChunk
<1>12. \A d \in 1..Len(out) : out[d] = ChunkSeq(message, fed + 1)[d]
  BY <1>1, <1>8, <1>9, <1>11
<1>13. ASSUME NEW d \in 1..Len(Data) PROVE Data[d] = ChunkSeq(message, fed + 1)[Len(out) + d]
  <2>1. CASE d = Len(state.buffer) + 1
    <3>1. Len(out) + d = fed + 1
      BY <1>8, <1>9, <2>1
    <3> QED
      BY <1>3a, <1>4, <2>1, <3>1
  <2>2. CASE d # Len(state.buffer) + 1
    <3>1. d \in 1..Len(state.buffer) /\ Len(out) + d \in 1..fed
      BY <1>1, <1>4, <1>8, <1>9, <2>2
    <3> QED
      BY <1>4, <1>8, <1>11, <3>1
  <2> QED
    BY <2>1, <2>2
<1>14. out \o Data = ChunkSeq(message, fed + 1)
  <2>1. Len(out) + Len(Data) = Len(ChunkSeq(message, fed + 1))
    BY <1>7, <1>10
  <2> QED
    BY <1>1, <1>4, <1>7, <2>1, <1>12, <1>13, SplitSeq
<1> QED
  BY <1>4, <1>10, <1>12, <1>13, <1>14

\* apply_data() shows the Data to the filters from the first asked to the p-th; the
\* chunks that are out already are not shown again.
LEMMA SeenBy ==
  ASSUME ChainInv, ChunkArrives,
         NEW p \in 0..NumFilters, Shown(Data, p)
  PROVE  /\ seen' \in [1..MaxChunks -> SUBSET (1..NumFilters)]
         /\ UnseenAhead'
         /\ \A d \in 1..Len(out) : seen'[d] = seen[d]
         /\ \A d \in 1..Len(Data) : Len(out) + d \in 1..MaxChunks
              /\ seen'[Len(out) + d] = seen[Len(out) + d] \cup (FirstAsked..p)
<1>1. status = "open" /\ fed < MaxChunks /\ fed' = fed + 1
  BY DEF ChunkArrives
<1>2. /\ Data \in Seq(ChunkIds) /\ Len(out) + Len(Data) = fed + 1
      /\ \A d \in 1..Len(Data) : Data[d] = ChunkSeq(message, fed + 1)[Len(out) + d]
  BY <1>1, ArrivingData
<1>3. /\ message \in Nat /\ fed \in Nat /\ fed + 1 \in Nat /\ MaxChunks \in Nat /\ NumFilters \in Nat /\ out \in Seq(ChunkIds)
      /\ seen \in [1..MaxChunks -> SUBSET (1..NumFilters)]
      /\ FirstAsked \in Nat /\ FirstAsked >= 1
  BY ChainAssumption DEF ChainInv, ChainTypes, FirstAsked
<1>4. Len(out) \in Nat /\ Len(Data) \in Nat
  BY <1>2, <1>3, LenProperties
<1>5. (FirstAsked..p) \subseteq 1..NumFilters
  BY <1>3
<1>6. seen' = [i \in 1..MaxChunks |->
                 IF \E d \in 1..Len(Data) : Data[d] = <<message, i>>
                 THEN seen[i] \cup (FirstAsked..p) ELSE seen[i]]
  BY DEF Shown
<1>7. ASSUME NEW i \in 1..MaxChunks
      PROVE  (\E d \in 1..Len(Data) : Data[d] = <<message, i>>) <=> i > Len(out) /\ i <= fed + 1
  <2>1. ASSUME NEW d \in 1..Len(Data)
        PROVE  Len(out) + d \in 1..(fed + 1) /\ Data[d] = <<message, Len(out) + d>>
    <3>1. Len(out) + d \in 1..(fed + 1)
      BY <1>2, <1>3, <1>4
    <3>2. ChunkSeq(message, fed + 1)[Len(out) + d] = <<message, Len(out) + d>>
      BY <1>3, <3>1, ChunksAreSeq
    <3> QED
      BY <1>2, <3>1, <3>2
  <2>2. ASSUME NEW d \in 1..Len(Data), Data[d] = <<message, i>>
        PROVE  i > Len(out) /\ i <= fed + 1
    <3>1. <<message, i>> = <<message, Len(out) + d>>
      BY <2>1, <2>2
    <3>2. i = Len(out) + d
      BY <3>1
    <3>3. Len(out) + d \in 1..(fed + 1) /\ d \in Nat /\ d >= 1
      BY <1>4, <2>1
    <3> QED
      BY <1>3, <1>4, <3>2, <3>3
  <2>3. ASSUME i > Len(out), i <= fed + 1
        PROVE  \E d \in 1..Len(Data) : Data[d] = <<message, i>>
    <3> DEFINE e == i - Len(out)
    <3>1. e \in 1..Len(Data) /\ Len(out) + e = i
      BY <1>2, <1>3, <1>4, <2>3
    <3>2. Data[e] = <<message, i>>
      <4> HIDE DEF e
      <4> QED
        BY <2>1, <3>1
    <3> QED
      BY <3>1, <3>2
  <2> QED
    BY <2>2, <2>3
<1>8. \A i \in 1..MaxChunks :
        seen'[i] = IF i > Len(out) /\ i <= fed + 1 THEN seen[i] \cup (FirstAsked..p) ELSE seen[i]
  BY <1>6, <1>7
<1>9. seen' \in [1..MaxChunks -> SUBSET (1..NumFilters)]
  BY <1>3, <1>5, <1>6
<1>10. UnseenAhead'
  <2> SUFFICES ASSUME NEW i \in 1..MaxChunks, i > fed' PROVE seen'[i] = {}
    BY DEF UnseenAhead
  <2>1. i > fed /\ ~(i <= fed + 1)
    BY <1>1, <1>3
  <2>2. seen'[i] = seen[i]
    BY <1>8, <2>1
  <2> QED
    BY <2>1, <2>2 DEF UnseenAhead, ChainInv
<1>11. ASSUME NEW d \in 1..Len(out) PROVE seen'[d] = seen[d]
  <2>1. d \in 1..MaxChunks /\ ~(d > Len(out))
    BY <1>1, <1>2, <1>3, <1>4
  <2> QED
    BY <1>8, <2>1
<1>12. ASSUME NEW d \in 1..Len(Data)
       PROVE  /\ Len(out) + d \in 1..MaxChunks
              /\ seen'[Len(out) + d] = seen[Len(out) + d] \cup (FirstAsked..p)
  <2>1. Len(out) + d \in 1..MaxChunks /\ Len(out) + d > Len(out) /\ Len(out) + d <= fed + 1
    BY <1>1, <1>2, <1>3, <1>4
  <2> QED
    BY <1>8, <2>1
<1> QED
  BY <1>9, <1>10, <1>11, <1>12

\* The index of a chunk in the data.
LEMMA DataIndex ==
  ASSUME ChainInv, status = "open", fed < MaxChunks, NEW d \in 1..Len(Data)
  PROVE  Data[d][2] = Len(out) + d
<1>1. /\ out \in Seq(ChunkIds) /\ message \in Nat /\ fed \in Nat /\ fed + 1 \in Nat
  BY ChainAssumption DEF ChainInv, ChainTypes
<1>2. /\ Data \in Seq(ChunkIds) /\ Len(out) + Len(Data) = fed + 1
      /\ Data[d] = ChunkSeq(message, fed + 1)[Len(out) + d]
  BY ArrivingData
<1>3. Len(out) \in Nat /\ Len(Data) \in Nat
  BY <1>1, <1>2, LenProperties
<1>4. Len(out) + d \in 1..(fed + 1)
  BY <1>1, <1>2, <1>3
<1>5. ChunkSeq(message, fed + 1)[Len(out) + d] = <<message, Len(out) + d>>
  BY <1>1, <1>4, ChunksAreSeq
<1> QED
  BY <1>2, <1>5

\* The same for what is held already.
LEMMA HeldIndex ==
  ASSUME ChainInv, status = "open", fed < MaxChunks, NEW d \in 1..Len(state.buffer)
  PROVE  state.buffer[d][2] = Len(out) + d
<1>1. state.buffer \in Seq(ChunkIds) /\ message \in Nat /\ fed \in Nat
  BY ChainAssumption DEF ChainInv, ChainTypes
<1>2. <<message, fed + 1>> \in ChunkIds
  BY <1>1 DEF ChunkIds
<1>3. Data = Append(state.buffer, <<message, fed + 1>>)
  BY <1>2, CurrentAppends DEF ChainInv, Data
<1>4. Len(Data) = Len(state.buffer) + 1 /\ Data[d] = state.buffer[d]
  BY <1>1, <1>2, <1>3, Appended
<1>5. d \in 1..Len(Data)
  BY <1>1, <1>4, LenProperties
<1>6. Data[d][2] = Len(out) + d
  BY <1>5, DataIndex
<1> QED
  BY <1>4, <1>6

\* The same for what is out.
LEMMA OutIndex ==
  ASSUME ChainInv, status = "open", fed < MaxChunks, NEW d \in 1..Len(out)
  PROVE  out[d][2] = d
<1>1. /\ out \in Seq(ChunkIds) /\ message \in Nat /\ fed \in Nat /\ fed + 1 \in Nat
  BY ChainAssumption DEF ChainInv, ChainTypes
<1>2. /\ Data \in Seq(ChunkIds) /\ Len(out) + Len(Data) = fed + 1
      /\ out[d] = ChunkSeq(message, fed + 1)[d]
  BY ArrivingData
<1>3. Len(out) \in Nat /\ Len(Data) \in Nat
  BY <1>1, <1>2, LenProperties
<1>4. d \in 1..(fed + 1)
  BY <1>1, <1>2, <1>3
<1>5. ChunkSeq(message, fed + 1)[d] = <<message, d>>
  BY <1>1, <1>4, ChunksAreSeq
<1> QED
  BY <1>2, <1>5

\* The empty gate satisfies what is asked of a gate.
LEMMA ClearHolds ==
  /\ Clear \in [blocked : BOOLEAN, at : 0..NumFilters, buffer : Seq(ChunkIds)]
  /\ Len(Clear.buffer) = 0 /\ Clear.buffer = <<>> /\ ~Clear.blocked
<1>1. <<>> \in Seq(ChunkIds) /\ Len(<<>>) = 0
  BY EmptySeq
<1> QED
  BY <1>1, ChainAssumption DEF Clear

\* What a rejected message leaves: an empty gate.
LEMMA RefusedKeeps ==
  ASSUME ChainInv, ChunkArrives, NEW p \in 0..NumFilters, Shown(Data, p),
         state' = Clear, status' = "rejected", out' = out
  PROVE  ChainInv'
<1>1. seen' \in [1..MaxChunks -> SUBSET (1..NumFilters)] /\ UnseenAhead'
  BY SeenBy
<1>2. ChainTypes'
  BY <1>1, ClearHolds, ChainAssumption DEF ChainTypes, ChainInv, ChunkArrives
<1>3. NothingLostInChain'
  BY DEF NothingLostInChain
<1>4. WatermarkHolds'
  BY ClearHolds, GateAssumption DEF WatermarkHolds
<1>5. HeldBackInTurn'
  BY ClearHolds DEF HeldBackInTurn
<1> QED
  BY <1>1, <1>2, <1>3, <1>4, <1>5 DEF ChainInv

\* What data that goes out leaves: an empty gate, and everything fed is out.
LEMMA ForwardedKeeps ==
  ASSUME ChainInv, ChunkArrives, NEW p \in 0..NumFilters, Shown(Data, p),
         state' = Clear, status' \in {"open", "ended"}, out' = out \o Data,
         status' = "open" => p = NumFilters
  PROVE  ChainInv'
<1>0. status = "open" /\ fed < MaxChunks /\ fed' = fed + 1 /\ message' = message
  BY DEF ChunkArrives
<1>1. seen' \in [1..MaxChunks -> SUBSET (1..NumFilters)] /\ UnseenAhead'
  BY SeenBy
<1>2. /\ Data \in Seq(ChunkIds) /\ Len(out) + Len(Data) = fed + 1
      /\ out \o Data = ChunkSeq(message, fed + 1)
  BY <1>0, ArrivingData
<1>3. out \in Seq(ChunkIds) /\ fed \in Nat /\ MaxChunks \in Nat /\ NumFilters \in Nat
  BY ChainAssumption DEF ChainInv, ChainTypes
<1>4. out \o Data \in Seq(ChunkIds) /\ Len(out \o Data) = Len(out) + Len(Data)
  BY <1>2, <1>3, ConcatProperties
<1>5. ChainTypes'
  BY <1>0, <1>1, <1>3, <1>4, ClearHolds, ChainAssumption DEF ChainTypes, ChainInv
<1>6. NothingLostInChain'
  <2>1. out' = ChunkSeq(message', fed')
    BY <1>0, <1>2
  <2>2. out' \o <<>> = out'
    BY <1>4, ConcatEmptySeq
  <2> QED
    BY <2>1, <2>2, ClearHolds DEF NothingLostInChain, Chunks, ChunkSeq
<1>7. WatermarkHolds'
  BY ClearHolds, GateAssumption DEF WatermarkHolds
<1>8. HeldBackInTurn'
  <2>1. SUFFICES ASSUME NumFilters > 0, status' = "open", NEW d \in 1..Len(out')
                 PROVE  NumFilters \in seen'[out'[d][2]]
    BY ClearHolds DEF HeldBackInTurn
  <2>2. Len(out) \in Nat /\ Len(Data) \in Nat
    BY <1>2, <1>3, LenProperties
  <2>3. CASE d <= Len(out)
    <3>1. d \in 1..Len(out) /\ (out \o Data)[d] = out[d]
      BY <1>2, <1>3, <1>4, <2>2, <2>3, ConcatProperties
    <3>2. out[d][2] = d
      BY <1>0, <3>1, OutIndex
    <3>3. NumFilters \in seen[d]
      BY <1>0, <2>1, <3>1, <3>2 DEF ChainInv, HeldBackInTurn
    <3>4. seen'[d] = seen[d]
      BY <3>1, SeenBy
    <3> QED
      BY <3>1, <3>2, <3>3, <3>4
  <2>4. CASE ~(d <= Len(out))
    <3> DEFINE e == d - Len(out)
    <3>1. e \in 1..Len(Data) /\ Len(out) + e = d /\ (out \o Data)[d] = Data[e]
      BY <1>2, <1>3, <1>4, <2>2, <2>4, ConcatProperties
    <3> HIDE DEF e
    <3>2. Data[e][2] = d
      BY <1>0, <3>1, DataIndex
    <3>3. seen'[d] = seen[d] \cup (FirstAsked..p)
      BY <3>1, SeenBy
    <3>4. NumFilters \in FirstAsked..p
      BY <1>3, <2>1 DEF FirstAsked, ChainInv, ChainTypes
    <3> QED
      BY <3>1, <3>2, <3>3, <3>4
  <2> QED
    BY <2>3, <2>4
<1> QED
  BY <1>1, <1>5, <1>6, <1>7, <1>8 DEF ChainInv

\* What a filter that stops leaves: the data is held, and the filter is the last one
\* that has seen it.
LEMMA BufferedKeeps ==
  ASSUME ChainInv, ChunkArrives, NEW p \in 1..NumFilters, p >= FirstAsked, Shown(Data, p),
         Len(Data) <= HighWatermark,
         state' = [blocked |-> TRUE, at |-> p, buffer |-> Data], status' = status, out' = out
  PROVE  ChainInv'
<1>0. status = "open" /\ fed < MaxChunks /\ fed' = fed + 1 /\ message' = message
  BY DEF ChunkArrives
<1>1. /\ seen' \in [1..MaxChunks -> SUBSET (1..NumFilters)] /\ UnseenAhead'
      /\ \A d \in 1..Len(out) : seen'[d] = seen[d]
      /\ \A d \in 1..Len(Data) : Len(out) + d \in 1..MaxChunks
           /\ seen'[Len(out) + d] = seen[Len(out) + d] \cup (FirstAsked..p)
  <2>1. p \in 0..NumFilters
    BY ChainAssumption
  <2> QED
    BY <2>1, SeenBy
<1>2. /\ Data \in Seq(ChunkIds) /\ Data # <<>> /\ Len(out) + Len(Data) = fed + 1
      /\ Len(Data) = Len(state.buffer) + 1
      /\ out \o Data = ChunkSeq(message, fed + 1)
  BY <1>0, ArrivingData
<1>3. /\ out \in Seq(ChunkIds) /\ fed \in Nat /\ MaxChunks \in Nat /\ NumFilters \in Nat
      /\ state.buffer \in Seq(ChunkIds)
  BY ChainAssumption DEF ChainInv, ChainTypes
<1>4. Len(out) \in Nat /\ Len(Data) \in Nat /\ Len(state.buffer) \in Nat
  BY <1>2, <1>3, LenProperties
<1>5. ChainTypes'
  BY <1>0, <1>1, <1>2, <1>3, ChainAssumption DEF ChainTypes, ChainInv
<1>6. NothingLostInChain'
  BY <1>0, <1>2 DEF NothingLostInChain, Chunks, ChunkSeq
<1>7. WatermarkHolds'
  BY <1>2 DEF WatermarkHolds
<1>8. HeldBackInTurn'
  <2>1. ASSUME NEW d \in 1..Len(Data)
        PROVE  p \in seen'[Data[d][2]] /\ \A q \in seen'[Data[d][2]] : q <= p
    <3>1. Data[d][2] = Len(out) + d
      BY <1>0, DataIndex
    <3>2. seen'[Len(out) + d] = seen[Len(out) + d] \cup (FirstAsked..p)
      BY <1>1
    <3>3. FirstAsked \in Nat /\ FirstAsked >= 1
      BY ChainAssumption DEF ChainInv, ChainTypes, FirstAsked
    <3>4. p \in FirstAsked..p /\ \A q \in FirstAsked..p : q <= p
      BY <1>3, <3>3
    <3>5. \A q \in seen[Len(out) + d] : q <= p
      <4>1. CASE d = Len(Data)
        BY <1>0, <1>1, <1>2, <1>3, <4>1 DEF ChainInv, UnseenAhead
      <4>2. CASE d # Len(Data)
        <5>1. d \in 1..Len(state.buffer)
          BY <1>2, <1>4, <4>2
        <5>2. state.buffer # <<>> /\ state.blocked
          BY <1>3, <5>1, EmptySeq DEF ChainInv, WatermarkHolds
        <5>3. state.at <= p /\ state.at \in Nat
          BY <5>2 DEF FirstAsked, ChainInv, ChainTypes
        <5>4. state.buffer[d][2] = Len(out) + d
          BY <5>1, HeldIndex, <1>0
        <5>5. \A q \in seen[Len(out) + d] : q <= state.at
          BY <5>1, <5>4 DEF ChainInv, HeldBackInTurn
        <5>6. seen[Len(out) + d] \subseteq Nat
          BY <1>1, <1>3 DEF ChainInv, ChainTypes
        <5> QED
          BY <1>3, <5>3, <5>5, <5>6
      <4> QED
        BY <4>1, <4>2
    <3> QED
      BY <3>1, <3>2, <3>4, <3>5
  <2>2. ASSUME NumFilters > 0, NEW d \in 1..Len(out) PROVE NumFilters \in seen'[out[d][2]]
    <3>1. out[d][2] = d
      BY <1>0, OutIndex
    <3> QED
      BY <1>0, <1>1, <2>2, <3>1 DEF ChainInv, HeldBackInTurn
  <2> QED
    BY <2>1, <2>2 DEF HeldBackInTurn
<1> QED
  BY <1>1, <1>5, <1>6, <1>7, <1>8 DEF ChainInv

\* Types used with the length of the data.
LEMMA DataLength ==
  ASSUME ChainInv, ChunkArrives
  PROVE  /\ Len(Data) \in Nat /\ Len(out) \in Nat /\ Len(state.buffer) \in Nat
         /\ Len(Data) = Len(state.buffer) + 1
         /\ Len(out \o Data) = Len(out) + Len(Data)
<1>1. Data \in Seq(ChunkIds) /\ Len(Data) = Len(state.buffer) + 1
  BY ArrivingData DEF ChunkArrives
<1>2. out \in Seq(ChunkIds) /\ state.buffer \in Seq(ChunkIds)
  BY DEF ChainInv, ChainTypes
<1> QED
  BY <1>1, <1>2, LenProperties, ConcatProperties

\* ChainInv holds at first.
LEMMA InitChain == Init => ChainInv
<1> SUFFICES ASSUME Init PROVE ChainInv
  OBVIOUS
<1> USE DEF Init
<1>1. <<>> \in Seq(ChunkIds) /\ Len(<<>>) = 0
  BY EmptySeq
<1>2. ChainTypes
  BY <1>1, ClearHolds, ChainAssumption DEF ChainTypes
<1>3. NothingLostInChain
  <2>1. ChunkSeq(1, 0) = <<>>
    BY DEF ChunkSeq
  <2>2. <<>> \o <<>> = <<>>
    BY <1>1, ConcatEmptySeq
  <2> QED
    BY <2>1, <2>2, ClearHolds DEF NothingLostInChain, Chunks, ChunkSeq
<1>4. WatermarkHolds
  BY ClearHolds, GateAssumption DEF WatermarkHolds
<1>5. HeldBackInTurn
  BY <1>1, ClearHolds DEF HeldBackInTurn
<1> QED
  BY <1>2, <1>3, <1>4, <1>5 DEF ChainInv, UnseenAhead

\* The next message of the connection finds the chain as the first one did.
LEMMA NextMessageKeeps == ChainInv /\ NextMessage => ChainInv'
<1> SUFFICES ASSUME ChainInv, NextMessage PROVE ChainInv'
  OBVIOUS
<1>0. /\ state' = Clear /\ message' = message + 1 /\ fed' = 0 /\ out' = <<>>
      /\ seen' = [i \in 1..MaxChunks |-> {}] /\ status' = "open"
  BY DEF NextMessage, AfterReset
<1>1. <<>> \in Seq(ChunkIds) /\ Len(<<>>) = 0
  BY EmptySeq
<1>2. ChainTypes'
  BY <1>0, <1>1, ClearHolds, ChainAssumption DEF ChainTypes, ChainInv
<1>3. NothingLostInChain'
  <2>1. ChunkSeq(message', 0) = <<>>
    BY DEF ChunkSeq
  <2>2. <<>> \o <<>> = <<>>
    BY <1>1, ConcatEmptySeq
  <2> QED
    BY <1>0, <2>1, <2>2, ClearHolds DEF NothingLostInChain, Chunks, ChunkSeq
<1>4. WatermarkHolds'
  BY <1>0, ClearHolds, GateAssumption DEF WatermarkHolds
<1>5. HeldBackInTurn'
  BY <1>0, <1>1, ClearHolds DEF HeldBackInTurn
<1> QED
  BY <1>0, <1>2, <1>3, <1>4, <1>5 DEF ChainInv, UnseenAhead

\* Every step keeps ChainInv.
LEMMA StepChain == ChainInv /\ [Next]_vars => ChainInv'
<1> SUFFICES ASSUME ChainInv, [Next]_vars PROVE ChainInv'
  OBVIOUS
<1>0. NumFilters \in 0..NumFilters /\ \A p \in 1..NumFilters : p \in 0..NumFilters
  BY ChainAssumption
<1>1. ASSUME NEW end_stream \in BOOLEAN, ChunkPasses(end_stream) PROVE ChainInv'
  BY <1>0, <1>1, ForwardedKeeps DEF ChunkPasses, Finished, Data
<1>2. ASSUME NEW p \in 1..NumFilters, ChunkRefused(p) PROVE ChainInv'
  BY <1>0, <1>2, RefusedKeeps DEF ChunkRefused, Data
<1>3. ASSUME NEW p \in 1..NumFilters, NEW end_stream \in BOOLEAN, ChunkStopped(p, end_stream)
      PROVE  ChainInv'
  <2>1. ChunkArrives /\ Shown(Data, p) /\ p >= FirstAsked
    BY <1>3, ChainAssumption DEF ChunkStopped, Data, FirstAsked, ChainInv, ChainTypes
  <2>2. CASE OverWatermark(Len(Data)) /\ state' = Clear /\ status' = "rejected" /\ UNCHANGED out
    BY <1>0, <2>1, <2>2, RefusedKeeps
  <2>3. CASE state' = Clear /\ out' = out \o Data /\ status' = "ended"
    BY <1>0, <2>1, <2>3, ForwardedKeeps
  <2>4. CASE /\ ~OverWatermark(Len(Data))
             /\ state' = [blocked |-> TRUE, at |-> p, buffer |-> Data]
             /\ UNCHANGED <<out, status>>
    <3>1. Len(Data) <= HighWatermark
      BY <2>1, <2>4, DataLength, GateAssumption DEF OverWatermark
    <3> QED
      BY <2>1, <2>4, <3>1, BufferedKeeps
  <2> QED
    BY <1>3, <2>2, <2>3, <2>4 DEF ChunkStopped, Data
<1>4. CASE EndWithoutChunk
  BY <1>4 DEF EndWithoutChunk, ChainInv, ChainTypes, UnseenAhead, NothingLostInChain,
              WatermarkHolds, HeldBackInTurn, Chunks
<1>5. CASE NextMessage
  BY <1>5, NextMessageKeeps
<1>6. CASE UNCHANGED vars
  BY <1>6 DEF vars, ChainInv, ChainTypes, UnseenAhead, NothingLostInChain, WatermarkHolds,
              HeldBackInTurn, Chunks
<1> QED
  BY <1>1, <1>2, <1>3, <1>4, <1>5, <1>6 DEF Next

\* What a chain of any length has let through, holds back and has not seen yet (apply_data(),
\* reset()) makes up the body, in every state.
THEOREM ChainInvariant == Spec => []ChainInv
BY InitChain, StepChain, PTL DEF Spec

\* Filters may stop, continue or refuse as they like: chunks leave a chain of any
\* length in order, each once, and those not out are held (apply_data(), reset()).
THEOREM NothingLost == Spec => []NothingLostInChain
<1>1. ChainInv => NothingLostInChain
  BY DEF ChainInv
<1> QED
  BY <1>1, ChainInvariant, PTL

\* The gate never keeps more than body_buffer_high_watermark_bytes between chunks.
THEOREM WatermarkKept == Spec => []WatermarkHolds
<1>1. ChainInv => WatermarkHolds
  BY DEF ChainInv
<1> QED
  BY <1>1, ChainInvariant, PTL

\* What a filter holds back no later filter has seen, and what goes out of an open
\* message the last filter has seen: blocked_filter_index resumes where it stopped.
THEOREM HeldBack == Spec => []HeldBackInTurn
<1>1. ChainInv => HeldBackInTurn
  BY DEF ChainInv
<1> QED
  BY <1>1, ChainInvariant, PTL

\* For one chunk: the verdict the gate is given stands for what the filters did.
LEMMA StepMatchesGate ==
  ASSUME ChainInv, [Next]_vars, fed' = fed + 1
  PROVE  \E v \in Verdicts :
           LET g == apply(Len(state.buffer), v, status' = "ended")
           IN /\ Len(state'.buffer) = g.buf
              /\ status' # "rejected" => Len(out') = Len(out) + g.data
              /\ status' = "rejected" <=> g.outcome = "reject"
<1> DEFINE Matches(v) == LET g == apply(Len(state.buffer), v, status' = "ended")
                         IN /\ Len(state'.buffer) = g.buf
                            /\ status' # "rejected" => Len(out') = Len(out) + g.data
                            /\ status' = "rejected" <=> g.outcome = "reject"
<1>0. fed \in Nat
  BY ChainAssumption DEF ChainInv, ChainTypes
<1>1. ASSUME NEW end_stream \in BOOLEAN, ChunkPasses(end_stream) PROVE Matches("continue")
  <2>1. /\ ChunkArrives /\ state' = Clear /\ out' = out \o Data
        /\ status' \in {"open", "ended"}
    BY <1>1 DEF ChunkPasses, Finished, Data
  <2>2. apply(Len(state.buffer), "continue", status' = "ended")
          = [outcome |-> "forward", data |-> Len(state.buffer) + 1, buf |-> 0]
    BY DEF apply
  <2>3. Len(out') = Len(out) + (Len(state.buffer) + 1) /\ Len(state'.buffer) = 0
    BY <2>1, ClearHolds, DataLength
  <2> QED
    BY <2>1, <2>2, <2>3
<1>2. ASSUME NEW p \in 1..NumFilters, ChunkRefused(p) PROVE Matches("respond")
  BY <1>2, ClearHolds DEF ChunkRefused, apply
<1>3. ASSUME NEW p \in 1..NumFilters, NEW end_stream \in BOOLEAN, ChunkStopped(p, end_stream)
      PROVE  Matches("stop")
  <2>1. ChunkArrives /\ status = "open"
    BY <1>3 DEF ChunkStopped, ChunkArrives
  <2>2. OverWatermark(Len(Data)) <=> OverWatermark(Len(state.buffer) + 1)
    BY <2>1, DataLength
  <2>3. CASE OverWatermark(Len(Data)) /\ state' = Clear /\ status' = "rejected" /\ UNCHANGED out
    BY <2>2, <2>3, ClearHolds DEF apply
  <2>4. CASE ~OverWatermark(Len(Data)) /\ state' = Clear /\ out' = out \o Data /\ status' = "ended"
    <3>1. apply(Len(state.buffer), "stop", status' = "ended")
            = [outcome |-> "forward", data |-> Len(state.buffer) + 1, buf |-> 0]
      BY <2>2, <2>4 DEF apply
    <3>2. Len(out') = Len(out) + (Len(state.buffer) + 1) /\ Len(state'.buffer) = 0
      BY <2>1, <2>4, ClearHolds, DataLength
    <3> QED
      BY <2>4, <3>1, <3>2
  <2>5. CASE /\ ~OverWatermark(Len(Data))
             /\ state' = [blocked |-> TRUE, at |-> p, buffer |-> Data]
             /\ UNCHANGED <<out, status>>
    BY <2>1, <2>2, <2>5, DataLength DEF apply
  <2> QED
    BY <1>3, <2>3, <2>4, <2>5 DEF ChunkStopped, Data
<1>4. ~EndWithoutChunk /\ ~NextMessage /\ ~UNCHANGED vars
  BY <1>0 DEF EndWithoutChunk, NextMessage, vars
<1> QED
  BY <1>1, <1>2, <1>3, <1>4 DEF Next, Verdicts

\* The one-verdict gate that HttpSession uses is what a chain of any length does.
THEOREM GateIsChain == Spec => ChainMatchesGate
<1>1. ChainInv /\ [Next]_vars =>
        [fed' = fed + 1 =>
           \E v \in Verdicts :
             LET g == apply(Len(state.buffer), v, status' = "ended")
             IN /\ Len(state'.buffer) = g.buf
                /\ status' # "rejected" => Len(out') = Len(out) + g.data
                /\ status' = "rejected" <=> g.outcome = "reject"]_vars
  BY StepMatchesGate
<1> QED
  BY <1>1, ChainInvariant, PTL DEF Spec, ChainMatchesGate
-----------------------------------------------------------------------------
\* A non-empty set of naturals has a least element.
LEMMA LeastNumber ==
  ASSUME NEW T \in SUBSET Nat, T # {}
  PROVE  \E n \in T : \A m \in T : n <= m
<1> DEFINE R == OpToRel(<, Nat)
<1>1. IsWellFoundedOn(R, Nat)
  BY NatLessThanWellFounded
<1>2. \A x, y \in Nat : <<x, y>> \in R <=> x < y
  BY DEF OpToRel
<1> HIDE DEF R
<1>3. PICK n \in T : \A m \in T : <<m, n>> \notin R
  BY <1>1, WFMin
<1>4. \A m \in T : n <= m
  <2> SUFFICES ASSUME NEW m \in T PROVE n <= m
    OBVIOUS
  <2>1. m \in Nat /\ n \in Nat
    OBVIOUS
  <2>2. ~(m < n)
    BY <1>2, <1>3, <2>1
  <2> QED
    BY <2>1, <2>2
<1> QED
  BY <1>4

\* Induction over the naturals: a set that has 0 and, with each n, n + 1, has them all.
LEMMA SetInduction ==
  ASSUME NEW S, 0 \in S, \A n \in Nat : n \in S => n + 1 \in S
  PROVE  Nat \subseteq S
<1> SUFFICES ASSUME Nat \ S # {} PROVE FALSE
  OBVIOUS
<1>1. PICK n \in Nat \ S : \A m \in Nat \ S : n <= m
  BY LeastNumber
<1>2. n # 0 /\ n \in Nat
  OBVIOUS
<1>3. n - 1 \in Nat /\ (n - 1) + 1 = n /\ ~(n <= n - 1)
  BY <1>2
<1>4. n - 1 \in S
  BY <1>1, <1>3
<1> QED
  BY <1>3, <1>4

\* The closed form for no chunk at all.
LEMMA NothingDrained ==
  ASSUME NEW buf \in Nat, NEW e \in BOOLEAN, NEW V \in SUBSET Verdicts
  PROVE  DrainClosedForm(buf, 0, e, V) = {Draining(0, buf)}
<1>1. Passed(buf, 0, e, V) = {0}
  BY DEF Passed
<1>2. ~Rejected(buf, 0, V)
  BY DEF Rejected
<1>3. ForwardedBy(buf, 0) = 0 /\ HeldBy(buf, 0, 0) = buf
  BY DEF ForwardedBy, HeldBy
<1>4. {Draining(ForwardedBy(buf, j), HeldBy(buf, 0, j)) : j \in {0}} = {Draining(0, buf)}
  BY <1>3
<1> QED
  BY <1>1, <1>2, <1>4 DEF DrainClosedForm

\* The loop after i chunks, the last of which let through was the j-th.
Drained(buf, i, j) == Draining(ForwardedBy(buf, j), HeldBy(buf, i, j))

\* What is out and what is held add up.
LEMMA DrainTotals ==
  ASSUME NEW buf \in Nat, NEW i \in Nat, NEW j \in 0..i
  PROVE  /\ ForwardedBy(buf, j) \in Nat /\ HeldBy(buf, i, j) \in Nat
         /\ ForwardedBy(buf, j) + HeldBy(buf, i, j) = buf + i
         /\ HeldBy(buf, i, j) = (IF j = 0 THEN buf ELSE 0) + (i - j)
         /\ HeldBy(buf, i, j) <= buf + i
         /\ HeldBy(buf, i + 1, j) = HeldBy(buf, i, j) + 1
         /\ ForwardedBy(buf, i + 1) = buf + i + 1 /\ HeldBy(buf, i + 1, i + 1) = 0
BY DEF ForwardedBy, HeldBy

\* One chunk: a "continue", or a "stop" on the last, lets everything go; another "stop"
\* keeps the chunk; the rest is refused.
LEMMA OneChunk ==
  ASSUME NEW buf \in Nat, NEW i \in Nat, NEW j \in 0..i, NEW e \in BOOLEAN
  PROVE  LET over == OverWatermark(HeldBy(buf, i, j) + 1) IN
         /\ ProcessChunk(Drained(buf, i, j), "respond", e) = Refusal
         /\ ProcessChunk(Drained(buf, i, j), "continue", e) = Drained(buf, i + 1, i + 1)
         /\ over => ProcessChunk(Drained(buf, i, j), "stop", e) = Refusal
         /\ ~over /\ e => ProcessChunk(Drained(buf, i, j), "stop", e) = Drained(buf, i + 1, i + 1)
         /\ ~over /\ ~e => ProcessChunk(Drained(buf, i, j), "stop", e) = Drained(buf, i + 1, j)
<1> DEFINE F == ForwardedBy(buf, j)
           H == HeldBy(buf, i, j)
<1>0. F \in Nat /\ H \in Nat /\ F + H = buf + i
  BY DrainTotals
<1>1. F + (H + 1) = buf + i + 1 /\ F + 0 = F
  <2> HIDE DEF F, H
  <2> QED
    BY <1>0
<1>2. Drained(buf, i + 1, i + 1) = Draining(F + (H + 1), 0)
  BY <1>0, <1>1, DrainTotals DEF Drained
<1>3. Drained(buf, i + 1, j) = Draining(F + 0, H + 1)
  BY <1>0, <1>1, DrainTotals DEF Drained
<1>4. Drained(buf, i, j).outcome = "ok" /\ Drained(buf, i, j).fwd = F /\ Drained(buf, i, j).held = H
  BY DEF Drained, Draining
<1> HIDE DEF F, H
<1>5. ASSUME NEW v, NEW how, NEW data, NEW b, how # "reject",
             apply(H, v, e) = [outcome |-> how, data |-> data, buf |-> b]
      PROVE  ProcessChunk(Drained(buf, i, j), v, e) = Draining(F + data, b)
  BY <1>4, <1>5 DEF ProcessChunk
<1>6. ASSUME NEW v, apply(H, v, e) = [outcome |-> "reject", data |-> 0, buf |-> 0]
      PROVE  ProcessChunk(Drained(buf, i, j), v, e) = Refusal
  BY <1>4, <1>6 DEF ProcessChunk
<1>7. ProcessChunk(Drained(buf, i, j), "respond", e) = Refusal
  BY <1>6 DEF apply
<1>8. ProcessChunk(Drained(buf, i, j), "continue", e) = Drained(buf, i + 1, i + 1)
  <2>1. apply(H, "continue", e) = [outcome |-> "forward", data |-> H + 1, buf |-> 0]
    BY DEF apply
  <2> QED
    BY <1>2, <1>5, <2>1
<1>9. OverWatermark(H + 1) => ProcessChunk(Drained(buf, i, j), "stop", e) = Refusal
  BY <1>6 DEF apply
<1>10. ASSUME ~OverWatermark(H + 1), e
       PROVE  ProcessChunk(Drained(buf, i, j), "stop", e) = Drained(buf, i + 1, i + 1)
  <2>1. apply(H, "stop", e) = [outcome |-> "forward", data |-> H + 1, buf |-> 0]
    BY <1>10 DEF apply
  <2> QED
    BY <1>2, <1>5, <2>1
<1>11. ASSUME ~OverWatermark(H + 1), ~e
       PROVE  ProcessChunk(Drained(buf, i, j), "stop", e) = Drained(buf, i + 1, j)
  <2>1. apply(H, "stop", e) = [outcome |-> "buffering", data |-> 0, buf |-> H + 1]
    BY <1>11 DEF apply
  <2> QED
    BY <1>3, <1>5, <2>1
<1> QED
  BY <1>7, <1>8, <1>9, <1>10, <1>11 DEF H

\* The states after one more chunk.
LEMMA ChunkProcessedBy ==
  ASSUME NEW S, NEW e, NEW V
  PROVE  \A x : x \in ChunkProcessed(S, e, V) <=> \E s \in S, v \in V : x = ProcessChunk(s, v, e)
<1>1. ASSUME NEW s \in S, NEW v \in V PROVE ProcessChunk(s, v, e) \in ChunkProcessed(S, e, V)
  <2>1. <<s, v>> \in S \X V /\ <<s, v>>[1] = s /\ <<s, v>>[2] = v
    OBVIOUS
  <2> QED
    BY <2>1 DEF ChunkProcessed
<1>2. ASSUME NEW x \in ChunkProcessed(S, e, V)
      PROVE  \E s \in S, v \in V : x = ProcessChunk(s, v, e)
  <2>1. PICK q \in S \X V : x = ProcessChunk(q[1], q[2], e)
    BY DEF ChunkProcessed
  <2>2. q[1] \in S /\ q[2] \in V
    OBVIOUS
  <2> QED
    BY <2>1, <2>2
<1> QED
  BY <1>1, <1>2

\* The closed form obeys the loop's equation: one more chunk, with any verdict of V.
LEMMA ClosedFormStep ==
  ASSUME NEW buf \in Nat, NEW i \in Nat, NEW e \in BOOLEAN, NEW V \in SUBSET Verdicts
  PROVE  DrainClosedForm(buf, i + 1, e, V)
           = ChunkProcessed(DrainClosedForm(buf, i, FALSE, V), e, V)
<1> DEFINE A == DrainClosedForm(buf, i, FALSE, V)
           B == DrainClosedForm(buf, i + 1, e, V)
           C == ChunkProcessed(A, e, V)
<1>0. \A n \in Nat, m \in Nat : n <= m /\ OverWatermark(n) => OverWatermark(m)
  BY GateAssumption DEF OverWatermark
<1>1. \A x : x \in A <=> \/ \E j \in Passed(buf, i, FALSE, V) : x = Drained(buf, i, j)
                         \/ x = Refusal /\ Rejected(buf, i, V)
  BY DEF DrainClosedForm, Drained
<1>2. \A x : x \in B <=> \/ \E j \in Passed(buf, i + 1, e, V) : x = Drained(buf, i + 1, j)
                         \/ x = Refusal /\ Rejected(buf, i + 1, V)
  BY DEF DrainClosedForm, Drained
<1> HIDE DEF A, B
<1>3. \A x : x \in C <=> \E s \in A, v \in V : x = ProcessChunk(s, v, e)
  BY ChunkProcessedBy
<1>4. \A v : ProcessChunk(Refusal, v, e) = Refusal
  BY DEF ProcessChunk, Refusal
<1> HIDE DEF C
<1>5. \A v \in V : v \in {"continue", "stop", "respond"}
  BY DEF Verdicts
<1>6. 0 \in Passed(buf, i, FALSE, V) <=> i = 0 \/ ("stop" \in V /\ ~OverWatermark(buf + i))
  BY DEF Passed
<1>7. "continue" \in V => i \in Passed(buf, i, FALSE, V)
  BY DEF Passed
<1>8. \A j \in Passed(buf, i, FALSE, V) : j \in 0..i
  BY DEF Passed
<1>9. \A j \in Passed(buf, i, FALSE, V) : Drained(buf, i, j) \in A
  BY <1>1
<1>10. 0 \in 0..i /\ i \in 0..i
  OBVIOUS
<1>11. \A s \in A, v \in V : ProcessChunk(s, v, e) \in C
  BY <1>3
<1>12. ASSUME NEW x \in C PROVE x \in B
  <2>1. PICK s \in A, v \in V : x = ProcessChunk(s, v, e)
    BY <1>3, <1>12
  <2>2. CASE s = Refusal /\ Rejected(buf, i, V)
    <3>1. Rejected(buf, i + 1, V)
      BY <1>0, <2>2 DEF Rejected
    <3> QED
      BY <1>2, <1>4, <2>1, <2>2, <3>1
  <2>3. ASSUME NEW j \in Passed(buf, i, FALSE, V), s = Drained(buf, i, j) PROVE x \in B
    <3> DEFINE H == HeldBy(buf, i, j)
    <3>1. j \in 0..i /\ H \in Nat /\ H <= buf + i /\ H = (IF j = 0 THEN buf ELSE 0) + (i - j)
      BY <1>8, DrainTotals
    <3>2. CASE v = "respond"
      <4>1. Rejected(buf, i + 1, V)
        BY <3>2 DEF Rejected
      <4> QED
        BY <1>2, <2>1, <2>3, <3>1, <3>2, <4>1, OneChunk
    <3>3. CASE v = "continue"
      <4>1. i + 1 \in Passed(buf, i + 1, e, V)
        BY <3>3 DEF Passed
      <4> QED
        BY <1>2, <2>1, <2>3, <3>1, <3>3, <4>1, OneChunk
    <3>4. CASE v = "stop" /\ OverWatermark(H + 1)
      <4>1. Rejected(buf, i + 1, V)
        BY <1>0, <3>1, <3>4 DEF Rejected
      <4> QED
        BY <1>2, <2>1, <2>3, <3>1, <3>4, <4>1, OneChunk
    <3>5. CASE v = "stop" /\ ~OverWatermark(H + 1) /\ e
      <4>1. i + 1 \in Passed(buf, i + 1, e, V)
        <5>1. CASE j = 0
          BY <3>1, <3>5, <5>1 DEF Passed
        <5>2. CASE j # 0
          BY <3>1, <3>5, <5>2 DEF Passed
        <5> QED
          BY <5>1, <5>2
      <4> QED
        BY <1>2, <2>1, <2>3, <3>1, <3>5, <4>1, OneChunk
    <3>6. CASE v = "stop" /\ ~OverWatermark(H + 1) /\ ~e
      <4>1. (IF j = 0 THEN buf ELSE 0) + (i + 1 - j) = H + 1 /\ j \in 0..(i + 1) /\ j < i + 1
        BY <3>1
      <4>2. j > 0 => "continue" \in V
        BY <2>3 DEF Passed
      <4>3. j \in Passed(buf, i + 1, e, V)
        BY <3>6, <4>1, <4>2 DEF Passed
      <4> QED
        BY <1>2, <2>1, <2>3, <3>1, <3>6, <4>3, OneChunk
    <3> QED
      BY <1>5, <3>2, <3>3, <3>4, <3>5, <3>6
  <2> QED
    BY <1>1, <2>2, <2>3
<1>13. ASSUME NEW x \in B PROVE x \in C
  <2>1. CASE x = Refusal /\ Rejected(buf, i + 1, V)
    <3>1. CASE Rejected(buf, i, V)
      <4>1. Refusal \in A /\ \E v \in V : TRUE
        BY <1>1, <3>1 DEF Rejected
      <4> QED
        BY <1>3, <1>4, <2>1, <4>1
    <3>2. CASE ~Rejected(buf, i, V) /\ "respond" \in V
      <4>1. i = 0
        BY <3>2 DEF Rejected
      <4>2. 0 \in Passed(buf, i, FALSE, V)
        BY <1>6, <4>1
      <4>3. ProcessChunk(Drained(buf, i, 0), "respond", e) = Refusal
        BY <1>10, OneChunk
      <4> QED
        BY <1>9, <1>11, <2>1, <3>2, <4>2, <4>3
    <3>3. CASE ~Rejected(buf, i, V) /\ "stop" \in V /\ OverWatermark(buf + i + 1)
      <4>1. i = 0 \/ ~OverWatermark(buf + i)
        BY <3>3 DEF Rejected
      <4>2. 0 \in Passed(buf, i, FALSE, V)
        BY <1>6, <3>3, <4>1
      <4>3. HeldBy(buf, i, 0) + 1 = buf + i + 1
        BY DEF HeldBy
      <4>4. ProcessChunk(Drained(buf, i, 0), "stop", e) = Refusal
        BY <1>10, <3>3, <4>3, OneChunk
      <4> QED
        BY <1>9, <1>11, <2>1, <3>3, <4>2, <4>4
    <3>4. "respond" \in V \/ ("stop" \in V /\ OverWatermark(buf + i + 1))
      <4>1. buf + (i + 1) = buf + i + 1
        OBVIOUS
      <4> QED
        BY <2>1, <4>1 DEF Rejected
    <3> QED
      BY <3>1, <3>2, <3>3, <3>4
  <2>2. ASSUME NEW j \in Passed(buf, i + 1, e, V), x = Drained(buf, i + 1, j) PROVE x \in C
    <3>1. CASE j = i + 1 /\ "continue" \in V
      <4>1. ProcessChunk(Drained(buf, i, i), "continue", e) = Drained(buf, i + 1, i + 1)
        BY <1>10, OneChunk
      <4> QED
        BY <1>7, <1>9, <1>11, <2>2, <3>1, <4>1
    <3>2. CASE j = i + 1 /\ "continue" \notin V
      <4>1. e /\ "stop" \in V /\ ~OverWatermark(buf + (i + 1))
        BY <3>2 DEF Passed
      <4>2. ~OverWatermark(buf + i) /\ buf + (i + 1) = buf + i + 1
        BY <1>0, <4>1
      <4>3. 0 \in Passed(buf, i, FALSE, V)
        BY <1>6, <4>1, <4>2
      <4>4. HeldBy(buf, i, 0) + 1 = buf + i + 1
        BY DEF HeldBy
      <4>5. ProcessChunk(Drained(buf, i, 0), "stop", e) = Drained(buf, i + 1, i + 1)
        BY <1>10, <4>1, <4>2, <4>4, OneChunk
      <4> QED
        BY <1>9, <1>11, <2>2, <3>2, <4>1, <4>3, <4>5
    <3>3. CASE j # i + 1
      <4>1. j \in 0..i /\ "stop" \in V /\ ~e
        BY <3>3 DEF Passed
      <4>2. ~OverWatermark((IF j = 0 THEN buf ELSE 0) + (i + 1 - j)) /\ (j > 0 => "continue" \in V)
        BY <3>3, <4>1 DEF Passed
      <4>3. /\ HeldBy(buf, i, j) = (IF j = 0 THEN buf ELSE 0) + (i - j) /\ HeldBy(buf, i, j) \in Nat
            /\ HeldBy(buf, i, j) + 1 = (IF j = 0 THEN buf ELSE 0) + (i + 1 - j)
        <5>1. HeldBy(buf, i, j) = (IF j = 0 THEN buf ELSE 0) + (i - j) /\ HeldBy(buf, i, j) \in Nat
          BY <4>1, DrainTotals
        <5>2. (IF j = 0 THEN buf ELSE 0) \in Nat /\ i - j \in Nat /\ i + 1 - j = (i - j) + 1
          BY <4>1
        <5> QED
          BY <5>1, <5>2
      <4>4. ~OverWatermark(HeldBy(buf, i, j) + 1) /\ ~OverWatermark(HeldBy(buf, i, j))
        BY <1>0, <4>2, <4>3
      <4>5. j \in Passed(buf, i, FALSE, V)
        BY <4>1, <4>2, <4>3, <4>4 DEF Passed
      <4>6. ProcessChunk(Drained(buf, i, j), "stop", e) = Drained(buf, i + 1, j)
        BY <4>1, <4>4, OneChunk
      <4> QED
        BY <1>9, <1>11, <2>2, <4>1, <4>5, <4>6
    <3> QED
      BY <3>1, <3>2, <3>3
  <2> QED
    BY <1>2, <2>1, <2>2
<1> QED
  BY <1>12, <1>13 DEF A, B, C

\* The recursion of DrainLoop.
LoopStates(f, buf, k, e, V) ==
  f = [i \in 0..k |-> IF i = 0 THEN {Draining(0, buf)}
                      ELSE ChunkProcessed(f[i - 1], e /\ i = k, V)]

\* Every function that obeys it is the closed form, by induction.
LEMMA LoopUnique ==
  ASSUME NEW buf \in Nat, NEW k \in Nat, NEW e \in BOOLEAN, NEW V \in SUBSET Verdicts,
         NEW f, LoopStates(f, buf, k, e, V)
  PROVE  f[k] = DrainClosedForm(buf, k, e, V)
<1> DEFINE Right(i) == i \in 0..k => f[i] = DrainClosedForm(buf, i, e /\ i = k, V)
           S == {i \in Nat : Right(i)}
<1>0. \A i \in 0..k : f[i] = IF i = 0 THEN {Draining(0, buf)}
                             ELSE ChunkProcessed(f[i - 1], e /\ i = k, V)
  BY DEF LoopStates
<1>1. 0 \in S
  <2>1. Right(0)
    BY <1>0, NothingDrained
  <2> QED
    BY <2>1
<1>2. ASSUME NEW n \in Nat, n \in S PROVE n + 1 \in S
  <2>1. SUFFICES ASSUME n + 1 \in 0..k
                 PROVE  f[n + 1] = DrainClosedForm(buf, n + 1, e /\ n + 1 = k, V)
    OBVIOUS
  <2>2. n \in 0..k /\ n # k /\ n + 1 # 0 /\ (n + 1) - 1 = n
    BY <2>1
  <2>3. (e /\ n = k) = FALSE /\ (e /\ n + 1 = k) \in BOOLEAN
    BY <2>2
  <2>4. f[n] = DrainClosedForm(buf, n, FALSE, V)
    BY <1>2, <2>2, <2>3
  <2>5. f[n + 1] = ChunkProcessed(f[n], e /\ n + 1 = k, V)
    BY <1>0, <2>1, <2>2
  <2>6. DrainClosedForm(buf, n + 1, e /\ n + 1 = k, V)
          = ChunkProcessed(DrainClosedForm(buf, n, FALSE, V), e /\ n + 1 = k, V)
    BY <2>3, ClosedFormStep
  <2> QED
    BY <2>4, <2>5, <2>6
<1> HIDE DEF S
<1>3. Nat \subseteq S
  BY <1>1, <1>2, SetInduction
<1>4. Right(k)
  BY <1>3 DEF S
<1>5. (e /\ k = k) = e /\ k \in 0..k
  OBVIOUS
<1> QED
  BY <1>4, <1>5

\* The closed form itself obeys it: the recursion defines something.
LEMMA LoopExists ==
  ASSUME NEW buf \in Nat, NEW k \in Nat, NEW e \in BOOLEAN, NEW V \in SUBSET Verdicts
  PROVE  \E f : LoopStates(f, buf, k, e, V)
<1> DEFINE D(i) == DrainClosedForm(buf, i, e /\ i = k, V)
           f == [i \in 0..k |-> D(i)]
<1>1. ASSUME NEW i \in 0..k
      PROVE  D(i) = IF i = 0 THEN {Draining(0, buf)} ELSE ChunkProcessed(f[i - 1], e /\ i = k, V)
  <2>0. (e /\ i = k) \in BOOLEAN /\ i \in Nat
    OBVIOUS
  <2>1. CASE i = 0
    BY <2>0, <2>1, NothingDrained
  <2>2. CASE i # 0
    <3>1. i - 1 \in 0..k /\ i - 1 \in Nat /\ i - 1 # k /\ (i - 1) + 1 = i
      BY <2>2
    <3>2. (e /\ i - 1 = k) = FALSE
      BY <3>1
    <3>3. f[i - 1] = DrainClosedForm(buf, i - 1, FALSE, V)
      BY <3>1, <3>2
    <3>4. DrainClosedForm(buf, (i - 1) + 1, e /\ i = k, V)
            = ChunkProcessed(DrainClosedForm(buf, i - 1, FALSE, V), e /\ i = k, V)
      BY <2>0, <3>1, ClosedFormStep
    <3> QED
      BY <2>2, <3>1, <3>3, <3>4
  <2> QED
    BY <2>1, <2>2
<1>2. f = [i \in 0..k |-> IF i = 0 THEN {Draining(0, buf)}
                          ELSE ChunkProcessed(f[i - 1], e /\ i = k, V)]
  BY <1>1
<1> HIDE DEF f
<1> QED
  BY <1>2 DEF LoopStates

\* So the loop computes the closed form.
LEMMA LoopIsClosedForm ==
  ASSUME NEW buf \in Nat, NEW k \in Nat, NEW e \in BOOLEAN, NEW V \in SUBSET Verdicts
  PROVE  DrainLoop(buf, k, e, V) = DrainClosedForm(buf, k, e, V)
<1> DEFINE G == CHOOSE g : LoopStates(g, buf, k, e, V)
<1>1. LoopStates(G, buf, k, e, V)
  BY LoopExists
<1>2. DrainLoop(buf, k, e, V) = G[k]
  BY Zenon DEF DrainLoop, LoopStates
<1> HIDE DEF G
<1> QED
  BY <1>1, <1>2, LoopUnique

\* For every number of chunks in a read, every set of verdicts and whatever the gate
\* holds, the drain loops of HttpSession leave exactly what Passed and Rejected say.
THEOREM DrainIsClosedForm == Spec => []DrainMatchesApply
<1>1. ChainInv => DrainMatchesApply
  <2> SUFFICES ASSUME ChainInv, NEW k \in 0..MaxRead, NEW e \in BOOLEAN, NEW V \in SUBSET Verdicts
               PROVE  DrainLoop(Len(state.buffer), k, e, V)
                        = DrainClosedForm(Len(state.buffer), k, e, V)
    BY DEF DrainMatchesApply
  <2>1. Len(state.buffer) \in Nat /\ k \in Nat
    BY DEF ChainInv, ChainTypes
  <2> QED
    BY <2>1, LoopIsClosedForm
<1> QED
  BY <1>1, ChainInvariant, PTL
=============================================================================
