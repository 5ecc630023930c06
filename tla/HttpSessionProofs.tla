------------------------- MODULE HttpSessionProofs -------------------------
(***************************************************************************)
(* The sessions of a shard, for any number of sessions, endpoints and      *)
(* requests, any size of body, read, head, buffer and watermark, and any   *)
(* verdicts of the filters.                                                *)
(*                                                                         *)
(* Ownership.  OwnInv: the types, the connection of each operation, and    *)
(* unique ownership.  The first part gives what each operator on a session *)
(* record keeps; the second shows that each handler is Good: it keeps the  *)
(* types, leaves its session linked to its connection, leaves the other    *)
(* sessions alone, and takes one step of the connection pool or none.      *)
(* That the other sessions stay linked follows from unique ownership       *)
(* (UpstreamResolverProofs!StepSeparate).                                  *)
(*                                                                         *)
(* Streams.  SoundInv adds what each session's own fields say of its       *)
(* request, its response, its retry and the operation under way (Sound);   *)
(* WireInv relates them to what the server at the other end has received   *)
(* and owes (Wired).  Each handler is shown to be a SoundStep and, given   *)
(* WireInv, a WireStep; unique ownership again keeps it from disturbing    *)
(* the others.                                                             *)
(*                                                                         *)
(* Counters.  CountInv, on top of SoundInv: each handler counts one event  *)
(* at most before it may close (Tally).  TypeOK, whose counters are        *)
(* naturals, follows from Types and CountInv.                              *)
(*                                                                         *)
(* What is left to do.  AdvanceInv, on top of SoundInv: no more is read of *)
(* a message than it has, so that ToDo is a natural number.  Each operator *)
(* on a session is bounded in what it leaves to do, and from that each     *)
(* handler Advances its session.                                           *)
(***************************************************************************)
EXTENDS HttpSession, SerializerLemmas, FiniteSetTheorems

\* What a constructor and a reset leave is well-typed.
LEMMA FreshTypes ==
  /\ FreshRequest \in RequestSides
  /\ FreshRetry \in RetryStates
  /\ FreshResponse \in ResponseSides
  /\ FreshSession \in SessionStates
  /\ ClosedSession \in SessionStates
<1>0. StartSerializer(FALSE) \in Serializers
  BY StartType
<1>1. FreshRequest \in RequestSides
  BY <1>0 DEF FreshRequest, RequestSides, Framings
<1>2. FreshRetry \in RetryStates
  BY DEF FreshRetry, RetryStates
<1>3. FreshResponse \in ResponseSides
  BY <1>0 DEF FreshResponse, ResponseSides, Framings
<1>4. 0 \in Endpoints
  BY UpstreamAssumption DEF Endpoints
<1>5. FreshSession \in SessionStates
  BY <1>1, <1>2, <1>3, <1>4 DEF FreshSession, SessionStates, Pending
<1>6. ClosedSession \in SessionStates
  BY <1>5 DEF ClosedSession, SessionStates, Pending
<1> QED
  BY <1>1, <1>2, <1>3, <1>5, <1>6

\* start_response_phase() keeps the types, upstream_ and the request.
LEMMA StartResponseType ==
  ASSUME NEW x \in SessionStates
  PROVE  /\ StartResponsePhase(x) \in SessionStates
         /\ StartResponsePhase(x).pend = "read_up"
         /\ StartResponsePhase(x).up = x.up
         /\ StartResponsePhase(x).ep = x.ep
         /\ StartResponsePhase(x).rq = x.rq
<1>1. StartSerializer(FALSE) \in Serializers
  BY StartType
<1> QED
  BY <1>1 DEF StartResponsePhase, SessionStates, ResponseSides, Pending

\* pull_and_write_request_to_upstream() keeps the types and upstream_, and ends in a
\* write, in one of the two reads, or in close().
LEMMA PullRequestType ==
  ASSUME NEW x \in SessionStates
  PROVE  /\ PullRequest(x) \in SessionStates
         /\ PullRequest(x).pend \in {"write_up", "read_up", "read_down", "closed"}
         /\ PullRequest(x).up = x.up
         /\ PullRequest(x).ep = x.ep
         /\ PullRequest(x).rq.connecting = x.rq.connecting
         /\ PullRequest(x).rq.started = x.rq.started
<1> DEFINE n == Pulled(x.rq.ser)
           y == [x EXCEPT !.rq.ser = pull(@)]
<1>1. x.rq.ser \in Serializers /\ x.num \in Nat
  BY DEF SessionStates, RequestSides
<1>2. n \in Nat /\ pull(x.rq.ser) \in Serializers
  BY <1>1, PullType
<1>3. /\ y \in SessionStates /\ y.up = x.up /\ y.ep = x.ep
      /\ y.rq.connecting = x.rq.connecting /\ y.rq.started = x.rq.started
  BY <1>2 DEF SessionStates, RequestSides
<1> HIDE DEF n, y
<1> DEFINE R == PullRequest(x)
<1>4. R \in { [y EXCEPT !.pend = "write_up", !.rt.n = n, !.rt.captured = TRUE,
                        !.rt.snap = n, !.rt.snapOf = x.num],
              [y EXCEPT !.pend = "write_up", !.rt.n = n],
              StartResponsePhase(y),
              [y EXCEPT !.pend = "read_down"],
              [y EXCEPT !.pend = "closed"] }
  BY DEF PullRequest, n, y
<1> HIDE DEF R
<1>5. CASE R = [y EXCEPT !.pend = "write_up", !.rt.n = n, !.rt.captured = TRUE,
                        !.rt.snap = n, !.rt.snapOf = x.num]
  <2> DEFINE r == [y.rt EXCEPT !.n = n, !.captured = TRUE, !.snap = n, !.snapOf = x.num]
  <2>1. r \in RetryStates
    BY <1>1, <1>2, <1>3 DEF SessionStates, RetryStates
  <2>2. R = [y EXCEPT !.pend = "write_up", !.rt = r]
    BY <1>3, <1>5 DEF SessionStates, RetryStates
  <2> HIDE DEF r
  <2> QED
    BY <1>3, <2>1, <2>2 DEF SessionStates, Pending, R
<1>6. CASE R = [y EXCEPT !.pend = "write_up", !.rt.n = n]
  <2> DEFINE r == [y.rt EXCEPT !.n = n]
  <2>1. r \in RetryStates
    BY <1>1, <1>2, <1>3 DEF SessionStates, RetryStates
  <2>2. R = [y EXCEPT !.pend = "write_up", !.rt = r]
    BY <1>3, <1>6 DEF SessionStates, RetryStates
  <2> HIDE DEF r
  <2> QED
    BY <1>3, <2>1, <2>2 DEF SessionStates, Pending, R
<1>7. CASE R = StartResponsePhase(y)
  BY <1>3, <1>7, StartResponseType DEF R
<1>8. CASE R = [y EXCEPT !.pend = "read_down"]
  BY <1>3, <1>8 DEF SessionStates, Pending, R
<1>9. CASE R = [y EXCEPT !.pend = "closed"]
  BY <1>3, <1>9 DEF SessionStates, Pending, R
<1> QED
  BY <1>4, <1>5, <1>6, <1>7, <1>8, <1>9

\* The heads of messages, and what a read delivers.
Heads == [framing : Framings, len : Nat, keep : BOOLEAN]
Reads == [k : Nat, end : BOOLEAN]

\* A request head is well-typed.
LEMMA RequestsType ==
  ASSUME NEW x \in SessionStates, NEW r \in Requests(x)
  PROVE  r \in Heads
<1>1. CASE x.rq.started
  BY <1>1 DEF Requests, Heads, SessionStates, RequestSides
<1>2. CASE ~x.rq.started
  <2>1. r \in [framing : ReqFramings, len : 0..MaxBody, keep : BOOLEAN]
    BY <1>2 DEF Requests
  <2>2. ReqFramings \subseteq Framings /\ 0..MaxBody \subseteq Nat
    BY SessionAssumption DEF Framings
  <2> QED
    BY <2>1, <2>2 DEF Heads
<1> QED
  BY <1>1, <1>2

\* A response head is well-typed.
LEMMA ResponsesType ==
  ASSUME NEW x \in SessionStates, NEW r \in Responses(x)
  PROVE  r \in Heads
<1>1. CASE x.rs.started
  BY <1>1 DEF Responses, Heads, SessionStates, ResponseSides
<1>2. CASE ~x.rs.started
  <2>1. r \in [framing : RespFramings, len : 0..MaxBody, keep : BOOLEAN]
    BY <1>2 DEF Responses
  <2>2. RespFramings \subseteq Framings /\ 0..MaxBody \subseteq Nat
    BY SessionAssumption DEF Framings
  <2> QED
    BY <2>1, <2>2 DEF Heads
<1> QED
  BY <1>1, <1>2

\* What a read delivers is well-typed.
LEMMA ArrivalsType ==
  ASSUME NEW framing, NEW len \in Nat, NEW got \in Nat, NEW a \in Arrivals(framing, len, got)
  PROVE  a \in Reads
<1>1. Lesser(MaxRead, len - got) \in Int
  BY SessionAssumption DEF Lesser
<1> QED
  BY <1>1 DEF Arrivals, Reads

\* The gate lets through and keeps a number of units.
LEMMA PassedType ==
  ASSUME NEW buf \in Nat, NEW k \in Nat, NEW end_stream, NEW V, NEW j \in Passed(buf, k, end_stream, V)
  PROVE  ForwardedBy(buf, j) \in Nat /\ HeldBy(buf, k, j) \in Nat
BY DEF Passed, ForwardedBy, HeldBy

\* Parsing a read keeps the types and leaves upstream_ alone.
LEMMA ParsedRequestType ==
  ASSUME NEW x \in SessionStates, NEW r \in Heads, NEW a \in Reads
  PROVE  /\ ParsedRequest(x, r, a) \in SessionStates
         /\ ParsedRequest(x, r, a).up = x.up
         /\ ParsedRequest(x, r, a).ep = x.ep
         /\ ParsedRequest(x, r, a).pend = x.pend
         /\ ParsedRequest(x, r, a).rs = x.rs
         /\ ParsedRequest(x, r, a).rq.started
         /\ ParsedRequest(x, r, a).rq.connecting = x.rq.connecting
         /\ ParsedRequest(x, r, a).rq.ser =
              IF x.rq.started THEN x.rq.ser ELSE StartSerializer(r.framing = "chunked")
<1> DEFINE ser == IF x.rq.started THEN x.rq.ser ELSE StartSerializer(r.framing = "chunked")
           q == [x.rq EXCEPT !.started = TRUE, !.framing = r.framing, !.len = r.len,
                             !.keep = r.keep, !.got = @ + a.k, !.done = a.end, !.ser = ser]
<1>0. x.rq \in RequestSides
  BY DEF SessionStates
<1>1. ser \in Serializers
  BY <1>0, StartType DEF RequestSides
<1>2. ParsedRequest(x, r, a) = [x EXCEPT !.rq = q]
  BY DEF ParsedRequest, SessionStates, RequestSides
<1> HIDE DEF ser
<1>3. x.rq.got + a.k \in Nat
  BY <1>0 DEF Reads, RequestSides
<1>4. q \in RequestSides /\ q.started /\ q.connecting = x.rq.connecting /\ q.ser = ser
  BY <1>0, <1>1, <1>3 DEF RequestSides, Heads, Reads
<1> HIDE DEF q
<1> QED
  BY <1>2, <1>4 DEF SessionStates, ser

\* Draining a read into the request serialiser keeps the types, upstream_ and the
\* part of the head still to be sent.
LEMMA DrainedRequestType ==
  ASSUME NEW x \in SessionStates, NEW a \in Reads, NEW j \in Passed(x.rq.held, a.k, a.end, ReqBody)
  PROVE  /\ DrainedRequest(x, a, j) \in SessionStates
         /\ DrainedRequest(x, a, j).up = x.up
         /\ DrainedRequest(x, a, j).ep = x.ep
         /\ DrainedRequest(x, a, j).pend = x.pend
         /\ DrainedRequest(x, a, j).rs = x.rs
         /\ DrainedRequest(x, a, j).rq.started = x.rq.started
         /\ DrainedRequest(x, a, j).rq.connecting = x.rq.connecting
         /\ DrainedRequest(x, a, j).rq.ser.stage = x.rq.ser.stage
         /\ DrainedRequest(x, a, j).rq.ser.head = x.rq.ser.head
<1> DEFINE fwd == ForwardedBy(x.rq.held, j)
           ser == provide_body(x.rq.ser, fwd, a.end)
           q == [x.rq EXCEPT !.held = HeldBy(@, a.k, j), !.given = @ + fwd, !.ser = ser]
<1>0. x.rq \in RequestSides /\ a.k \in Nat /\ a.end \in BOOLEAN
  BY DEF SessionStates, Reads
<1>1. fwd \in Nat /\ HeldBy(x.rq.held, a.k, j) \in Nat
  BY <1>0, PassedType DEF RequestSides
<1>2. ser \in Serializers /\ x.rq.ser \in Serializers
  BY <1>0, <1>1, ProvideType DEF RequestSides
<1>3. ser.stage = x.rq.ser.stage /\ ser.head = x.rq.ser.head
  BY <1>2 DEF provide_body, Serializers
<1>4. DrainedRequest(x, a, j) = [x EXCEPT !.rq = q]
  BY DEF DrainedRequest, SessionStates, RequestSides
<1>6. x.rq.given + fwd \in Nat
  BY <1>0, <1>1 DEF RequestSides
<1> HIDE DEF ser, fwd
<1>5. /\ q \in RequestSides /\ q.ser = ser
      /\ q.started = x.rq.started /\ q.connecting = x.rq.connecting
  BY <1>0, <1>1, <1>2, <1>6 DEF RequestSides
<1> HIDE DEF q
<1> QED
  BY <1>3, <1>4, <1>5 DEF SessionStates

\* respond_directly() keeps the types and upstream_.
LEMMA RespondDirectlyType ==
  ASSUME NEW x \in SessionStates, NEW b \in Nat
  PROVE  /\ RespondDirectly(x, b) \in SessionStates
         /\ RespondDirectly(x, b).pend = "write_down"
         /\ RespondDirectly(x, b).up = x.up
         /\ RespondDirectly(x, b).ep = x.ep
         /\ RespondDirectly(x, b).rs.direct
<1> DEFINE ser == pull(provide_body(StartSerializer(FALSE), b, TRUE))
           q == [x.rs EXCEPT !.direct = TRUE, !.started = TRUE, !.ser = ser, !.heads = @ + 1]
<1>0. x.rs \in ResponseSides
  BY DEF SessionStates
<1>1. ser \in Serializers
  BY StartType, ProvideType, PullType
<1>2. RespondDirectly(x, b) = [x EXCEPT !.pend = "write_down", !.rs = q]
  BY DEF RespondDirectly, SessionStates, ResponseSides
<1> HIDE DEF ser
<1>4. x.rs.heads + 1 \in Nat
  BY <1>0 DEF ResponseSides
<1>3. q \in ResponseSides /\ q.direct
  BY <1>0, <1>1, <1>4 DEF ResponseSides
<1> HIDE DEF q
<1> QED
  BY <1>2, <1>3 DEF SessionStates, Pending

\* Parsing a read of the response keeps the types, upstream_ and the request.
LEMMA ParsedResponseType ==
  ASSUME NEW x \in SessionStates, NEW r \in Heads, NEW a \in Reads
  PROVE  /\ ParsedResponse(x, r, a) \in SessionStates
         /\ ParsedResponse(x, r, a).up = x.up
         /\ ParsedResponse(x, r, a).ep = x.ep
         /\ ParsedResponse(x, r, a).rq = x.rq
         /\ ParsedResponse(x, r, a).rs.held = x.rs.held
<1> DEFINE ser == IF x.rs.started THEN x.rs.ser ELSE StartSerializer(r.framing = "chunked")
           eff == EffectiveKeepAlive(x, r.framing)
           q == [x.rs EXCEPT !.started = TRUE, !.framing = r.framing, !.len = r.len,
                             !.keep = r.keep, !.got = @ + a.k, !.done = a.end,
                             !.eff = eff, !.ser = ser]
           z == [x EXCEPT !.rs.started = TRUE, !.rs.framing = r.framing, !.rs.len = r.len,
                          !.rs.keep = r.keep, !.rs.got = @ + a.k, !.rs.done = a.end,
                          !.rs.eff = eff, !.rs.ser = ser]
<1>0. x.rs \in ResponseSides
  BY DEF SessionStates
<1>1. ser \in Serializers
  BY <1>0, StartType DEF ResponseSides
<1>2. eff \in BOOLEAN
  BY DEF EffectiveKeepAlive
<1>3. ParsedResponse(x, r, a) = [z EXCEPT !.rt.any = TRUE]
  BY DEF ParsedResponse
<1>7. z = [x EXCEPT !.rs = q]
  BY DEF SessionStates, ResponseSides
<1> HIDE DEF ser, eff
<1>4. x.rs.got + a.k \in Nat
  BY <1>0 DEF Reads, ResponseSides
<1>5. q \in ResponseSides /\ q.held = x.rs.held
  BY <1>0, <1>1, <1>2, <1>4 DEF ResponseSides, Heads, Reads
<1> HIDE DEF q, z
<1>8. z \in SessionStates /\ z.up = x.up /\ z.ep = x.ep /\ z.rq = x.rq /\ z.rs.held = x.rs.held
  BY <1>5, <1>7 DEF SessionStates
<1> QED
  BY <1>3, <1>8 DEF SessionStates, RetryStates

\* Draining a read into the response serialiser keeps the types and upstream_.
LEMMA DrainedResponseType ==
  ASSUME NEW x \in SessionStates, NEW a \in Reads, NEW j \in Passed(x.rs.held, a.k, a.end, RespBody)
  PROVE  /\ DrainedResponse(x, a, j) \in SessionStates
         /\ DrainedResponse(x, a, j).up = x.up
         /\ DrainedResponse(x, a, j).ep = x.ep
         /\ DrainedResponse(x, a, j).rq = x.rq
<1> DEFINE fwd == ForwardedBy(x.rs.held, j)
           ser == provide_body(x.rs.ser, fwd, a.end)
           q == [x.rs EXCEPT !.held = HeldBy(@, a.k, j), !.given = @ + fwd, !.ser = ser]
<1>0. x.rs \in ResponseSides /\ a.k \in Nat /\ a.end \in BOOLEAN
  BY DEF SessionStates, Reads
<1>1. fwd \in Nat /\ HeldBy(x.rs.held, a.k, j) \in Nat
  BY <1>0, PassedType DEF ResponseSides
<1>2. ser \in Serializers
  BY <1>0, <1>1, ProvideType DEF ResponseSides
<1>4. DrainedResponse(x, a, j) = [x EXCEPT !.rs = q]
  BY DEF DrainedResponse, SessionStates, ResponseSides
<1>3. x.rs.given + fwd \in Nat
  BY <1>0, <1>1 DEF ResponseSides
<1> HIDE DEF ser, fwd
<1>5. q \in ResponseSides
  BY <1>0, <1>1, <1>2, <1>3 DEF ResponseSides
<1> HIDE DEF q
<1> QED
  BY <1>4, <1>5 DEF SessionStates

\* reset_for_next_request() keeps the types, and upstream_ as the code does.
LEMMA ResetType ==
  ASSUME NEW x \in SessionStates
  PROVE  /\ ResetForNextRequest(x) \in SessionStates
         /\ ResetForNextRequest(x).pend = "read_down"
         /\ ResetForNextRequest(x).up = x.up
         /\ ResetForNextRequest(x).ep = x.ep
         /\ ~ResetForNextRequest(x).rq.started
         /\ ~ResetForNextRequest(x).rq.connecting
<1>1. ~FreshRequest.started /\ ~FreshRequest.connecting
  BY DEF FreshRequest
<1>2. x.num + 1 \in Nat
  BY DEF SessionStates
<1> QED
  BY <1>1, <1>2, FreshTypes DEF ResetForNextRequest, SessionStates, Pending

\* A connection is released only with the last step of a response.
LEMMA PullResponseType ==
  ASSUME NEW x \in SessionStates
  PROVE  LET R == PullResponse(x) IN
         /\ R \in SessionStates
         /\ R.pend \in {"write_down", "read_down", "read_up", "closed"}
         /\ R.up = IF ReleasesUpstream(x) THEN NoConn ELSE x.up
         /\ R.ep = x.ep
         /\ R.pend \in {"write_down", "read_up"} =>
              R.up = x.up /\ R.rq = x.rq /\ R.rs.direct = x.rs.direct
         /\ R.pend = "read_up" => ~x.rs.direct
         /\ R.pend = "read_down" => ~R.rq.started /\ ~R.rq.connecting
<1> DEFINE n == Pulled(x.rs.ser)
           ser == pull(x.rs.ser)
           h == IF x.rs.ser.head = HeadUnits THEN x.rs.heads + 1 ELSE x.rs.heads
           q == [x.rs EXCEPT !.ser = ser, !.heads = h]
           u == IF ReleasesUpstream(x) THEN NoConn ELSE x.up
           y == [x EXCEPT !.rs.ser = pull(@),
                          !.rs.heads = IF x.rs.ser.head = HeadUnits THEN @ + 1 ELSE @,
                          !.up = IF ReleasesUpstream(x) THEN NoConn ELSE @]
           R == PullResponse(x)
           G == /\ R \in SessionStates
                /\ R.pend \in {"write_down", "read_down", "read_up", "closed"}
                /\ R.up = u
                /\ R.ep = x.ep
                /\ R.pend \in {"write_down", "read_up"} =>
                     R.up = x.up /\ R.rq = x.rq /\ R.rs.direct = x.rs.direct
                /\ R.pend = "read_up" => ~x.rs.direct
                /\ R.pend = "read_down" => ~R.rq.started /\ ~R.rq.connecting
<1>0. x.rs \in ResponseSides /\ x.rs.ser \in Serializers /\ x.up \in Conns \cup {NoConn}
  BY DEF SessionStates, ResponseSides
<1>1. n \in Nat /\ ser \in Serializers /\ h \in Nat
  BY <1>0, PullType DEF ResponseSides
<1>2. y = [x EXCEPT !.rs = q, !.up = u]
  BY DEF SessionStates, ResponseSides
<1>3. ReleasesUpstream(x) => n = 0 /\ done(ser)
  BY DEF ReleasesUpstream
<1>4. u \in Conns \cup {NoConn} /\ (~ReleasesUpstream(x) => u = x.up)
  BY <1>0
<1>7. \/ n > 0 /\ R = [y EXCEPT !.pend = "write_down"]
      \/ R = ResetForNextRequest(y)
      \/ ~done(y.rs.ser) /\ ~x.rs.direct /\ R = [y EXCEPT !.pend = "read_up"]
      \/ R = [y EXCEPT !.pend = "closed"]
  BY DEF PullResponse
<1> HIDE DEF ser, u, h
<1>5. q \in ResponseSides /\ q.ser = ser /\ q.direct = x.rs.direct
  BY <1>0, <1>1 DEF ResponseSides
<1> HIDE DEF q, y
<1>6. /\ y \in SessionStates /\ y.up = u /\ y.ep = x.ep /\ y.rq = x.rq
      /\ y.rs.direct = x.rs.direct /\ y.rs.ser = ser
  BY <1>2, <1>4, <1>5 DEF SessionStates
<1> HIDE DEF R, n
<1>8. ASSUME n > 0, R = [y EXCEPT !.pend = "write_down"] PROVE G
  <2>1. u = x.up
    BY <1>1, <1>3, <1>4, <1>8
  <2> QED
    BY <1>6, <1>8, <2>1 DEF SessionStates, Pending
<1>9. ASSUME R = ResetForNextRequest(y) PROVE G
  BY <1>6, <1>9, ResetType
<1>10. ASSUME ~done(y.rs.ser), ~x.rs.direct, R = [y EXCEPT !.pend = "read_up"] PROVE G
  <2>1. u = x.up
    BY <1>3, <1>4, <1>6, <1>10
  <2> QED
    BY <1>6, <1>10, <2>1 DEF SessionStates, Pending
<1>11. ASSUME R = [y EXCEPT !.pend = "closed"] PROVE G
  BY <1>6, <1>11 DEF SessionStates, Pending
<1>12. G
  BY <1>7, <1>8, <1>9, <1>10, <1>11
<1> QED
  BY <1>12 DEF R, u

\* Of UpstreamResolverProofs only what is shown of the pool is used: what stands for
\* the resolver's own state does not matter.
P == INSTANCE UpstreamResolverProofs WITH
  Users <- Sessions,
  hold  <- [s \in Sessions |-> sess[s].up],
  pools <- idle_pools,
  peer  <- Peers(socks),
  NumAddresses <- 0, dns <- 0, resolved <- 0, refresh_timer <- 0, dialling <- 0, addr <- 0

\* TypeOK with counters that may be negative: that they never are takes CountInv.
MetricsTypes ==
  [accepted : Int, active : Int, closed : Int, requests : Int, errors : Int, retries : Int]

Types ==
  /\ next_endpoint \in Endpoints
  /\ idle_pools \in [Endpoints -> Seq(Conns)]
  /\ socks \in [Conns -> Sockets]
  /\ sess \in [Sessions -> SessionStates]
  /\ metrics \in MetricsTypes
  /\ free \in 0..MaxFree

\* The inductive invariant.
OwnInv == Types /\ P!SingleOwner /\ OperationHasConnection

\* What is shown of a step of session s.
Good(s) ==
  /\ Types'
  /\ P!Step(s) \/ UNCHANGED P!vars
  /\ Linked(sess'[s], Peers(socks'))
  /\ \A t \in Sessions \ {s} : sess'[t] = sess[t]

\* The counters stay counters.
LEMMA MetricsType ==
  ASSUME metrics \in MetricsTypes
  PROVE  /\ \A m \in MetricsTypes : AfterClose(m) \in MetricsTypes
         /\ Counted("requests") \in MetricsTypes
         /\ Counted("errors") \in MetricsTypes
         /\ Counted("retries") \in MetricsTypes
         /\ \A s \in Sessions : HeadCounted(sess[s]) \in MetricsTypes
<1>1. \A m \in MetricsTypes : AfterClose(m) \in MetricsTypes
  <2> TAKE m \in MetricsTypes
  <2>1. m.closed + 1 \in Int /\ m.active - 1 \in Int
    BY DEF MetricsTypes
  <2> QED
    BY <2>1 DEF AfterClose, MetricsTypes
<1>2. metrics.requests + 1 \in Int /\ metrics.errors + 1 \in Int /\ metrics.retries + 1 \in Int
  BY DEF MetricsTypes
<1>3. Counted("requests") \in MetricsTypes
  BY <1>2 DEF Counted, MetricsTypes
<1>4. Counted("errors") \in MetricsTypes
  BY <1>2 DEF Counted, MetricsTypes
<1>5. Counted("retries") \in MetricsTypes
  BY <1>2 DEF Counted, MetricsTypes
<1> QED
  BY <1>1, <1>3, <1>4, <1>5 DEF HeadCounted

\* The two ways a socket comes into being are well-typed.
LEMMA NoSocketType == NoSocket \in Sockets /\ \A e \in Endpoints : NewSocket(e) \in Sockets
<1>1. 0 \in Endpoints
  BY UpstreamAssumption DEF Endpoints
<1> QED
  BY <1>1 DEF NoSocket, NewSocket, Sockets

\* Closing a connection closes that one and no other.
LEMMA DroppedType ==
  ASSUME NEW sk \in [Conns -> Sockets], NEW c
  PROVE  /\ Dropped(sk, c) \in [Conns -> Sockets]
         /\ \A d \in Conns : Peers(Dropped(sk, c))[d] = IF d = c THEN -1 ELSE Peers(sk)[d]
<1>1. ~NoSocket.open
  BY DEF NoSocket
<1> QED
  BY <1>1, NoSocketType DEF Dropped, Peers

\* The end of every handler keeps the types.
LEMMA SettleType ==
  ASSUME Types, NEW s \in Sessions, NEW x \in SessionStates, NEW sk \in [Conns -> Sockets],
         NEW pl \in [Endpoints -> Seq(Conns)], NEW m \in MetricsTypes,
         Settle(s, x, sk, pl, m), next_endpoint' \in Endpoints
  PROVE  Types'
<1>1. idle_pools' \in [Endpoints -> Seq(Conns)]
  BY DEF Settle
<1>2. socks' \in [Conns -> Sockets]
  BY DroppedType DEF Settle
<1>3. sess' \in [Sessions -> SessionStates]
  BY FreshTypes DEF Settle, Types
<1>4. metrics' \in MetricsTypes
  BY MetricsType DEF Settle, Types, MetricsTypes
<1>5. free' \in 0..MaxFree
  BY SessionAssumption DEF Settle, Types, Lesser, BuffersReturned
<1> QED
  BY <1>1, <1>2, <1>3, <1>4, <1>5 DEF Types, MetricsTypes

\* A closed session needs no connection.
LEMMA ClosedLinked == ASSUME NEW peers PROVE Linked(ClosedSession, peers)
BY DEF Linked, ClosedSession, FreshSession, UsesUpstream

\* A handler changes its own session only.
LEMMA OthersKept ==
  ASSUME Types, NEW s \in Sessions, NEW x, NEW sk, NEW pl, NEW m, Settle(s, x, sk, pl, m)
  PROVE  /\ \A t \in Sessions \ {s} : sess'[t] = sess[t]
         /\ sess'[s] = IF x.pend = "closed" THEN ClosedSession ELSE x
BY DEF Settle, Types

\* Peers is a function, so two of them are equal when they agree on Conns.
LEMMA PeersType ==
  ASSUME NEW sk
  PROVE  Peers(sk) = [c \in Conns |-> Peers(sk)[c]]
BY DEF Peers

\* A step after which session s holds nothing and what it held is closed.
LEMMA Discards ==
  ASSUME Types, NEW s \in Sessions, sess[s].up # NoConn,
         \A t \in Sessions \ {s} : sess'[t] = sess[t],
         sess'[s].up = NoConn, idle_pools' = idle_pools,
         \A d \in Conns : Peers(socks')[d] = IF d = sess[s].up THEN -1 ELSE Peers(socks)[d]
  PROVE  P!Step(s)
<1> DEFINE H == [t \in Sessions |-> sess[t].up]
           HP == [t \in Sessions |-> sess'[t].up]
<1>1. HP = [H EXCEPT ![s] = NoConn]
  OBVIOUS
<1>2. Peers(socks') = [d \in Conns |-> IF d = H[s] THEN -1 ELSE Peers(socks)[d]]
  BY PeersType
<1>3. P!Discard(s)
  BY <1>1, <1>2 DEF P!Discard, P!Shut, P!Closed
<1> QED
  BY <1>3 DEF P!Step

\* A step that leaves every connection with its owner.
LEMMA Stutters ==
  ASSUME Types, NEW s \in Sessions,
         \A t \in Sessions \ {s} : sess'[t] = sess[t],
         sess'[s].up = sess[s].up, idle_pools' = idle_pools,
         \A d \in Conns : Peers(socks')[d] = Peers(socks)[d]
  PROVE  UNCHANGED P!vars
<1>1. [t \in Sessions |-> sess'[t].up] = [t \in Sessions |-> sess[t].up]
  OBVIOUS
<1>2. Peers(socks') = Peers(socks)
  BY PeersType
<1> QED
  BY <1>1, <1>2 DEF P!vars

\* A handler that leaves upstream_ alone, unless it closes the session.
LEMMA SettleKeeps ==
  ASSUME OwnInv, NEW s \in Sessions, NEW x \in SessionStates, x.up = sess[s].up,
         NEW sk \in [Conns -> Sockets], Peers(sk) = Peers(socks), NEW m \in MetricsTypes,
         Settle(s, x, sk, idle_pools, m), next_endpoint' \in Endpoints,
         x.pend = "closed" \/ Linked(x, Peers(socks))
  PROVE  Good(s)
<1>0. Types /\ idle_pools \in [Endpoints -> Seq(Conns)] /\ idle_pools' = idle_pools
  BY DEF OwnInv, Types, Settle
<1>1. Types'
  BY <1>0, SettleType
<1>2. /\ \A t \in Sessions \ {s} : sess'[t] = sess[t]
      /\ sess'[s] = IF x.pend = "closed" THEN ClosedSession ELSE x
  BY <1>0, OthersKept
<1>3. CASE x.pend # "closed"
  <2>1. socks' = sk
    BY <1>3 DEF Settle
  <2>2. UNCHANGED P!vars
    BY <1>0, <1>2, <1>3, <2>1, Stutters
  <2> QED
    BY <1>1, <1>2, <1>3, <2>1, <2>2 DEF Good
<1>4. CASE x.pend = "closed"
  <2>1. \A d \in Conns : Peers(socks')[d] = IF d = sess[s].up THEN -1 ELSE Peers(socks)[d]
    BY <1>4, DroppedType DEF Settle
  <2>2. ClosedSession.up = NoConn
    BY DEF ClosedSession, FreshSession
  <2>3. CASE sess[s].up = NoConn
    <3>1. \A d \in Conns : Peers(socks')[d] = Peers(socks)[d]
      BY <2>1, <2>3, UpstreamAssumption
    <3>2. UNCHANGED P!vars
      BY <1>0, <1>2, <1>4, <2>2, <2>3, <3>1, Stutters
    <3> QED
      BY <1>1, <1>2, <1>4, <3>2, ClosedLinked DEF Good
  <2>4. CASE sess[s].up # NoConn
    <3>1. P!Step(s)
      BY <1>0, <1>2, <1>4, <2>1, <2>2, <2>4, Discards
    <3> QED
      BY <1>1, <1>2, <1>4, <3>1, ClosedLinked DEF Good
  <2> QED
    BY <2>3, <2>4
<1> QED
  BY <1>3, <1>4

\* The types of the session module give those of the connection pool.
LEMMA PoolTypes ==
  ASSUME Types
  PROVE  P!TypeOK
<1>1. [t \in Sessions |-> sess[t].up] \in [Sessions -> Conns \cup {NoConn}]
  BY DEF Types, SessionStates
<1>2. Peers(socks) \in [Conns -> Endpoints \cup {-1}]
  BY DEF Types, Peers, Sockets
<1> QED
  BY <1>1, <1>2 DEF Types, P!TypeOK, P!Endpoints, Endpoints, P!Closed

\* What the inductive invariant says of one session.
LEMMA InvTypes ==
  ASSUME OwnInv, NEW s \in Sessions
  PROVE  /\ Types /\ P!TypeOK /\ P!SingleOwner
         /\ sess[s] \in SessionStates /\ socks \in [Conns -> Sockets]
         /\ idle_pools \in [Endpoints -> Seq(Conns)] /\ next_endpoint \in Endpoints
         /\ metrics \in MetricsTypes
         /\ sess[s].up \in Conns \cup {NoConn} /\ sess[s].ep \in Endpoints
         /\ Linked(sess[s], Peers(socks))
<1>1. /\ Types /\ P!SingleOwner /\ sess[s] \in SessionStates /\ socks \in [Conns -> Sockets]
      /\ idle_pools \in [Endpoints -> Seq(Conns)] /\ next_endpoint \in Endpoints
      /\ metrics \in MetricsTypes /\ Linked(sess[s], Peers(socks))
  BY DEF OwnInv, Types, MetricsTypes, OperationHasConnection
<1>2. sess[s].up \in Conns \cup {NoConn} /\ sess[s].ep \in Endpoints
  BY <1>1 DEF SessionStates
<1> QED
  BY <1>1, <1>2, PoolTypes

\* close() in any state.
LEMMA ClosesStep ==
  ASSUME OwnInv, NEW s \in Sessions, NEW m \in MetricsTypes, Closes(s, m)
  PROVE  Good(s)
<1> DEFINE x == [sess[s] EXCEPT !.pend = "closed"]
<1>1. x \in SessionStates /\ x.up = sess[s].up /\ x.pend = "closed"
  BY InvTypes DEF SessionStates, Pending
<1>2. Settle(s, x, socks, idle_pools, m) /\ next_endpoint' \in Endpoints
  BY InvTypes DEF Closes
<1> HIDE DEF x
<1> QED
  BY <1>1, <1>2, InvTypes, SettleKeeps

\* start() begins without a connection.
LEMMA StartStep ==
  ASSUME OwnInv, NEW s \in Sessions, start(s)
  PROVE  Good(s)
<1> DEFINE x == [FreshSession EXCEPT !.pend = "read_down"]
<1>0. /\ Types /\ sess[s].up = NoConn /\ idle_pools' = idle_pools /\ socks' = socks
      /\ next_endpoint' = next_endpoint /\ sess' = [sess EXCEPT ![s] = x]
  BY InvTypes DEF start, Linked, upstream_vars
<1>1. x \in SessionStates
  BY FreshTypes DEF SessionStates, Pending
<1>2. x.up = NoConn /\ Linked(x, Peers(socks))
  BY DEF FreshSession, FreshRequest, Linked, UsesUpstream
<1> HIDE DEF x
<1>3. metrics' \in MetricsTypes
  <2>1. metrics.accepted + 1 \in Int /\ metrics.active + 1 \in Int
    BY InvTypes DEF MetricsTypes
  <2> QED
    BY <2>1, InvTypes DEF start, AfterAccept, MetricsTypes
<1>4. free' \in 0..MaxFree
  BY SessionAssumption DEF start, BuffersTaken, OwnInv, Types, Lesser
<1>5. Types'
  BY <1>0, <1>1, <1>3, <1>4 DEF Types, MetricsTypes
<1>6. sess'[s] = x /\ \A t \in Sessions \ {s} : sess'[t] = sess[t]
  BY <1>0 DEF Types
<1>7. UNCHANGED P!vars
  BY <1>0, <1>2, <1>6, Stutters
<1> QED
  BY <1>0, <1>2, <1>5, <1>6, <1>7 DEF Good

\* A request write leaves the session with its connection, or closes it.
LEMMA PullRequestLinked ==
  ASSUME NEW x \in SessionStates, NEW peers, x.up # NoConn, x.rq.connecting,
         peers[x.up] = x.ep
  PROVE  PullRequest(x).pend = "closed" \/ Linked(PullRequest(x), peers)
<1> DEFINE R == PullRequest(x)
<1>1. /\ R.pend \in {"write_up", "read_up", "read_down", "closed"}
      /\ R.up = x.up /\ R.ep = x.ep /\ R.rq.connecting = x.rq.connecting
  BY PullRequestType
<1> HIDE DEF R
<1>2. R.pend = "closed" \/ Linked(R, peers)
  BY <1>1 DEF Linked, UsesUpstream
<1> QED
  BY <1>2 DEF R

\* The attempt is given up: its connection is closed, not pooled.
LEMMA RetriesStep ==
  ASSUME OwnInv, NEW s \in Sessions, NEW p \in {"reconnect_w", "reconnect_r"},
         sess[s].up # NoConn, sess[s].rq.connecting, Retries(s, p)
  PROVE  Good(s)
<1> DEFINE x == [sess[s] EXCEPT !.rt.used = TRUE, !.up = NoConn, !.pend = p]
           sk == Dropped(socks, sess[s].up)
<1>1. sess[s] \in SessionStates
  BY InvTypes
<1>2. x \in SessionStates /\ x.up = NoConn /\ x.pend = p /\ x.rq = sess[s].rq
  BY <1>1 DEF SessionStates, RetryStates, Pending
<1>3. Settle(s, x, sk, idle_pools, Counted("retries")) /\ next_endpoint' = next_endpoint
  BY DEF Retries
<1>4. sk \in [Conns -> Sockets]
      /\ \A d \in Conns : Peers(sk)[d] = IF d = sess[s].up THEN -1 ELSE Peers(socks)[d]
  BY InvTypes, DroppedType
<1>5. Linked(x, Peers(sk))
  BY <1>2 DEF Linked, UsesUpstream
<1> HIDE DEF x, sk
<1>6. Types'
  BY <1>2, <1>3, <1>4, InvTypes, MetricsType, SettleType
<1>7. sess'[s] = x /\ \A t \in Sessions \ {s} : sess'[t] = sess[t]
  BY <1>2, <1>3, InvTypes, OthersKept
<1>8. socks' = sk /\ idle_pools' = idle_pools
  BY <1>2, <1>3 DEF Settle
<1>9. P!Step(s)
  BY <1>2, <1>4, <1>7, <1>8, InvTypes, Discards
<1> QED
  BY <1>5, <1>6, <1>7, <1>8, <1>9 DEF Good

\* Units that reach a server change no owner.
LEMMA DeliveryType ==
  ASSUME NEW s \in Sessions, NEW x \in SessionStates, x.up \in Conns,
         socks \in [Conns -> Sockets], NEW n \in Nat, NEW k \in Nat
  PROVE  /\ AfterDelivery(x, n, <<s, k>>) \in [Conns -> Sockets]
         /\ Peers(AfterDelivery(x, n, <<s, k>>)) = Peers(socks)
         /\ (IF Completes(x, n) THEN x.rq.runs + 1 ELSE x.rq.runs) \in Nat
<1> DEFINE c == x.up
           rx == IF Completes(x, n) THEN 0
                 ELSE IF socks[c].alive THEN socks[c].rx + n ELSE socks[c].rx
           due == IF Completes(x, n) THEN Append(socks[c].due, <<s, k>>) ELSE socks[c].due
           a == [socks[c] EXCEPT !.rx = rx, !.due = due]
           sk == AfterDelivery(x, n, <<s, k>>)
<1>1. socks[c] \in Sockets /\ x.rq \in RequestSides
  BY DEF SessionStates
<1>2. socks[c].rx \in Nat /\ socks[c].rx + n \in Nat /\ x.rq.runs \in Nat /\ x.rq.runs + 1 \in Nat
  BY <1>1 DEF Sockets, RequestSides
<1>3. rx \in Nat
  BY <1>2
<1>4. due \in Seq(Sessions \X Nat)
  BY <1>1 DEF Sockets
<1>5. sk = [socks EXCEPT ![c] = a]
  BY DEF AfterDelivery, Sockets
<1> HIDE DEF rx, due
<1>6. a \in Sockets /\ a.open = socks[c].open /\ a.ep = socks[c].ep
  BY <1>1, <1>3, <1>4 DEF Sockets
<1> HIDE DEF a, sk
<1>7. sk \in [Conns -> Sockets] /\ Peers(sk) = Peers(socks)
  BY <1>5, <1>6 DEF Peers
<1> QED
  BY <1>2, <1>7 DEF sk

\* A completed write keeps the session's connection or closes the session.
LEMMA WriteSucceedsStep ==
  ASSUME OwnInv, NEW s \in Sessions, WriteSucceeds(s)
  PROVE  Good(s)
<1> DEFINE x == sess[s]
           runs == IF Completes(x, x.rt.n) THEN x.rq.runs + 1 ELSE x.rq.runs
           y == [x EXCEPT !.rt.wrote = TRUE, !.rt.n = 0, !.rq.runs = runs]
           sk == AfterDelivery(x, x.rt.n, <<s, x.num>>)
<1>1. /\ x \in SessionStates /\ socks \in [Conns -> Sockets] /\ metrics \in MetricsTypes
      /\ next_endpoint' \in Endpoints
  BY InvTypes DEF WriteSucceeds
<1>2. x.up \in Conns /\ x.up # NoConn /\ x.rq.connecting /\ Peers(socks)[x.up] = x.ep
  BY InvTypes DEF WriteSucceeds, Linked, UsesUpstream
<1>3. x.rt \in RetryStates /\ x.rq \in RequestSides /\ x.num \in Nat /\ x.rt.n \in Nat
  BY <1>1 DEF SessionStates, RetryStates
<1>4. sk \in [Conns -> Sockets] /\ Peers(sk) = Peers(socks) /\ runs \in Nat
  BY <1>1, <1>2, <1>3, DeliveryType
<1>5. Settle(s, PullRequest(y), sk, idle_pools, metrics)
  BY DEF WriteSucceeds
<1> HIDE DEF runs, sk
<1>6. y = [x EXCEPT !.rt = [x.rt EXCEPT !.wrote = TRUE, !.n = 0],
                    !.rq = [x.rq EXCEPT !.runs = runs]]
  BY <1>1, <1>3 DEF SessionStates, RetryStates, RequestSides
<1>7. /\ y \in SessionStates /\ y.up = x.up /\ y.ep = x.ep /\ y.rq.connecting
  <2>1. [x.rt EXCEPT !.wrote = TRUE, !.n = 0] \in RetryStates
    BY <1>3 DEF RetryStates
  <2>2. [x.rq EXCEPT !.runs = runs] \in RequestSides
        /\ [x.rq EXCEPT !.runs = runs].connecting = x.rq.connecting
    BY <1>3, <1>4 DEF RequestSides
  <2> QED
    BY <1>1, <1>2, <1>6, <2>1, <2>2 DEF SessionStates
<1> HIDE DEF y
<1>8. PullRequest(y) \in SessionStates /\ PullRequest(y).up = sess[s].up
  BY <1>7, PullRequestType
<1>9. PullRequest(y).pend = "closed" \/ Linked(PullRequest(y), Peers(socks))
  BY <1>2, <1>7, PullRequestLinked
<1> QED
  BY <1>1, <1>4, <1>5, <1>8, <1>9, SettleKeeps

\* Every error path closes the session, or gives up the connection for a retry.
LEMMA FailureSteps ==
  ASSUME OwnInv, NEW s \in Sessions,
         \/ RequestReadFails(s) \/ ConnectFails(s) \/ WriteFails(s) \/ RewriteFails(s)
         \/ ResponseReadFails(s) \/ ResponseMalformed(s) \/ ClientGone(s)
  PROVE  Good(s)
<1>1. /\ metrics \in MetricsTypes /\ Counted("errors") \in MetricsTypes
      /\ HeadCounted(sess[s]) \in MetricsTypes
  BY InvTypes, MetricsType
<1>2. \A m \in MetricsTypes : Closes(s, m) => Good(s)
  BY ClosesStep
<1>3. Linked(sess[s], Peers(socks))
  BY InvTypes
<1>4. CASE RequestReadFails(s)
  BY <1>1, <1>2, <1>4 DEF RequestReadFails
<1>5. CASE ConnectFails(s)
  BY <1>1, <1>2, <1>5 DEF ConnectFails
<1>6. CASE WriteFails(s)
  <2>1. sess[s].up # NoConn /\ sess[s].rq.connecting
    BY <1>3, <1>6 DEF WriteFails, Linked, UsesUpstream
  <2>2. Retries(s, "reconnect_w") \/ Closes(s, metrics)
    BY <1>6 DEF WriteFails
  <2> QED
    BY <1>1, <1>2, <2>1, <2>2, RetriesStep
<1>7. CASE RewriteFails(s)
  BY <1>1, <1>2, <1>7 DEF RewriteFails
<1>8. CASE ResponseReadFails(s)
  <2>1. sess[s].up # NoConn /\ sess[s].rq.connecting
    BY <1>3, <1>8 DEF ResponseReadFails, Linked, UsesUpstream
  <2>2. Retries(s, "reconnect_r") \/ Closes(s, metrics)
    BY <1>8 DEF ResponseReadFails
  <2> QED
    BY <1>1, <1>2, <2>1, <2>2, RetriesStep
<1>9. CASE ResponseMalformed(s)
  BY <1>1, <1>2, <1>9 DEF ResponseMalformed
<1>10. CASE ClientGone(s)
  BY <1>1, <1>2, <1>10 DEF ClientGone
<1> QED
  BY <1>4, <1>5, <1>6, <1>7, <1>8, <1>9, <1>10

\* The snapshot's write leads to the response on the same connection.
LEMMA SnapshotWrittenStep ==
  ASSUME OwnInv, NEW s \in Sessions, SnapshotWritten(s)
  PROVE  Good(s)
<1> DEFINE x == sess[s]
           runs == IF Completes(x, x.rt.snap) THEN x.rq.runs + 1 ELSE x.rq.runs
           y == [x EXCEPT !.rq.runs = runs]
           sk == AfterDelivery(x, x.rt.snap, <<s, x.rt.snapOf>>)
           R == StartResponsePhase(y)
<1>1. /\ x \in SessionStates /\ socks \in [Conns -> Sockets] /\ metrics \in MetricsTypes
      /\ next_endpoint' \in Endpoints
  BY InvTypes DEF SnapshotWritten
<1>2. x.up \in Conns /\ x.up # NoConn /\ x.rq.connecting /\ Peers(socks)[x.up] = x.ep
  BY InvTypes DEF SnapshotWritten, Linked, UsesUpstream
<1>3. x.rt.snap \in Nat /\ x.rt.snapOf \in Nat
  BY <1>1 DEF SessionStates, RetryStates
<1>4. sk \in [Conns -> Sockets] /\ Peers(sk) = Peers(socks) /\ runs \in Nat
  BY <1>1, <1>2, <1>3, DeliveryType
<1>5. Settle(s, R, sk, idle_pools, metrics)
  BY DEF SnapshotWritten
<1> HIDE DEF runs, sk
<1>6. y \in SessionStates /\ y.up = x.up /\ y.ep = x.ep /\ y.rq.connecting
  BY <1>1, <1>2, <1>4 DEF SessionStates, RequestSides
<1> HIDE DEF y
<1>7. R \in SessionStates /\ R.pend = "read_up" /\ R.up = x.up /\ R.ep = x.ep /\ R.rq.connecting
  BY <1>6, StartResponseType
<1> HIDE DEF R
<1>8. Linked(R, Peers(socks))
  BY <1>2, <1>7 DEF Linked, UsesUpstream
<1> QED
  BY <1>1, <1>4, <1>5, <1>7, <1>8, SettleKeeps

\* Part of a response head changes nothing about connections.
LEMMA ResponseHeadBeginsStep ==
  ASSUME OwnInv, NEW s \in Sessions, ResponseHeadBegins(s)
  PROVE  Good(s)
<1> DEFINE x == [sess[s] EXCEPT !.rt.any = TRUE]
<1>1. sess[s] \in SessionStates /\ Linked(sess[s], Peers(socks)) /\ next_endpoint' \in Endpoints
  BY InvTypes DEF ResponseHeadBegins
<1>2. Settle(s, x, socks, idle_pools, metrics)
  BY DEF ResponseHeadBegins
<1>3. /\ x \in SessionStates /\ x.up = sess[s].up /\ x.ep = sess[s].ep
      /\ x.pend = sess[s].pend /\ x.rq = sess[s].rq /\ x.rs = sess[s].rs
  BY <1>1 DEF SessionStates, RetryStates
<1> HIDE DEF x
<1>4. Linked(x, Peers(socks))
  BY <1>1, <1>3 DEF Linked, UsesUpstream
<1> QED
  BY <1>1, <1>2, <1>3, <1>4, InvTypes, SettleKeeps

\* A step after which session s holds a connection that was not open before.
LEMMA Connects ==
  ASSUME Types, NEW s \in Sessions, NEW c \in Conns, NEW e \in Endpoints,
         Peers(socks)[c] = -1,
         \A t \in Sessions \ {s} : sess'[t] = sess[t],
         sess'[s].up = c, idle_pools' = idle_pools,
         \A d \in Conns : Peers(socks')[d] = IF d = c THEN e
                                            ELSE IF d = sess[s].up THEN -1 ELSE Peers(socks)[d]
  PROVE  P!Step(s)
<1> DEFINE H == [t \in Sessions |-> sess[t].up]
           HP == [t \in Sessions |-> sess'[t].up]
           Shut == [d \in Conns |-> IF d = H[s] THEN -1 ELSE Peers(socks)[d]]
<1>1. HP = [H EXCEPT ![s] = c]
  OBVIOUS
<1>2. Peers(socks') = [Shut EXCEPT ![c] = e]
  BY PeersType
<1>3. P!Connect(s)
  BY <1>1, <1>2 DEF P!Connect, P!Shut, P!Closed, P!Endpoints, Endpoints
<1> QED
  BY <1>3 DEF P!Step

\* A new connection has no owner yet.
LEMMA FreshConnType ==
  ASSUME OwnInv, Unused # {}
  PROVE  /\ FreshConn \in Conns /\ ~socks[FreshConn].open
         /\ Peers(socks)[FreshConn] = -1
         /\ \A s \in Sessions : sess[s].up # FreshConn
<1>1. FreshConn \in Conns /\ ~socks[FreshConn].open
  BY DEF FreshConn, Unused
<1>2. Peers(socks)[FreshConn] = -1
  BY <1>1 DEF Peers
<1>3. ASSUME NEW s \in Sessions PROVE sess[s].up # FreshConn
  BY <1>1, <1>2, UpstreamAssumption
  DEF OwnInv, P!SingleOwner, P!HeldOnce, P!Closed
<1> QED
  BY <1>1, <1>2, <1>3

\* The first connection of a request replaces whatever upstream_ pointed to.
LEMMA ConnectSucceedsStep ==
  ASSUME OwnInv, NEW s \in Sessions, ConnectSucceeds(s)
  PROVE  Good(s)
<1> DEFINE x == sess[s]
           y == [x EXCEPT !.up = FreshConn]
           R == PullRequest(y)
           sk == [Dropped(socks, x.up) EXCEPT ![FreshConn] = NewSocket(x.ep)]
<1>1. /\ Types /\ x \in SessionStates /\ socks \in [Conns -> Sockets] /\ metrics \in MetricsTypes
      /\ x.ep \in Endpoints /\ next_endpoint' \in Endpoints
      /\ idle_pools \in [Endpoints -> Seq(Conns)]
  BY InvTypes DEF ConnectSucceeds
<1>2. x.rq.connecting
  BY InvTypes DEF ConnectSucceeds, Linked
<1>3. /\ FreshConn \in Conns /\ Peers(socks)[FreshConn] = -1 /\ FreshConn # x.up
      /\ FreshConn # NoConn
  BY FreshConnType, UpstreamAssumption DEF ConnectSucceeds
<1>4. Settle(s, R, sk, idle_pools, metrics)
  BY DEF ConnectSucceeds
<1>5. y \in SessionStates /\ y.up = FreshConn /\ y.ep = x.ep /\ y.rq = x.rq
  BY <1>1, <1>3 DEF SessionStates
<1>6. sk \in [Conns -> Sockets]
      /\ \A d \in Conns : Peers(sk)[d] = IF d = FreshConn THEN x.ep
                                        ELSE IF d = x.up THEN -1 ELSE Peers(socks)[d]
  <2>1. NewSocket(x.ep).open /\ NewSocket(x.ep).ep = x.ep /\ NewSocket(x.ep) \in Sockets
    BY <1>1, NoSocketType DEF NewSocket
  <2>2. /\ Dropped(socks, x.up) \in [Conns -> Sockets]
        /\ \A d \in Conns : Peers(Dropped(socks, x.up))[d] = IF d = x.up THEN -1 ELSE Peers(socks)[d]
    BY <1>1, DroppedType
  <2> QED
    BY <1>3, <2>1, <2>2 DEF Peers
<1> HIDE DEF y, sk
<1>7. R \in SessionStates /\ R.up = FreshConn /\ R.ep = x.ep
  BY <1>5, PullRequestType
<1>8. R.pend = "closed" \/ Linked(R, Peers(sk))
  BY <1>2, <1>3, <1>5, <1>6, PullRequestLinked
<1> HIDE DEF R
<1>9. Types'
  BY <1>1, <1>4, <1>6, <1>7, SettleType
<1>10. /\ \A t \in Sessions \ {s} : sess'[t] = sess[t]
       /\ sess'[s] = IF R.pend = "closed" THEN ClosedSession ELSE R
  BY <1>1, <1>4, OthersKept
<1>11. idle_pools' = idle_pools
  BY <1>4 DEF Settle
<1>12. CASE R.pend # "closed"
  <2>1. socks' = sk
    BY <1>4, <1>12 DEF Settle
  <2>2. P!Step(s)
    BY <1>1, <1>3, <1>6, <1>7, <1>10, <1>11, <1>12, <2>1, Connects
  <2> QED
    BY <1>8, <1>9, <1>10, <1>12, <2>1, <2>2 DEF Good
<1>13. CASE R.pend = "closed"
  <2>1. socks' = Dropped(sk, FreshConn)
    BY <1>4, <1>7, <1>13 DEF Settle
  <2>2. \A d \in Conns : Peers(socks')[d] = IF d = x.up THEN -1 ELSE Peers(socks)[d]
    BY <1>3, <1>6, <2>1, DroppedType
  <2>3. sess'[s].up = NoConn
    BY <1>10, <1>13 DEF ClosedSession, FreshSession
  <2>4. CASE x.up = NoConn
    <3>1. \A d \in Conns : Peers(socks')[d] = Peers(socks)[d]
      BY <2>2, <2>4, UpstreamAssumption
    <3>2. UNCHANGED P!vars
      BY <1>1, <1>10, <1>11, <2>3, <2>4, <3>1, Stutters
    <3> QED
      BY <1>9, <1>10, <1>13, <3>2, ClosedLinked DEF Good
  <2>5. CASE x.up # NoConn
    <3>1. P!Step(s)
      BY <1>1, <1>10, <1>11, <2>2, <2>3, <2>5, Discards
    <3> QED
      BY <1>9, <1>10, <1>13, <3>1, ClosedLinked DEF Good
  <2> QED
    BY <2>4, <2>5
<1> QED
  BY <1>12, <1>13

\* The retry's connection finds upstream_ empty.
LEMMA ReconnectSucceedsStep ==
  ASSUME OwnInv, NEW s \in Sessions, ReconnectSucceeds(s)
  PROVE  Good(s)
<1> DEFINE x == sess[s]
           p == IF x.pend = "reconnect_w" THEN "rewrite_w" ELSE "rewrite_r"
           R == [x EXCEPT !.up = FreshConn, !.pend = p]
           sk == [socks EXCEPT ![FreshConn] = NewSocket(x.ep)]
<1>1. /\ Types /\ x \in SessionStates /\ socks \in [Conns -> Sockets] /\ metrics \in MetricsTypes
      /\ x.ep \in Endpoints /\ next_endpoint' \in Endpoints
      /\ idle_pools \in [Endpoints -> Seq(Conns)]
  BY InvTypes DEF ReconnectSucceeds
<1>2. x.rq.connecting /\ x.up = NoConn
  BY InvTypes DEF ReconnectSucceeds, Linked
<1>3. /\ FreshConn \in Conns /\ Peers(socks)[FreshConn] = -1 /\ FreshConn # NoConn
  BY FreshConnType, UpstreamAssumption DEF ReconnectSucceeds
<1>4. Settle(s, R, sk, idle_pools, metrics)
  BY DEF ReconnectSucceeds
<1>5. p \in {"rewrite_w", "rewrite_r"}
  OBVIOUS
<1> HIDE DEF p
<1>6. R \in SessionStates /\ R.up = FreshConn /\ R.ep = x.ep /\ R.rq = x.rq /\ R.pend = p
  BY <1>1, <1>3, <1>5 DEF SessionStates, Pending
<1>7. sk \in [Conns -> Sockets]
      /\ \A d \in Conns : Peers(sk)[d] = IF d = FreshConn THEN x.ep ELSE Peers(socks)[d]
  <2>1. NewSocket(x.ep).open /\ NewSocket(x.ep).ep = x.ep /\ NewSocket(x.ep) \in Sockets
    BY <1>1, NoSocketType DEF NewSocket
  <2> QED
    BY <1>1, <1>3, <2>1 DEF Peers
<1> HIDE DEF R, sk
<1>8. Linked(R, Peers(sk))
  BY <1>2, <1>3, <1>5, <1>6, <1>7 DEF Linked, UsesUpstream
<1>9. Types'
  BY <1>1, <1>4, <1>6, <1>7, SettleType
<1>10. sess'[s] = R /\ \A t \in Sessions \ {s} : sess'[t] = sess[t]
  BY <1>1, <1>4, <1>5, <1>6, OthersKept
<1>11. idle_pools' = idle_pools /\ socks' = sk
  BY <1>4, <1>5, <1>6 DEF Settle
<1>12. P!Step(s)
  <2>1. \A d \in Conns : Peers(socks')[d] = IF d = FreshConn THEN x.ep
                                             ELSE IF d = sess[s].up THEN -1 ELSE Peers(socks)[d]
    BY <1>2, <1>7, <1>11, UpstreamAssumption
  <2>2. sess'[s].up = FreshConn
    BY <1>6, <1>10
  <2> QED
    BY <1>1, <1>3, <1>10, <1>11, <2>1, <2>2, Connects
<1> QED
  BY <1>8, <1>9, <1>10, <1>11, <1>12 DEF Good

\* Refusing a request leaves the connection alone.
LEMMA RequestRefusedStep ==
  ASSUME OwnInv, NEW s \in Sessions, RequestRefused(s)
  PROVE  Good(s)
<1> DEFINE x == sess[s]
<1>0. PICK r \in Requests(x) :
        \E a \in Arrivals(r.framing, r.len, x.rq.got), b \in 0..MaxDirect :
          Settle(s, RespondDirectly(ParsedRequest(x, r, a), b), socks, idle_pools, HeadCounted(x))
  BY DEF RequestRefused
<1>1. PICK a \in Arrivals(r.framing, r.len, x.rq.got), b \in 0..MaxDirect :
        Settle(s, RespondDirectly(ParsedRequest(x, r, a), b), socks, idle_pools, HeadCounted(x))
  BY <1>0
<1>2. /\ x \in SessionStates /\ socks \in [Conns -> Sockets] /\ Linked(x, Peers(socks))
      /\ HeadCounted(x) \in MetricsTypes /\ next_endpoint' \in Endpoints /\ x.pend = "read_down"
  BY InvTypes, MetricsType DEF RequestRefused
<1>3. b \in Nat /\ r \in Heads /\ x.rq.got \in Nat
  BY <1>2, SessionAssumption, RequestsType DEF SessionStates, RequestSides
<1>4. a \in Reads
  BY <1>3, ArrivalsType DEF Heads
<1> DEFINE R == RespondDirectly(ParsedRequest(x, r, a), b)
<1>5. R \in SessionStates /\ R.pend = "write_down" /\ R.up = x.up /\ R.ep = x.ep /\ R.rs.direct
  <2> DEFINE y == ParsedRequest(x, r, a)
  <2>1. y \in SessionStates /\ y.up = x.up /\ y.ep = x.ep
    BY <1>2, <1>3, <1>4, ParsedRequestType
  <2> HIDE DEF y
  <2>2. /\ RespondDirectly(y, b) \in SessionStates /\ RespondDirectly(y, b).pend = "write_down"
        /\ RespondDirectly(y, b).up = x.up /\ RespondDirectly(y, b).ep = x.ep
        /\ RespondDirectly(y, b).rs.direct
    BY <1>3, <2>1, RespondDirectlyType
  <2> QED
    BY <2>2 DEF y
<1> HIDE DEF R
<1>6. Linked(R, Peers(socks))
  BY <1>2, <1>5 DEF Linked, UsesUpstream
<1> QED
  BY <1>1, <1>2, <1>5, <1>6, SettleKeeps DEF R

\* The end of a response is noted on its connection.
LEMMA AnswerType ==
  ASSUME NEW sk \in [Conns -> Sockets], sk = socks, NEW c \in Conns, socks[c].due # <<>>,
         NEW r, NEW a
  PROVE  AfterAnswer(c, r, a) \in [Conns -> Sockets] /\ Peers(AfterAnswer(c, r, a)) = Peers(socks)
<1> DEFINE q == IF a.end /\ r.framing # "interim" THEN Tail(socks[c].due) ELSE socks[c].due
           w == [socks[c] EXCEPT !.due = q]
<1>1. q \in Seq(Sessions \X Nat)
  BY DEF Sockets
<1>2. AfterAnswer(c, r, a) = [socks EXCEPT ![c] = w]
  BY DEF AfterAnswer
<1> HIDE DEF q
<1>3. w \in Sockets /\ w.open = socks[c].open /\ w.ep = socks[c].ep
  BY <1>1 DEF Sockets
<1> HIDE DEF w
<1> QED
  BY <1>2, <1>3 DEF Peers

\* Refusing a response leaves the connection alone: it is not pooled.
LEMMA ResponseRefusedStep ==
  ASSUME OwnInv, NEW s \in Sessions, ResponseRefused(s)
  PROVE  Good(s)
<1> DEFINE x == sess[s]
<1>0. PICK r \in Responses(x) :
        \E a \in Arrivals(r.framing, r.len, x.rs.got), b \in 0..MaxDirect :
          Settle(s, RespondDirectly(ParsedResponse(x, r, a), b), AfterAnswer(x.up, r, a),
                 idle_pools, metrics)
  BY DEF ResponseRefused
<1>1. PICK a \in Arrivals(r.framing, r.len, x.rs.got), b \in 0..MaxDirect :
        Settle(s, RespondDirectly(ParsedResponse(x, r, a), b), AfterAnswer(x.up, r, a),
               idle_pools, metrics)
  BY <1>0
<1>2. /\ x \in SessionStates /\ socks \in [Conns -> Sockets] /\ Linked(x, Peers(socks))
      /\ metrics \in MetricsTypes /\ next_endpoint' \in Endpoints /\ x.pend = "read_up"
      /\ socks[x.up].due # <<>>
  BY InvTypes DEF ResponseRefused, Answering
<1>3. b \in Nat /\ r \in Heads /\ x.rs.got \in Nat
  BY <1>2, SessionAssumption, ResponsesType DEF SessionStates, ResponseSides
<1>4. a \in Reads /\ x.up \in Conns
  BY <1>2, <1>3, ArrivalsType, InvTypes DEF Heads, Linked, UsesUpstream
<1> DEFINE R == RespondDirectly(ParsedResponse(x, r, a), b)
           sk == AfterAnswer(x.up, r, a)
<1>5. R \in SessionStates /\ R.pend = "write_down" /\ R.up = x.up /\ R.ep = x.ep /\ R.rs.direct
  <2> DEFINE y == ParsedResponse(x, r, a)
  <2>1. y \in SessionStates /\ y.up = x.up /\ y.ep = x.ep
    BY <1>2, <1>3, <1>4, ParsedResponseType
  <2> HIDE DEF y
  <2>2. /\ RespondDirectly(y, b) \in SessionStates /\ RespondDirectly(y, b).pend = "write_down"
        /\ RespondDirectly(y, b).up = x.up /\ RespondDirectly(y, b).ep = x.ep
        /\ RespondDirectly(y, b).rs.direct
    BY <1>3, <2>1, RespondDirectlyType
  <2> QED
    BY <2>2 DEF y
<1>6. sk \in [Conns -> Sockets] /\ Peers(sk) = Peers(socks)
  BY <1>2, <1>4, AnswerType
<1> HIDE DEF R, sk
<1>7. Linked(R, Peers(socks))
  BY <1>2, <1>5 DEF Linked, UsesUpstream
<1> QED
  BY <1>1, <1>2, <1>5, <1>6, <1>7, SettleKeeps DEF R, sk

\* The last step of a response that may leave its connection for reuse.
LEMMA ReleaseStep ==
  ASSUME OwnInv, NEW s \in Sessions, NEW x \in SessionStates, x.up = sess[s].up, x.ep = sess[s].ep,
         ~x.rs.direct => x.up # NoConn /\ x.rq.connecting,
         x.up # NoConn => Peers(socks)[x.up] = x.ep,
         NEW sk \in [Conns -> Sockets], Peers(sk) = Peers(socks),
         pull_and_write_response(s, x, sk)
  PROVE  Good(s)
<1> DEFINE R == PullResponse(x)
           u == sess[s].up
           e == x.ep
<1>0. /\ Types /\ idle_pools \in [Endpoints -> Seq(Conns)] /\ next_endpoint' \in Endpoints
      /\ metrics \in MetricsTypes /\ e \in Endpoints /\ u \in Conns \cup {NoConn}
  BY InvTypes DEF pull_and_write_response
<1>1. /\ R \in SessionStates
      /\ R.pend \in {"write_down", "read_down", "read_up", "closed"}
      /\ R.up = IF ReleasesUpstream(x) THEN NoConn ELSE u
      /\ R.ep = e
      /\ R.pend \in {"write_down", "read_up"} =>
           R.up = x.up /\ R.rq = x.rq /\ R.rs.direct = x.rs.direct
      /\ R.pend = "read_up" => ~x.rs.direct
      /\ R.pend = "read_down" => ~R.rq.started /\ ~R.rq.connecting
  BY PullResponseType
<1> HIDE DEF R
<1>2. R.pend = "closed" \/ Linked(R, Peers(socks))
  BY <1>1 DEF Linked, UsesUpstream
<1>3. CASE ~ReleasesUpstream(x)
  <2>1. Settle(s, R, sk, idle_pools, metrics)
    BY <1>3 DEF pull_and_write_response, R
  <2> QED
    BY <1>0, <1>1, <1>2, <1>3, <2>1, SettleKeeps
<1>4. CASE ReleasesUpstream(x)
  <2>0. u \in Conns /\ u # NoConn /\ R.up = NoConn /\ R.pend \notin {"write_down", "read_up"}
        /\ Peers(socks)[u] = e
    BY <1>0, <1>1, <1>4 DEF ReleasesUpstream
  <2> DEFINE sl == IF PoolFull(e) THEN Dropped(sk, u) ELSE sk
             pl == AfterRelease(e, u)
  <2>1. Settle(s, R, sl, pl, metrics)
    BY <1>4 DEF pull_and_write_response, R
  <2>2. sl \in [Conns -> Sockets] /\ pl \in [Endpoints -> Seq(Conns)]
    BY <1>0, <2>0, DroppedType DEF AfterRelease
  <2>3. idle_pools' = pl /\ \A d \in Conns : Peers(socks')[d] = Peers(sl)[d]
    BY <2>0, <2>1, <2>2, DroppedType, UpstreamAssumption DEF Settle
  <2> HIDE DEF sl, pl
  <2>4. Types'
    BY <1>0, <1>1, <2>1, <2>2, SettleType
  <2>5. /\ \A t \in Sessions \ {s} : sess'[t] = sess[t]
        /\ sess'[s] = IF R.pend = "closed" THEN ClosedSession ELSE R
    BY <1>0, <2>1, OthersKept
  <2>6. sess'[s].up = NoConn /\ Linked(sess'[s], Peers(socks'))
    <3>1. CASE R.pend = "closed"
      BY <2>5, <3>1, ClosedLinked DEF ClosedSession, FreshSession
    <3>2. CASE R.pend # "closed"
      BY <1>1, <2>0, <2>5, <3>2 DEF Linked, UsesUpstream
    <3> QED
      BY <3>1, <3>2
  <2>7. P!Step(s)
    <3>1. CASE PoolFull(e)
      <4>1. pl = idle_pools /\ sl = Dropped(sk, u)
        BY <3>1 DEF sl, pl, AfterRelease
      <4>2. \A d \in Conns : Peers(socks')[d] = IF d = u THEN -1 ELSE Peers(socks)[d]
        BY <2>3, <4>1, DroppedType
      <4> QED
        BY <1>0, <2>0, <2>3, <2>5, <2>6, <4>1, <4>2, Discards
    <3>2. CASE ~PoolFull(e)
      <4> DEFINE H == [t \in Sessions |-> sess[t].up]
                 HP == [t \in Sessions |-> sess'[t].up]
      <4>1. idle_pools' = [idle_pools EXCEPT ![e] = Append(@, u)] /\ Len(idle_pools[e]) < MaxIdle
        BY <1>0, <2>3, <3>2, UpstreamAssumption DEF pl, AfterRelease, PoolFull
      <4>2. Peers(socks') = Peers(socks)
        BY <2>3, <3>2, PeersType DEF sl
      <4>3. HP = [H EXCEPT ![s] = NoConn] /\ H[s] = u
        BY <2>5, <2>6
      <4>4. P!Release(s)
        BY <1>0, <2>0, <4>1, <4>2, <4>3 DEF P!Release, P!Endpoints, Endpoints
      <4> QED
        BY <4>4 DEF P!Step
    <3> QED
      BY <3>1, <3>2
  <2> QED
    BY <2>4, <2>5, <2>6, <2>7 DEF Good
<1> QED
  BY <1>3, <1>4

\* Relaying a read of the response releases the connection at most once, at the end.
LEMMA ResponseChunkStep ==
  ASSUME OwnInv, NEW s \in Sessions, ResponseChunk(s)
  PROVE  Good(s)
<1> DEFINE x == sess[s]
<1>0. PICK r \in Responses(x) :
        \E a \in Arrivals(r.framing, r.len, x.rs.got) :
          \E j \in Passed(x.rs.held, a.k, a.end, RespBody) :
            pull_and_write_response(s, DrainedResponse(ParsedResponse(x, r, a), a, j),
                                    AfterAnswer(x.up, r, a))
  BY DEF ResponseChunk
<1>1. PICK a \in Arrivals(r.framing, r.len, x.rs.got) :
        \E j \in Passed(x.rs.held, a.k, a.end, RespBody) :
          pull_and_write_response(s, DrainedResponse(ParsedResponse(x, r, a), a, j),
                                  AfterAnswer(x.up, r, a))
  BY <1>0
<1>2. PICK j \in Passed(x.rs.held, a.k, a.end, RespBody) :
        pull_and_write_response(s, DrainedResponse(ParsedResponse(x, r, a), a, j),
                                AfterAnswer(x.up, r, a))
  BY <1>1
<1>3. /\ x \in SessionStates /\ socks \in [Conns -> Sockets] /\ Linked(x, Peers(socks))
      /\ x.pend = "read_up" /\ socks[x.up].due # <<>>
  BY InvTypes DEF ResponseChunk, Answering
<1>4. r \in Heads /\ x.rs.got \in Nat
  BY <1>3, ResponsesType DEF SessionStates, ResponseSides
<1>5. a \in Reads /\ x.up \in Conns /\ x.up # NoConn /\ x.rq.connecting /\ Peers(socks)[x.up] = x.ep
  BY <1>3, <1>4, ArrivalsType, InvTypes DEF Heads, Linked, UsesUpstream
<1> DEFINE y == ParsedResponse(x, r, a)
           z == DrainedResponse(y, a, j)
           sk == AfterAnswer(x.up, r, a)
<1>6. /\ y \in SessionStates /\ y.up = x.up /\ y.ep = x.ep /\ y.rq = x.rq
      /\ y.rs.held = x.rs.held
  BY <1>3, <1>4, <1>5, ParsedResponseType
<1> HIDE DEF y
<1>8. z \in SessionStates /\ z.up = x.up /\ z.ep = x.ep /\ z.rq = x.rq
  BY <1>5, <1>6, DrainedResponseType
<1>9. sk \in [Conns -> Sockets] /\ Peers(sk) = Peers(socks)
  BY <1>3, <1>5, AnswerType
<1>10. pull_and_write_response(s, z, sk)
  BY <1>2 DEF y
<1> HIDE DEF z, sk
<1> QED
  BY <1>5, <1>8, <1>9, <1>10, ReleaseStep

\* A completed write to the client may be the last one of the response.
LEMMA ResponseWrittenStep ==
  ASSUME OwnInv, NEW s \in Sessions, ResponseWritten(s)
  PROVE  Good(s)
<1>1. /\ sess[s] \in SessionStates /\ socks \in [Conns -> Sockets]
      /\ Linked(sess[s], Peers(socks)) /\ sess[s].pend = "write_down"
      /\ pull_and_write_response(s, sess[s], socks)
  BY InvTypes DEF ResponseWritten
<1>2. /\ ~sess[s].rs.direct => sess[s].up # NoConn /\ sess[s].rq.connecting
      /\ sess[s].up # NoConn => Peers(socks)[sess[s].up] = sess[s].ep
  BY <1>1 DEF Linked, UsesUpstream
<1> QED
  BY <1>1, <1>2, ReleaseStep

\* The first pull of a request is never empty: there is a head to send.
LEMMA FirstPull ==
  ASSUME NEW x \in SessionStates, x.rq.ser.stage = "head", x.rq.ser.head = HeadUnits
  PROVE  PullRequest(x).pend = "write_up"
<1> DEFINE n == Pulled(x.rq.ser)
           y == [x EXCEPT !.rq.ser = pull(@)]
<1>1. x.rq.ser \in Serializers
  BY DEF SessionStates, RequestSides
<1>2. HeadPart(x.rq.ser) \in Nat \ {0}
  BY SerializerAssumption DEF HeadPart, Lesser
<1>3. BodyPart(x.rq.ser) \in Nat
  BY <1>1, <1>2, SerializerAssumption DEF BodyPart, ReachesBody, Lesser, Serializers
<1>4. n > 0
  BY <1>2, <1>3 DEF Pulled
<1>5. y \in [pend : Pending, up : Conns \cup {NoConn}, ep : Endpoints, num : Nat,
             rq : RequestSides, rt : RetryStates, rs : ResponseSides]
  BY <1>1, PullType DEF SessionStates, RequestSides
<1>6. \/ PullRequest(x) = [y EXCEPT !.pend = "write_up", !.rt.n = n, !.rt.captured = TRUE,
                                    !.rt.snap = n, !.rt.snapOf = x.num]
      \/ PullRequest(x) = [y EXCEPT !.pend = "write_up", !.rt.n = n]
  BY <1>4 DEF PullRequest
<1> HIDE DEF y, n
<1> QED
  BY <1>5, <1>6

\* An idle connection changes hands.
LEMMA Reuses ==
  ASSUME Types, NEW s \in Sessions, NEW e \in Endpoints, idle_pools[e] # <<>>,
         \A t \in Sessions \ {s} : sess'[t] = sess[t],
         sess'[s].up = PooledConn(e), idle_pools' = AfterPop(e),
         \A d \in Conns : Peers(socks')[d] = IF d = sess[s].up THEN -1 ELSE Peers(socks)[d]
  PROVE  P!Step(s)
<1> DEFINE H == [t \in Sessions |-> sess[t].up]
           HP == [t \in Sessions |-> sess'[t].up]
<1>1. HP = [H EXCEPT ![s] = idle_pools[e][Len(idle_pools[e])]]
  BY DEF PooledConn
<1>2. Peers(socks') = [d \in Conns |-> IF d = H[s] THEN -1 ELSE Peers(socks)[d]]
  BY PeersType
<1>3. P!Reuse(s)
  BY <1>1, <1>2 DEF P!Reuse, P!Shut, P!Closed, P!Taken, AfterPop, P!Endpoints, Endpoints
<1> QED
  BY <1>3 DEF P!Step

\* The connection pooled last is open to the pool's endpoint and nobody's.
LEMMA PoppedType ==
  ASSUME OwnInv, NEW e \in Endpoints, idle_pools[e] # <<>>
  PROVE  /\ PooledConn(e) \in Conns /\ PooledConn(e) # NoConn
         /\ Peers(socks)[PooledConn(e)] = e
         /\ \A s \in Sessions : sess[s].up # PooledConn(e)
         /\ AfterPop(e) \in [Endpoints -> Seq(Conns)]
<1>1. idle_pools \in [Endpoints -> Seq(Conns)] /\ P!PooledOnce
  BY DEF OwnInv, Types, P!SingleOwner
<1>2. Len(idle_pools[e]) \in 1..Len(idle_pools[e]) /\ PooledConn(e) \in Conns
  BY <1>1 DEF PooledConn
<1>3. Peers(socks)[PooledConn(e)] = e /\ \A s \in Sessions : sess[s].up # PooledConn(e)
  BY <1>1, <1>2 DEF P!PooledOnce, P!Endpoints, Endpoints, PooledConn
<1>4. SubSeq(idle_pools[e], 1, Len(idle_pools[e]) - 1) \in Seq(Conns)
  BY <1>1, <1>2
<1> QED
  BY <1>1, <1>2, <1>3, <1>4, UpstreamAssumption DEF AfterPop

\* Round robin stays within the endpoints.
LEMMA AfterSelectType ==
  ASSUME next_endpoint \in Endpoints
  PROVE  AfterSelect \in Endpoints
BY UpstreamAssumption DEF AfterSelect, Endpoints

\* connect_upstream() takes one idle connection, or asks for a new one.
LEMMA ConnectUpstreamStep ==
  ASSUME OwnInv, NEW s \in Sessions, NEW x \in SessionStates, x.up = sess[s].up, x.ep = sess[s].ep,
         x.rq.ser.stage = "head", x.rq.ser.head = HeadUnits,
         NEW m \in MetricsTypes, connect_upstream(s, x, m)
  PROVE  Good(s)
<1> DEFINE e == next_endpoint
           y == [x EXCEPT !.ep = e, !.rq.connecting = TRUE]
<1>1. /\ Types /\ socks \in [Conns -> Sockets] /\ idle_pools \in [Endpoints -> Seq(Conns)]
      /\ e \in Endpoints /\ next_endpoint' \in Endpoints
  BY InvTypes, AfterSelectType DEF connect_upstream
<1>2. /\ y \in SessionStates /\ y.up = x.up /\ y.ep = e /\ y.rq.connecting
      /\ y.rq.ser = x.rq.ser
  BY <1>1 DEF SessionStates, RequestSides
<1>3. CASE PoolHit(e)
  <2> DEFINE c == PooledConn(e)
             z == [y EXCEPT !.up = c]
             R == PullRequest(z)
             sk == Dropped(socks, x.up)
  <2>1. /\ c \in Conns /\ c # NoConn /\ Peers(socks)[c] = e /\ c # x.up
        /\ AfterPop(e) \in [Endpoints -> Seq(Conns)] /\ idle_pools[e] # <<>>
    BY <1>1, <1>3, PoppedType DEF PoolHit
  <2>2. Settle(s, R, sk, AfterPop(e), m)
    BY <1>3 DEF connect_upstream
  <2> HIDE DEF y, c
  <2>3. z \in SessionStates /\ z.up = c /\ z.ep = e /\ z.rq = y.rq
    BY <1>2, <2>1 DEF SessionStates
  <2>4. /\ sk \in [Conns -> Sockets]
        /\ \A d \in Conns : Peers(sk)[d] = IF d = x.up THEN -1 ELSE Peers(socks)[d]
    BY <1>1, DroppedType
  <2> HIDE DEF z, sk
  <2>5. R \in SessionStates /\ R.up = c /\ R.pend = "write_up"
    BY <1>2, <2>3, PullRequestType, FirstPull
  <2>6. Linked(R, Peers(sk))
    BY <1>2, <2>1, <2>3, <2>4, <2>5, PullRequestLinked
  <2> HIDE DEF R
  <2>7. Types'
    BY <1>1, <2>1, <2>2, <2>4, <2>5, SettleType
  <2>8. sess'[s] = R /\ \A t \in Sessions \ {s} : sess'[t] = sess[t]
    BY <1>1, <2>2, <2>5, OthersKept
  <2>9. socks' = sk /\ idle_pools' = AfterPop(e)
    BY <2>2, <2>5 DEF Settle
  <2>10. P!Step(s)
    <3>1. sess'[s].up = PooledConn(e)
      BY <2>5, <2>8 DEF c
    <3> QED
      BY <1>1, <2>1, <2>4, <2>8, <2>9, <3>1, Reuses
  <2> QED
    BY <2>6, <2>7, <2>8, <2>9, <2>10 DEF Good
<1>4. CASE ~PoolHit(e)
  <2> DEFINE R == [y EXCEPT !.pend = "connect"]
  <2>1. Settle(s, R, socks, idle_pools, m)
    BY <1>4 DEF connect_upstream
  <2> HIDE DEF y
  <2>2. R \in SessionStates /\ R.up = x.up /\ R.pend = "connect" /\ R.rq = y.rq
    BY <1>2 DEF SessionStates, Pending
  <2> HIDE DEF R
  <2>3. Linked(R, Peers(socks))
    BY <1>2, <2>2 DEF Linked, UsesUpstream
  <2> QED
    BY <1>1, <2>1, <2>2, <2>3, SettleKeeps
<1> QED
  BY <1>3, <1>4

\* Relaying a read of the request acquires a connection the first time only.
LEMMA RequestChunkStep ==
  ASSUME OwnInv, NEW s \in Sessions, RequestChunk(s)
  PROVE  Good(s)
<1> DEFINE x == sess[s]
           Rest(y) == IF ~x.rq.connecting
                      THEN connect_upstream(s, y, HeadCounted(x))
                      ELSE /\ Settle(s, IF x.up = NoConn THEN [y EXCEPT !.pend = "none"]
                                        ELSE PullRequest(y),
                                     socks, idle_pools, HeadCounted(x))
                           /\ UNCHANGED next_endpoint
<1>0. PICK r \in Requests(x) :
        \E a \in Arrivals(r.framing, r.len, x.rq.got) :
          \E j \in Passed(x.rq.held, a.k, a.end, ReqBody) :
            Rest(DrainedRequest(ParsedRequest(x, r, a), a, j))
  BY DEF RequestChunk
<1>1. PICK a \in Arrivals(r.framing, r.len, x.rq.got) :
        \E j \in Passed(x.rq.held, a.k, a.end, ReqBody) :
          Rest(DrainedRequest(ParsedRequest(x, r, a), a, j))
  BY <1>0
<1>2. PICK j \in Passed(x.rq.held, a.k, a.end, ReqBody) :
        Rest(DrainedRequest(ParsedRequest(x, r, a), a, j))
  BY <1>1
<1>3. /\ x \in SessionStates /\ socks \in [Conns -> Sockets] /\ Linked(x, Peers(socks))
      /\ x.pend = "read_down" /\ HeadCounted(x) \in MetricsTypes /\ next_endpoint \in Endpoints
  BY InvTypes, MetricsType DEF RequestChunk
<1>4. r \in Heads /\ x.rq.got \in Nat
  BY <1>3, RequestsType DEF SessionStates, RequestSides
<1>5. a \in Reads
  BY <1>4, ArrivalsType DEF Heads
<1> DEFINE w == ParsedRequest(x, r, a)
           y == DrainedRequest(w, a, j)
<1>6. /\ w \in SessionStates /\ w.up = x.up /\ w.ep = x.ep /\ w.rq.connecting = x.rq.connecting
      /\ w.rq.ser = IF x.rq.started THEN x.rq.ser ELSE StartSerializer(r.framing = "chunked")
  BY <1>3, <1>4, <1>5, ParsedRequestType
<1>7. w.rq.held = x.rq.held
  BY <1>3 DEF ParsedRequest, SessionStates, RequestSides
<1>8. Rest(y)
  BY <1>2
<1> HIDE DEF w
<1>9. /\ y \in SessionStates /\ y.up = x.up /\ y.ep = x.ep /\ y.rq.connecting = x.rq.connecting
      /\ y.rq.ser.stage = w.rq.ser.stage /\ y.rq.ser.head = w.rq.ser.head
  BY <1>5, <1>6, <1>7, DrainedRequestType
<1> HIDE DEF y
<1>10. CASE ~x.rq.connecting
  <2>1. ~x.rq.started
    BY <1>3, <1>10 DEF Linked
  <2>2. y.rq.ser.stage = "head" /\ y.rq.ser.head = HeadUnits
    BY <1>6, <1>9, <2>1 DEF StartSerializer
  <2>3. connect_upstream(s, y, HeadCounted(x))
    BY <1>8, <1>10
  <2> QED
    BY <1>3, <1>9, <2>2, <2>3, ConnectUpstreamStep
<1>11. CASE x.rq.connecting
  <2>1. x.up # NoConn /\ Peers(socks)[x.up] = x.ep
    BY <1>3, <1>11 DEF Linked, UsesUpstream
  <2>2. Settle(s, PullRequest(y), socks, idle_pools, HeadCounted(x)) /\ next_endpoint' \in Endpoints
    BY <1>3, <1>8, <1>11, <2>1
  <2>3. PullRequest(y) \in SessionStates /\ PullRequest(y).up = x.up
    BY <1>9, PullRequestType
  <2>4. PullRequest(y).pend = "closed" \/ Linked(PullRequest(y), Peers(socks))
    BY <1>9, <1>11, <2>1, PullRequestLinked
  <2> QED
    BY <1>3, <2>2, <2>3, <2>4, SettleKeeps
<1> QED
  BY <1>10, <1>11

\* A server that closes its end changes no owner.
LEMMA ServerClosesStep ==
  ASSUME OwnInv, NEW c \in Conns, ServerCloses(c)
  PROVE  Types' /\ UNCHANGED P!vars /\ sess' = sess /\ Peers(socks') = Peers(socks)
<1>1. /\ Types /\ sess' = sess /\ idle_pools' = idle_pools /\ next_endpoint' = next_endpoint
      /\ metrics' = metrics /\ free' = free /\ socks' = [socks EXCEPT ![c].alive = FALSE]
  BY DEF OwnInv, ServerCloses, PeerCloses
<1>2. socks' \in [Conns -> Sockets]
  BY <1>1 DEF Types, Sockets
<1>3. Peers(socks') = Peers(socks)
  BY <1>1 DEF Types, Sockets, Peers
<1> QED
  BY <1>1, <1>2, <1>3 DEF Types, P!vars

\* Every handler, and start().
LEMMA HandlerStep ==
  ASSUME OwnInv, NEW s \in Sessions, start(s) \/ Handler(s)
  PROVE  Good(s)
BY StartStep, RequestChunkStep, RequestRefusedStep, ConnectSucceedsStep, WriteSucceedsStep,
   ReconnectSucceedsStep, SnapshotWrittenStep, ResponseHeadBeginsStep, ResponseChunkStep,
   ResponseRefusedStep, ResponseWrittenStep, FailureSteps
DEF Handler

\* The initial state.
LEMMA InitStep == Init => OwnInv /\ P!Init
<1> SUFFICES ASSUME Init PROVE OwnInv /\ P!Init
  OBVIOUS
<1>1. Types
  <2>1. next_endpoint \in Endpoints /\ idle_pools \in [Endpoints -> Seq(Conns)]
        /\ socks \in [Conns -> Sockets]
    BY NoSocketType, UpstreamAssumption DEF Init, InitUpstream, Endpoints
  <2> QED
    BY <2>1, FreshTypes, SessionAssumption DEF Init, Types, MetricsTypes
<1>2. P!Init
  <2>1. [t \in Sessions |-> sess[t].up] = [t \in Sessions |-> NoConn]
    BY DEF Init, FreshSession
  <2>2. Peers(socks) = [c \in Conns |-> -1]
    BY DEF Init, InitUpstream, NoSocket, Peers
  <2> QED
    BY <2>1, <2>2 DEF Init, InitUpstream, P!Init, P!Closed, P!Endpoints, Endpoints
<1>3. P!SingleOwner
  BY <1>2, P!InitOwner, UpstreamAssumption
<1>4. OperationHasConnection
  BY DEF Init, OperationHasConnection, FreshSession, Linked, UsesUpstream
<1> QED
  BY <1>1, <1>2, <1>3, <1>4 DEF OwnInv

\* Every step is a step of the connection pool or leaves it alone, and keeps OwnInv.
LEMMA NextStep == OwnInv /\ [Next]_vars => OwnInv' /\ [P!Next]_(P!vars)
<1> SUFFICES ASSUME OwnInv, [Next]_vars PROVE OwnInv' /\ [P!Next]_(P!vars)
  OBVIOUS
<1>0. Types /\ P!SingleOwner /\ OperationHasConnection
  BY DEF OwnInv
<1>1. ASSUME [P!Next]_(P!vars) PROVE P!SingleOwner'
  BY <1>0, <1>1, PoolTypes, UpstreamAssumption, P!StepOwner
<1>2. CASE UNCHANGED vars
  <2>1. Types' /\ OperationHasConnection'
    BY <1>0, <1>2 DEF vars, Types, OperationHasConnection
  <2>2. UNCHANGED P!vars
    BY <1>2 DEF vars, P!vars
  <2> QED
    BY <1>1, <2>1, <2>2 DEF OwnInv
<1>3. CASE \E c \in Conns : ServerCloses(c)
  <2>1. Types' /\ UNCHANGED P!vars /\ sess' = sess /\ Peers(socks') = Peers(socks)
    BY <1>3, ServerClosesStep
  <2>2. OperationHasConnection'
    BY <1>0, <2>1 DEF OperationHasConnection
  <2> QED
    BY <1>1, <2>1, <2>2 DEF OwnInv
<1>4. ASSUME NEW s \in Sessions, Good(s) PROVE OwnInv' /\ [P!Next]_(P!vars)
  <2>1. P!Step(s) \/ UNCHANGED P!vars
    BY <1>4 DEF Good
  <2>2. [P!Next]_(P!vars)
    BY <2>1 DEF P!Next
  <2>3. \A t \in Sessions \ {s} : sess'[t] = sess[t]
    BY <1>4 DEF Good
  <2>4. ASSUME NEW t \in Sessions \ {s}, sess[t].up # NoConn
        PROVE  Peers(socks')[sess[t].up] = Peers(socks)[sess[t].up]
    <3>1. CASE P!Step(s)
      BY <1>0, <2>4, <3>1, PoolTypes, UpstreamAssumption, P!StepSeparate
    <3>2. CASE UNCHANGED P!vars
      BY <3>2 DEF P!vars
    <3> QED
      BY <2>1, <3>1, <3>2
  <2>5. ASSUME NEW t \in Sessions \ {s} PROVE Linked(sess'[t], Peers(socks'))
    <3>1. Linked(sess[t], Peers(socks)) /\ sess'[t] = sess[t]
      BY <1>0, <2>3 DEF OperationHasConnection
    <3> QED
      BY <2>4, <3>1 DEF Linked
  <2>6. OperationHasConnection'
    BY <1>4, <2>5 DEF Good, OperationHasConnection
  <2> QED
    BY <1>1, <1>4, <2>2, <2>6 DEF Good, OwnInv
<1> QED
  BY <1>2, <1>3, <1>4, HandlerStep DEF Next

\* Every operation of every session has the connection it works on.
THEOREM ConnectionHeld == Spec => []OperationHasConnection
<1>1. OwnInv => OperationHasConnection
  BY DEF OwnInv
<1> QED
  BY <1>1, InitStep, NextStep, PTL DEF Spec

\* Every open connection of the shard has exactly one owner.
THEOREM ConnectionOwned == Spec => []Pool!SingleOwner
<1>1. OwnInv => Pool!SingleOwner
  BY DEF OwnInv, P!SingleOwner, P!HeldOnce, P!PooledOnce, P!NoneLeaked, P!Closed, P!Endpoints,
         Pool!SingleOwner, Pool!HeldOnce, Pool!PooledOnce, Pool!NoneLeaked, Pool!Closed,
         Pool!Endpoints
<1> QED
  BY <1>1, InitStep, NextStep, PTL DEF Spec

\* The sessions of a shard implement the connection pool.
THEOREM PoolRefinement == Spec => ImplementsPool
<1>1. P!Init => Pool!Init
  BY DEF P!Init, Pool!Init, P!Closed, Pool!Closed, P!Endpoints, Pool!Endpoints
<1>2. [P!Next]_(P!vars) => [Pool!Next]_(Pool!vars)
  BY DEF P!Next, Pool!Next, P!vars, Pool!vars, P!Step, Pool!Step, P!Connect, Pool!Connect,
         P!Reuse, Pool!Reuse, P!Release, Pool!Release, P!Discard, Pool!Discard,
         P!Endpoints, Pool!Endpoints, P!Closed, Pool!Closed, P!Shut, Pool!Shut,
         P!Taken, Pool!Taken
<1> QED
  BY <1>1, <1>2, InitStep, NextStep, PTL DEF Spec, ImplementsPool, Pool!Spec
-----------------------------------------------------------------------------
(***************************************************************************)
(* What a session holds of a message.                                      *)
(***************************************************************************)

\* Units the request serialiser has given out, and a request of which none is out.
LastFrame(q) == IF q.framing = "chunked" /\ q.ser.last THEN 1 ELSE 0
Sent(q) == HeadUnits + q.given + LastFrame(q) - q.ser.head - q.ser.pending
Unsent(q) == q.ser.head = HeadUnits /\ q.ser.pending = q.given + LastFrame(q)

\* The request side by itself.  A body with a Content-Length cannot be read to its
\* end without the end being known.
RequestSound(q) ==
  /\ SerSound(q.ser)
  /\ ~q.started => q = FreshRequest
  /\ q.framing \in {"length", "chunked"}
  /\ q.ser.chunked = (q.framing = "chunked")
  /\ q.ser.last => q.done
  /\ q.framing = "length" /\ q.ser.last => q.given = q.len
  /\ q.started /\ q.framing = "length" => q.got < q.len \/ q.done

\* Every unit read has been passed on or is held back, and so has the end.  A
\* refused read is the exception: what it brought is dropped.
Even(q) == q.given + q.held = q.got /\ (q.done => q.ser.last)

\* A server's response, for a client that asked for keep-alive or did not.
RelaySound(q, keep) ==
  /\ q.framing \in RespFramings
  /\ Even(q) /\ (q.ser.last => q.done) /\ q.ser.chunked = (q.framing = "chunked")
  /\ q.framing = "length" /\ q.ser.last => q.given = q.len
  /\ q.framing \in {"length", "bodyless", "interim"} => q.got < q.len \/ q.done
  /\ q.eff => keep /\ q.framing \in {"length", "chunked"}

\* The response side by itself.
ResponseSound(q, keep) ==
  /\ SerSound(q.ser)
  /\ ~q.started => q = FreshResponse
  /\ ~q.direct /\ q.started => q.heads = 1 /\ q.ser.head < HeadUnits /\ RelaySound(q, keep)

\* What is kept for a retry: the first write, as long as it is the only one, and
\* the snapshot of a request that went out whole with it.
RetrySound(x) ==
  /\ ~x.rq.started => x.rt = FreshRetry
  /\ x.rt.captured => done(x.rq.ser) /\ x.rt.snap = Sent(x.rq) /\ x.rt.snapOf = x.num
  /\ x.pend = "connect" => Unsent(x.rq) /\ ~x.rt.wrote
  /\ x.pend = "write_up" /\ ~x.rt.wrote => x.rt.n = Sent(x.rq)
  /\ x.pend \in {"reconnect_w", "rewrite_w"} => x.rt.n = Sent(x.rq)
  /\ x.pend = "read_down" /\ x.rq.started => x.rt.wrote
  /\ x.pend \in {"reconnect_r", "rewrite_r"} => ~x.rt.any /\ x.rt.used /\ x.rt.captured

\* How often a server has received the whole request.
RunsSound(x) ==
  /\ x.pend \notin {"read_up", "write_down", "reconnect_r", "rewrite_r"} => x.rq.runs = 0
  /\ x.pend \in {"reconnect_r", "rewrite_r"} => x.rq.runs <= 1
  /\ x.rq.runs <= 1 + (IF x.rt.used /\ x.rt.captured THEN 1 ELSE 0)

\* What each operation under way says about the two sides: the response begins when
\* the request is out, and nothing of it is there before.
PhaseSound(x) ==
  /\ x.num >= 1
  /\ x.pend \notin {"read_up", "write_down"} => ~x.rs.started
  /\ x.pend = "write_down" => x.rs.started
  /\ x.rs.direct => x.pend = "write_down"
  /\ ~x.rs.direct => Even(x.rq)
  /\ x.pend = "read_down" => ~x.rq.done
  /\ x.pend \notin {"unborn", "closed", "read_down"} => x.rq.started
  /\ x.pend = "read_up" \/ (x.pend = "write_down" /\ ~x.rs.direct) => done(x.rq.ser)
  /\ x.pend = "read_up" => ~x.rs.done
  /\ x.rs.started /\ ~x.rs.direct => x.rt.any

Sound(x) ==
  /\ RequestSound(x.rq) /\ ResponseSound(x.rs, x.rq.keep)
  /\ RetrySound(x) /\ RunsSound(x) /\ PhaseSound(x)

\* Nothing of a message.
LEMMA FreshFacts ==
  /\ ~FreshResponse.started /\ ~FreshResponse.direct /\ ~FreshResponse.done
  /\ FreshResponse = [FreshResponse EXCEPT !.got = 0, !.done = FALSE, !.ser = StartSerializer(FALSE)]
  /\ SerSound(FreshResponse.ser)
  /\ ~FreshRequest.started /\ ~FreshRequest.done /\ ~FreshRequest.connecting
  /\ FreshRequest.runs = 0 /\ RequestSound(FreshRequest) /\ Even(FreshRequest)
  /\ ~FreshRetry.wrote /\ ~FreshRetry.used /\ ~FreshRetry.captured
  /\ \A keep : ResponseSound(FreshResponse, keep)
<1>1. SerSound(StartSerializer(FALSE))
  BY StartSound
<1>2. FreshResponse.ser = StartSerializer(FALSE) /\ ~FreshResponse.started
      /\ ~FreshResponse.direct /\ ~FreshResponse.done
  BY DEF FreshResponse
<1>3. FreshResponse = [FreshResponse EXCEPT !.got = 0, !.done = FALSE, !.ser = StartSerializer(FALSE)]
  <2>1. FreshResponse \in ResponseSides /\ FreshResponse.got = 0 /\ FreshResponse.done = FALSE
    BY FreshTypes DEF FreshResponse
  <2>2. \A q \in ResponseSides : \A z : q.got = 0 /\ q.done = FALSE /\ q.ser = z =>
          q = [q EXCEPT !.got = 0, !.done = FALSE, !.ser = z]
    BY DEF ResponseSides
  <2> QED
    BY <1>2, <2>1, <2>2
<1>4. /\ ~FreshRequest.started /\ ~FreshRequest.done /\ ~FreshRequest.connecting
      /\ FreshRequest.runs = 0 /\ FreshRequest.framing = "length" /\ FreshRequest.given = 0
      /\ FreshRequest.held = 0 /\ FreshRequest.got = 0 /\ FreshRequest.ser = StartSerializer(FALSE)
  BY DEF FreshRequest
<1>5. ~StartSerializer(FALSE).last /\ StartSerializer(FALSE).chunked = FALSE
  BY StartSound
<1>6. RequestSound(FreshRequest) /\ Even(FreshRequest)
  <2>1. FreshRequest.ser.chunked = (FreshRequest.framing = "chunked") /\ ~FreshRequest.ser.last
    BY <1>4, <1>5
  <2>2. RequestSound(FreshRequest)
    BY <1>1, <1>4, <2>1 DEF RequestSound
  <2>3. FreshRequest.given + FreshRequest.held = FreshRequest.got /\ ~FreshRequest.done
    BY <1>4
  <2>4. Even(FreshRequest)
    BY <2>3 DEF Even
  <2> QED
    BY <2>2, <2>4
<1>7. ~FreshRetry.wrote /\ ~FreshRetry.used /\ ~FreshRetry.captured
  BY DEF FreshRetry
<1>8. \A keep : ResponseSound(FreshResponse, keep)
  BY <1>1, <1>2 DEF ResponseSound
<1> QED
  BY <1>1, <1>2, <1>3, <1>4, <1>6, <1>7, <1>8

\* PullRequest, field by field.
LEMMA PullRequestFields ==
  ASSUME NEW x \in SessionStates
  PROVE  LET R == PullRequest(x)
             n == Pulled(x.rq.ser)
             ser == pull(x.rq.ser)
         IN
         /\ R.num = x.num /\ R.rq = [x.rq EXCEPT !.ser = ser]
         /\ R.rt.wrote = x.rt.wrote /\ R.rt.used = x.rt.used /\ R.rt.any = x.rt.any
         /\ n > 0 =>
              /\ R.pend = "write_up" /\ R.rs = x.rs /\ R.rt.n = n
              /\ IF CapturesWhole(x, ser)
                 THEN R.rt.captured /\ R.rt.snap = n /\ R.rt.snapOf = x.num
                 ELSE /\ R.rt.captured = x.rt.captured
                      /\ R.rt.snap = x.rt.snap /\ R.rt.snapOf = x.rt.snapOf
         /\ n = 0 => R.rt = x.rt
         /\ n = 0 /\ done(ser) =>
              /\ R.pend = "read_up"
              /\ R.rs = [x.rs EXCEPT !.got = 0, !.done = FALSE, !.ser = StartSerializer(FALSE)]
         /\ n = 0 /\ ~done(ser) /\ ~x.rq.done => R.pend = "read_down" /\ R.rs = x.rs
         /\ n = 0 /\ ~done(ser) /\ x.rq.done => R.pend = "closed"
<1> DEFINE n == Pulled(x.rq.ser)
           ser == pull(x.rq.ser)
           y == [x EXCEPT !.rq.ser = pull(@)]
           R == PullRequest(x)
<1>1. n \in Nat /\ ser \in Serializers
  BY PullType DEF SessionStates, RequestSides
<1>2. /\ y \in SessionStates /\ y.rq = [x.rq EXCEPT !.ser = ser] /\ y.rq.ser = ser
      /\ y.num = x.num /\ y.rt = x.rt /\ y.rs = x.rs
  BY <1>1 DEF SessionStates, RequestSides
<1>3. CASE n > 0 /\ CapturesWhole(x, ser)
  <2>1. R = [y EXCEPT !.pend = "write_up", !.rt.n = n, !.rt.captured = TRUE,
                      !.rt.snap = n, !.rt.snapOf = x.num]
    BY <1>1, <1>2, <1>3 DEF PullRequest
  <2> HIDE DEF R, y, n, ser
  <2>2. R.rt = [y.rt EXCEPT !.n = n, !.captured = TRUE, !.snap = n, !.snapOf = x.num]
    BY <1>2, <2>1 DEF SessionStates, RetryStates
  <2>3. R.pend = "write_up" /\ R.num = y.num /\ R.rq = y.rq /\ R.rs = y.rs
    BY <1>2, <2>1 DEF SessionStates
  <2>4. y.rt \in RetryStates
    BY <1>2 DEF SessionStates
  <2>5. /\ R.rt.n = n /\ R.rt.captured /\ R.rt.snap = n /\ R.rt.snapOf = x.num
        /\ R.rt.wrote = x.rt.wrote /\ R.rt.used = x.rt.used /\ R.rt.any = x.rt.any
    BY <1>2, <2>2, <2>4 DEF RetryStates
  <2> QED
    BY <1>1, <1>2, <1>3, <2>3, <2>5 DEF R, n, ser
<1>4. CASE n > 0 /\ ~CapturesWhole(x, ser)
  <2>1. R = [y EXCEPT !.pend = "write_up", !.rt.n = n]
    BY <1>1, <1>2, <1>4 DEF PullRequest
  <2> HIDE DEF R, y, n, ser
  <2> QED
    BY <1>1, <1>2, <1>4, <2>1 DEF SessionStates, RetryStates, R, n, ser
<1>5. CASE n = 0 /\ done(ser)
  <2>1. R = StartResponsePhase(y)
    BY <1>1, <1>2, <1>5 DEF PullRequest
  <2> HIDE DEF R, y, n, ser
  <2>2. /\ R.pend = "read_up" /\ R.num = y.num /\ R.rq = y.rq /\ R.rt = y.rt
        /\ R.rs = [y.rs EXCEPT !.got = 0, !.done = FALSE, !.ser = StartSerializer(FALSE)]
    BY <1>2, <2>1 DEF StartResponsePhase, SessionStates, ResponseSides
  <2> QED
    BY <1>1, <1>2, <1>5, <2>2 DEF R, n, ser
<1>6. CASE n = 0 /\ ~done(ser) /\ ~x.rq.done
  <2>1. R = [y EXCEPT !.pend = "read_down"]
    BY <1>1, <1>2, <1>6 DEF PullRequest
  <2> HIDE DEF R, y, n, ser
  <2> QED
    BY <1>1, <1>2, <1>6, <2>1 DEF SessionStates, R, n, ser
<1>7. CASE n = 0 /\ ~done(ser) /\ x.rq.done
  <2>1. R = [y EXCEPT !.pend = "closed"]
    BY <1>1, <1>2, <1>7 DEF PullRequest
  <2> HIDE DEF R, y, n, ser
  <2> QED
    BY <1>1, <1>2, <1>7, <2>1 DEF SessionStates, R, n, ser
<1> QED
  BY <1>1, <1>3, <1>4, <1>5, <1>6, <1>7

\* A pull moves what it reports from the units to come to the units sent.
LEMMA SentPulled ==
  ASSUME NEW q \in RequestSides, SerSound(q.ser), NEW r, r = [q EXCEPT !.ser = pull(q.ser)]
  PROVE  Sent(r) = Sent(q) + Pulled(q.ser) /\ Sent(q) \in Int
<1> DEFINE n == Pulled(q.ser)
           ser == pull(q.ser)
<1>1. /\ q.ser \in Serializers /\ n \in Nat /\ ser \in Serializers /\ q.given \in Nat
      /\ HeadUnits \in Nat
  BY PullType, SerializerAssumption DEF RequestSides
<1>2. ser.last = q.ser.last /\ ser.head + ser.pending = q.ser.head + q.ser.pending - n
  BY <1>1, PullSound
<1> HIDE DEF n, ser
<1>3. r.ser = ser /\ r.framing = q.framing /\ r.given = q.given
  BY DEF RequestSides, ser
<1>4. ser.head \in Nat /\ ser.pending \in Nat /\ q.ser.head \in Nat /\ q.ser.pending \in Nat
  BY <1>1 DEF Serializers
<1>5. LastFrame(r) = LastFrame(q) /\ LastFrame(q) \in Nat
  BY <1>2, <1>3 DEF LastFrame
<1> HIDE DEF LastFrame
<1>6. Sent(r) = Sent(q) + n
  BY <1>1, <1>2, <1>3, <1>4, <1>5 DEF Sent
<1>7. Sent(q) \in Int
  BY <1>1, <1>4, <1>5 DEF Sent
<1> QED
  BY <1>6, <1>7 DEF n

\* pull_and_write_request_to_upstream() on a request of which what has been read so
\* far is in the serialiser: it writes, waits for more, or turns to the response.
LEMMA PullRequestSound ==
  ASSUME NEW x \in SessionStates,
         RequestSound(x.rq), x.rq.started, Even(x.rq), x.rs = FreshResponse,
         ~x.rt.wrote => Unsent(x.rq) /\ ~x.rt.captured,
         x.rt.captured => done(x.rq.ser) /\ x.rt.snap = Sent(x.rq) /\ x.rt.snapOf = x.num,
         x.rq.runs <= 1, x.rq.runs = 0 \/ FullyPulled(x.rq.ser), x.num >= 1
  PROVE  PullRequest(x).pend = "closed" \/ Sound(PullRequest(x))
<1> DEFINE R == PullRequest(x)
           n == Pulled(x.rq.ser)
           ser == pull(x.rq.ser)
<1>1. /\ x.rq \in RequestSides /\ x.rq.ser \in Serializers /\ x.rt \in RetryStates
      /\ x.rq.runs \in Nat /\ x.rq.given \in Nat
      /\ n \in Nat /\ ser \in Serializers
  BY PullType DEF SessionStates, RequestSides
<1>2. /\ R.num = x.num /\ R.rq = [x.rq EXCEPT !.ser = ser]
      /\ R.rt.wrote = x.rt.wrote /\ R.rt.used = x.rt.used /\ R.rt.any = x.rt.any
      /\ n > 0 =>
           /\ R.pend = "write_up" /\ R.rs = x.rs /\ R.rt.n = n
           /\ IF CapturesWhole(x, ser)
              THEN R.rt.captured /\ R.rt.snap = n /\ R.rt.snapOf = x.num
              ELSE /\ R.rt.captured = x.rt.captured
                   /\ R.rt.snap = x.rt.snap /\ R.rt.snapOf = x.rt.snapOf
      /\ n = 0 => R.rt = x.rt
      /\ n = 0 /\ done(ser) =>
           /\ R.pend = "read_up"
           /\ R.rs = [x.rs EXCEPT !.got = 0, !.done = FALSE, !.ser = StartSerializer(FALSE)]
      /\ n = 0 /\ ~done(ser) /\ ~x.rq.done => R.pend = "read_down" /\ R.rs = x.rs
      /\ n = 0 /\ ~done(ser) /\ x.rq.done => R.pend = "closed"
  BY PullRequestFields
<1>3. /\ SerSound(ser) /\ ser.last = x.rq.ser.last /\ ser.chunked = x.rq.ser.chunked
      /\ ser.head + ser.pending = x.rq.ser.head + x.rq.ser.pending - n
      /\ x.rq.ser.head = HeadUnits => n > 0
      /\ n = 0 /\ x.rq.ser.last <=> FullyPulled(x.rq.ser)
      /\ done(ser) => FullyPulled(ser)
      /\ FullyPulled(x.rq.ser) => done(ser)
  BY <1>1, PullSound DEF RequestSound
<1>30. done(x.rq.ser) => FullyPulled(x.rq.ser)
  BY <1>1 DEF RequestSound, SerSound, done, FullyPulled, Serializers
<1> HIDE DEF R, n, ser
<1>4. /\ R.rq.ser = ser /\ R.rq.started /\ R.rq.framing = x.rq.framing /\ R.rq.len = x.rq.len
      /\ R.rq.keep = x.rq.keep /\ R.rq.got = x.rq.got /\ R.rq.done = x.rq.done
      /\ R.rq.held = x.rq.held /\ R.rq.given = x.rq.given /\ R.rq.runs = x.rq.runs
  BY <1>1, <1>2 DEF RequestSides
<1>5. RequestSound(R.rq) /\ Even(R.rq)
  BY <1>3, <1>4 DEF RequestSound, Even
<1>6. Sent(R.rq) = Sent(x.rq) + n /\ Sent(x.rq) \in Int
  BY <1>1, <1>2, SentPulled DEF RequestSound, n, ser
<1>7. ~x.rt.wrote => Sent(x.rq) = 0 /\ n > 0
  <2>1. x.rq.ser.pending \in Nat /\ HeadUnits \in Nat /\ LastFrame(x.rq) \in Nat
    BY <1>1, SerializerAssumption DEF Serializers, LastFrame
  <2> HIDE DEF LastFrame
  <2> QED
    BY <1>1, <1>3, <2>1 DEF Unsent, Sent
<1>8. /\ ~FreshResponse.started /\ ~FreshResponse.direct /\ ~FreshResponse.done
      /\ FreshResponse = [FreshResponse EXCEPT !.got = 0, !.done = FALSE, !.ser = StartSerializer(FALSE)]
      /\ SerSound(FreshResponse.ser)
  BY FreshFacts
<1>9. R.pend # "closed" => R.rs = FreshResponse
  BY <1>1, <1>2, <1>8
<1>10. Sent(x.rq) \in Int
  BY <1>6
<1>11. x.rt.captured => n = 0 /\ done(ser)
  BY <1>3, <1>30
<1>12. R.rt.captured => done(R.rq.ser) /\ R.rt.snap = Sent(R.rq) /\ R.rt.snapOf = R.num
  <2>1. CASE n > 0 /\ CapturesWhole(x, ser)
    <3>1. Sent(R.rq) = n /\ done(ser)
      BY <1>1, <1>6, <1>7, <2>1 DEF CapturesWhole
    <3> QED
      BY <1>2, <1>4, <2>1, <3>1
  <2>2. CASE n > 0 /\ ~CapturesWhole(x, ser)
    BY <1>1, <1>2, <1>11, <2>2
  <2>3. CASE n = 0
    <3>1. Sent(R.rq) = Sent(x.rq)
      BY <1>6, <1>10, <2>3
    <3> QED
      BY <1>2, <1>4, <1>11, <2>3, <3>1
  <2> QED
    BY <1>1, <2>1, <2>2, <2>3
<1>13. R.pend # "closed" => RetrySound(R)
  BY <1>1, <1>2, <1>4, <1>6, <1>7, <1>10, <1>12 DEF RetrySound
<1>14. R.pend # "closed" => RunsSound(R)
  BY <1>1, <1>2, <1>3, <1>4 DEF RunsSound
<1>15. R.pend # "closed" => PhaseSound(R)
  BY <1>1, <1>2, <1>4, <1>5, <1>8, <1>9 DEF PhaseSound
<1>16. R.pend # "closed" => ResponseSound(R.rs, R.rq.keep)
  BY <1>8, <1>9 DEF ResponseSound
<1> QED
  BY <1>5, <1>13, <1>14, <1>15, <1>16 DEF Sound, R

\* The first part of process_downstream_chunk(): a read is parsed.
LEMMA ParsedRequestSound ==
  ASSUME NEW x \in SessionStates, Sound(x), x.pend = "read_down",
         NEW r \in Requests(x), NEW a \in Arrivals(r.framing, r.len, x.rq.got)
  PROVE  LET y == ParsedRequest(x, r, a) IN
         /\ y.num = x.num /\ y.rt = x.rt /\ y.rs = x.rs /\ y.pend = x.pend
         /\ RequestSound(y.rq) /\ ~y.rq.ser.last /\ y.rq.done = a.end /\ y.rq.started
         /\ y.rq.held = x.rq.held /\ y.rq.given = x.rq.given /\ y.rq.runs = 0
         /\ y.rq.given + y.rq.held + a.k = y.rq.got
         /\ a.end => y.rq.got = y.rq.len
         /\ y.rq.framing = "length" /\ a.end /\ a.k = 0 => y.rq.given = y.rq.len /\ ~x.rq.started
         /\ y.rq.connecting = x.rq.connecting
         /\ ~x.rq.started => Unsent(y.rq)
         /\ x.rq.started => Sent(y.rq) = Sent(x.rq)
<1> DEFINE ser == IF x.rq.started THEN x.rq.ser ELSE StartSerializer(r.framing = "chunked")
           q == [x.rq EXCEPT !.started = TRUE, !.framing = r.framing, !.len = r.len,
                             !.keep = r.keep, !.got = @ + a.k, !.done = a.end, !.ser = ser]
           y == ParsedRequest(x, r, a)
<1>0. r \in Heads /\ x.rq \in RequestSides /\ x.rq.got \in Nat /\ x.rq.given \in Nat /\ x.rq.held \in Nat
  BY RequestsType DEF SessionStates, RequestSides
<1>1. a \in Reads /\ a.k \in Nat /\ a.end \in BOOLEAN
  BY <1>0, ArrivalsType DEF Heads, Reads
<1>2. /\ a.k <= r.len - x.rq.got /\ (a.end => x.rq.got + a.k = r.len)
      /\ r.framing = "length" => (x.rq.got + a.k = r.len => a.end)
  BY <1>0, SessionAssumption DEF Arrivals, Lesser, Heads
<1>3. y = [x EXCEPT !.rq = q]
  BY DEF ParsedRequest, SessionStates, RequestSides
<1>4. r.framing \in {"length", "chunked"} /\ r.len \in Nat
      /\ (x.rq.started => r.framing = x.rq.framing /\ r.len = x.rq.len)
  <2>1. CASE x.rq.started
    BY <1>0, <2>1 DEF Requests, Heads, Sound, RequestSound
  <2>2. CASE ~x.rq.started
    <3>1. r \in [framing : ReqFramings, len : 0..MaxBody, keep : BOOLEAN]
      BY <2>2 DEF Requests
    <3> QED
      BY <1>0, <2>2, <3>1, SessionAssumption DEF Heads
  <2> QED
    BY <2>1, <2>2
<1>5. /\ RequestSound(x.rq) /\ ~x.rq.done /\ ~x.rq.ser.last /\ x.rq.runs = 0
      /\ x.rq.given + x.rq.held = x.rq.got
      /\ ~x.rq.started => x.rq = FreshRequest
  <2>1. RequestSound(x.rq) /\ PhaseSound(x) /\ RunsSound(x)
    BY DEF Sound
  <2> QED
    BY <2>1 DEF RequestSound, PhaseSound, RunsSound, Even
<1>6. SerSound(ser) /\ ~ser.last /\ ser.chunked = (r.framing = "chunked")
      /\ (~x.rq.started => ser.head = HeadUnits /\ ser.pending = 0)
      /\ (x.rq.started => ser = x.rq.ser)
  <2>1. CASE x.rq.started
    BY <1>4, <1>5, <2>1 DEF RequestSound
  <2>2. CASE ~x.rq.started
    <3>1. (r.framing = "chunked") \in BOOLEAN
      OBVIOUS
    <3> QED
      BY <2>2, <3>1, StartSound
  <2> QED
    BY <2>1, <2>2
<1> HIDE DEF ser
<1>7. /\ q.started /\ q.framing = r.framing /\ q.len = r.len /\ q.got = x.rq.got + a.k
      /\ q.done = a.end /\ q.ser = ser /\ q.held = x.rq.held /\ q.given = x.rq.given
      /\ q.runs = x.rq.runs /\ q.connecting = x.rq.connecting
  BY <1>0 DEF RequestSides
<1> HIDE DEF q
<1>8. y.num = x.num /\ y.rt = x.rt /\ y.rs = x.rs /\ y.pend = x.pend /\ y.rq = q
  BY <1>3 DEF SessionStates
<1> HIDE DEF y
<1>9. RequestSound(q)
  BY <1>0, <1>1, <1>2, <1>4, <1>6, <1>7 DEF RequestSound
<1>10. ~x.rq.started => x.rq.given = 0 /\ x.rq.got = 0
  BY <1>5 DEF FreshRequest
<1>11. q.framing = "length" /\ a.end /\ a.k = 0 => q.given = q.len /\ ~x.rq.started
  <2>1. CASE x.rq.started
    BY <1>0, <1>1, <1>2, <1>4, <1>5, <1>7, <2>1 DEF RequestSound
  <2>2. CASE ~x.rq.started
    <3>1. q.given = 0 /\ x.rq.got + a.k = a.k
      BY <1>1, <1>7, <1>10, <2>2
    <3> QED
      BY <1>2, <1>7, <2>2, <3>1
  <2> QED
    BY <2>1, <2>2
<1>12. ~x.rq.started => Unsent(q)
  BY <1>6, <1>7, <1>10 DEF Unsent, LastFrame
<1>13. x.rq.started => Sent(q) = Sent(x.rq)
  BY <1>4, <1>6, <1>7 DEF Sent, LastFrame
<1>14. q.given + q.held + a.k = q.got /\ (a.end => q.got = q.len)
  BY <1>0, <1>1, <1>2, <1>5, <1>7
<1> QED
  BY <1>5, <1>6, <1>7, <1>8, <1>9, <1>11, <1>12, <1>13, <1>14 DEF y

\* drain_request_body_into_serializer(): what is let through goes to the serialiser,
\* and the end of a body with a Content-Length never leaves anything held back.
LEMMA DrainedRequestSound ==
  ASSUME NEW y \in SessionStates, NEW a \in Reads, RequestSound(y.rq), ~y.rq.ser.last,
         y.rq.done = a.end, y.rq.started, y.rq.given + y.rq.held + a.k = y.rq.got,
         a.end => y.rq.got = y.rq.len,
         y.rq.framing = "length" /\ a.end /\ a.k = 0 => y.rq.given = y.rq.len,
         NEW j \in Passed(y.rq.held, a.k, a.end, ReqBody)
  PROVE  LET z == DrainedRequest(y, a, j) IN
         /\ z \in SessionStates
         /\ z.num = y.num /\ z.rt = y.rt /\ z.rs = y.rs /\ z.pend = y.pend /\ z.up = y.up
         /\ z.rq.started /\ z.rq.runs = y.rq.runs /\ z.rq.connecting = y.rq.connecting
         /\ RequestSound(z.rq) /\ Even(z.rq)
         /\ Unsent(y.rq) => Unsent(z.rq)
         /\ Sent(z.rq) = Sent(y.rq)
         /\ z.rq.ser.last = a.end
         /\ a.end /\ (y.rq.framing = "length" => a.k > 0) => z.rq.ser.pending > 0
<1> DEFINE fwd == ForwardedBy(y.rq.held, j)
           ser == provide_body(y.rq.ser, fwd, a.end)
           q == [y.rq EXCEPT !.held = HeldBy(@, a.k, j), !.given = @ + fwd, !.ser = ser]
           z == DrainedRequest(y, a, j)
<1>0. /\ y.rq \in RequestSides /\ a.k \in Nat /\ a.end \in BOOLEAN /\ y.rq.held \in Nat
      /\ y.rq.given \in Nat /\ y.rq.got \in Nat /\ y.rq.ser \in Serializers
      /\ y.rq.ser.head \in Nat /\ y.rq.ser.pending \in Nat /\ HeadUnits \in Nat
  BY SerializerAssumption DEF SessionStates, Reads, RequestSides, Serializers
<1>1. fwd \in Nat /\ HeldBy(y.rq.held, a.k, j) \in Nat
  BY <1>0, PassedType
<1>2. fwd + HeldBy(y.rq.held, a.k, j) = y.rq.held + a.k
  BY <1>0 DEF ForwardedBy, HeldBy, Passed
<1>3. a.end /\ a.k > 0 => HeldBy(y.rq.held, a.k, j) = 0
  BY <1>0 DEF HeldBy, Passed
<1>13. a.k = 0 => fwd = 0
  BY <1>0 DEF ForwardedBy, Passed
<1>4. /\ SerSound(ser) /\ ser.head = y.rq.ser.head /\ ser.chunked = y.rq.ser.chunked
      /\ ser.last = a.end
      /\ ser.pending = y.rq.ser.pending + fwd + (IF y.rq.ser.chunked /\ a.end THEN 1 ELSE 0)
  BY <1>0, <1>1, ProvideSound DEF RequestSound
<1>5. z = [y EXCEPT !.rq = q]
  BY DEF DrainedRequest, SessionStates, RequestSides
<1>12. z \in SessionStates
  BY DrainedRequestType
<1> DEFINE h == HeldBy(y.rq.held, a.k, j)
<1> HIDE DEF ser, fwd, h
<1>6. /\ q.started = y.rq.started /\ q.framing = y.rq.framing /\ q.len = y.rq.len
      /\ q.got = y.rq.got /\ q.done = y.rq.done /\ q.ser = ser /\ q.held = h
      /\ q.given = y.rq.given + fwd /\ q.runs = y.rq.runs /\ q.connecting = y.rq.connecting
  BY <1>0 DEF RequestSides, h
<1> HIDE DEF q
<1>7. /\ z.num = y.num /\ z.rt = y.rt /\ z.rs = y.rs /\ z.pend = y.pend /\ z.up = y.up
      /\ z.rq = q
  BY <1>5 DEF SessionStates
<1> HIDE DEF z
<1>8. q.given + q.held = q.got
  BY <1>0, <1>1, <1>2, <1>6 DEF h
<1>9. q.framing = "length" /\ a.end => q.given = q.len
  <2>1. CASE a.k = 0
    BY <1>0, <1>6, <1>13, <2>1
  <2>2. CASE a.k > 0
    BY <1>0, <1>1, <1>3, <1>6, <1>8, <2>2 DEF h
  <2> QED
    BY <1>0, <2>1, <2>2
<1>10. RequestSound(q) /\ Even(q)
  <2>1. SerSound(q.ser) /\ q.started /\ q.ser.chunked = (q.framing = "chunked")
        /\ q.framing \in {"length", "chunked"} /\ (q.ser.last <=> q.done)
    BY <1>4, <1>6 DEF RequestSound
  <2>2. q.framing = "length" /\ q.ser.last => q.given = q.len
    BY <1>4, <1>6, <1>9
  <2>3. q.framing = "length" => q.got < q.len \/ q.done
    BY <1>6 DEF RequestSound
  <2>4. RequestSound(q)
    BY <2>1, <2>2, <2>3 DEF RequestSound
  <2> QED
    BY <1>8, <2>1, <2>4 DEF Even
<1>11. /\ LastFrame(y.rq) = 0
       /\ LastFrame(q) = IF y.rq.ser.chunked /\ a.end THEN 1 ELSE 0
       /\ LastFrame(q) \in Nat
  BY <1>4, <1>6 DEF LastFrame, RequestSound
<1> HIDE DEF LastFrame
<1>14. Unsent(y.rq) => Unsent(q)
  BY <1>0, <1>1, <1>4, <1>6, <1>11 DEF Unsent
<1>15. Sent(q) = Sent(y.rq)
  <2>1. ser.pending = y.rq.ser.pending + fwd + LastFrame(q)
    BY <1>4, <1>11
  <2> QED
    BY <1>0, <1>1, <1>4, <1>6, <1>11, <2>1 DEF Sent
<1>16. a.end /\ (y.rq.framing = "length" => a.k > 0) => ser.pending > 0
  <2>1. CASE y.rq.framing = "length"
    <3>1. a.end /\ a.k > 0 => fwd > 0
      BY <1>0, <1>1, <1>2, <1>3
    <3> QED
      BY <1>0, <1>1, <1>4, <2>1, <3>1
  <2>2. CASE y.rq.framing = "chunked"
    <3>1. y.rq.ser.chunked
      BY <2>2 DEF RequestSound
    <3> QED
      BY <1>0, <1>1, <1>4, <3>1
  <2> QED
    BY <2>1, <2>2 DEF RequestSound
<1> QED
  BY <1>4, <1>6, <1>7, <1>10, <1>12, <1>14, <1>15, <1>16 DEF z
-----------------------------------------------------------------------------
(***************************************************************************)
(* What the server at the other end has of it.                             *)
(***************************************************************************)

Quiet(k) == k.rx = 0 /\ k.due = <<>>

\* Socket k of session s, whose state is x.  While the request goes out, a server
\* that is there has all that was written and owes nothing; while the response is
\* awaited it owes that one; and from the response's end on it owes nothing, there
\* or not.
Wired(s, x, k) ==
  /\ x.pend \in {"write_up", "rewrite_w"} /\ k.alive =>
       k.rx + x.rt.n = Sent(x.rq) /\ k.due = <<>>
  /\ x.pend = "read_down" /\ x.rq.connecting /\ k.alive => k.rx = Sent(x.rq) /\ k.due = <<>>
  /\ x.pend = "rewrite_r" /\ k.alive => Quiet(k)
  /\ x.pend = "read_up" /\ k.alive => k.rx = 0 /\ k.due = << <<s, x.num>> >>
  /\ x.pend = "write_down" /\ ~x.rs.direct =>
       k.rx = 0 /\ k.due = IF x.rs.done THEN <<>> ELSE << <<s, x.num>> >>

\* A response that settles no debt cannot be told from the answer.
NoInterim == "interim" \notin RespFramings

SoundInv == OwnInv /\ \A s \in Sessions : Sound(sess[s])

WireInv ==
  /\ NoInterim
  /\ \A s \in Sessions : Wired(s, sess[s], socks[sess[s].up])
  /\ PooledQuiescent

\* What RetryIsInvisible and KeepAliveHonest say of a session that retries or goes on.
Invisible(x) == x.rs.heads = 0 /\ ~x.rs.started
Honest(x) ==
  /\ x.rq.keep /\ x.rq.done
  /\ x.rs.done /\ FullyPulled(x.rs.ser) /\ x.rs.heads = 1
  /\ ~x.rs.direct /\ x.rs.framing \in {"length", "chunked"}

\* What is shown of a step of session s: without looking at the sockets, and with.
SoundStep(s) ==
  /\ Sound(sess'[s])
  /\ sess'[s].rt.used /\ ~sess[s].rt.used => Invisible(sess[s])
  /\ sess'[s].num > sess[s].num => Honest(sess[s])
  /\ sess'[s].rq.started /\ sess[s].rt.used => sess'[s].rt.used
  /\ sess'[s].pend # "unborn"

WireStep(s) ==
  /\ \A d \in Conns : socks'[d] = socks[d] \/ d = sess[s].up \/ ~socks[d].open
  /\ Wired(s, sess'[s], socks'[sess'[s].up])
  /\ \A e \in Endpoints : \A i \in 1..Len(idle_pools'[e]) :
       \/ \E k \in 1..Len(idle_pools[e]) : idle_pools[e][k] = idle_pools'[e][i]
       \/ idle_pools'[e][i] = sess[s].up /\ Quiet(socks'[idle_pools'[e][i]])

\* A session that has not begun, and one that has been closed.
LEMMA NewSound ==
  \A p \in {"unborn", "read_down", "closed"} : Sound([FreshSession EXCEPT !.pend = p])
<1> SUFFICES ASSUME NEW p \in {"unborn", "read_down", "closed"}
             PROVE  Sound([FreshSession EXCEPT !.pend = p])
  OBVIOUS
<1> DEFINE x == [FreshSession EXCEPT !.pend = p]
<1>1. /\ x.pend = p /\ x.num = 1 /\ x.rq = FreshRequest /\ x.rt = FreshRetry
      /\ x.rs = FreshResponse
  BY DEF FreshSession
<1> HIDE DEF x
<1>2. RetrySound(x)
  BY <1>1, FreshFacts DEF RetrySound
<1>3. RunsSound(x)
  BY <1>1, FreshFacts DEF RunsSound
<1>4. PhaseSound(x)
  BY <1>1, FreshFacts DEF PhaseSound
<1> QED
  BY <1>1, <1>2, <1>3, <1>4, FreshFacts DEF Sound, x

\* A closed session has no request and no retry.
LEMMA ClosedSound ==
  /\ Sound(ClosedSession) /\ ClosedSession.num = 1 /\ ~ClosedSession.rt.used
  /\ ClosedSession.pend = "closed" /\ ~ClosedSession.rq.started
<1>1. /\ ClosedSession.num = 1 /\ ClosedSession.rt = FreshRetry /\ ClosedSession.pend = "closed"
      /\ ClosedSession.rq = FreshRequest
  BY DEF ClosedSession, FreshSession
<1> QED
  BY <1>1, NewSound, FreshFacts DEF ClosedSession

\* The end of every handler: a session that is closed is sound.
LEMMA SettleSound ==
  ASSUME SoundInv, NEW s \in Sessions, NEW x, NEW sk, NEW pl, NEW m, Settle(s, x, sk, pl, m),
         x.pend # "closed" =>
           /\ Sound(x) /\ x.pend # "unborn"
           /\ x.rq.started /\ sess[s].rt.used => x.rt.used
           /\ x.rt.used => sess[s].rt.used \/ Invisible(sess[s])
           /\ x.num = sess[s].num \/ Honest(sess[s])
  PROVE  SoundStep(s)
<1>1. sess'[s] = IF x.pend = "closed" THEN ClosedSession ELSE x
  BY OthersKept DEF SoundInv, OwnInv
<1>2. sess[s].num >= 1 /\ sess[s].num \in Nat
  BY InvTypes DEF SoundInv, Sound, PhaseSound, SessionStates
<1> QED
  BY <1>1, <1>2, ClosedSound DEF SoundStep

\* The same for the sockets, when no connection is released.
LEMMA SettleWired ==
  ASSUME SoundInv, NEW s \in Sessions, NEW x \in SessionStates, NEW sk, NEW m,
         Settle(s, x, sk, idle_pools, m),
         \A d \in Conns : sk[d] = socks[d] \/ d = sess[s].up \/ ~socks[d].open,
         x.pend = "closed" /\ x.up # NoConn => x.up = sess[s].up \/ ~socks[x.up].open,
         x.pend # "closed" => Wired(s, x, sk[x.up])
  PROVE  WireStep(s)
<1>1. sess'[s] = IF x.pend = "closed" THEN ClosedSession ELSE x
  BY OthersKept DEF SoundInv, OwnInv
<1>2. idle_pools' = idle_pools
  BY DEF Settle
<1>3. \A d \in Conns : socks'[d] = socks[d] \/ d = sess[s].up \/ ~socks[d].open
  BY UpstreamAssumption DEF Settle, Dropped
<1>4. Wired(s, sess'[s], socks'[sess'[s].up])
  <2>1. CASE x.pend = "closed"
    BY <1>1, <2>1, ClosedSound DEF Wired
  <2>2. CASE x.pend # "closed"
    BY <1>1, <2>2 DEF Settle
  <2> QED
    BY <2>1, <2>2
<1> QED
  BY <1>2, <1>3, <1>4 DEF WireStep

\* The same socket under a request write: what is written continues what the server
\* has, and the response is awaited once the server has all of it.
LEMMA PullRequestWired ==
  ASSUME NEW x \in SessionStates, RequestSound(x.rq), NEW s, NEW k,
         k.alive => IF FullyPulled(x.rq.ser) THEN k.rx = 0 /\ k.due = << <<s, x.num>> >>
                    ELSE k.rx = Sent(x.rq) /\ k.due = <<>>,
         PullRequest(x).pend # "closed"
  PROVE  Wired(s, PullRequest(x), k)
<1> DEFINE R == PullRequest(x)
           n == Pulled(x.rq.ser)
           ser == pull(x.rq.ser)
<1>1. /\ x.rq \in RequestSides /\ x.rq.ser \in Serializers /\ x.rq.given \in Nat
      /\ n \in Nat /\ ser \in Serializers
  BY PullType DEF SessionStates, RequestSides
<1>2. /\ R.num = x.num /\ R.rq = [x.rq EXCEPT !.ser = ser]
      /\ n > 0 => R.pend = "write_up" /\ R.rt.n = n
      /\ n = 0 /\ done(ser) => R.pend = "read_up"
      /\ n = 0 /\ ~done(ser) => R.pend \in {"read_down", "closed"}
  BY PullRequestFields
<1>3. /\ ser.last = x.rq.ser.last
      /\ ser.head + ser.pending = x.rq.ser.head + x.rq.ser.pending - n
      /\ n = 0 /\ x.rq.ser.last <=> FullyPulled(x.rq.ser)
      /\ done(ser) => FullyPulled(ser)
      /\ FullyPulled(x.rq.ser) => done(ser)
  BY <1>1, PullSound DEF RequestSound
<1> HIDE DEF R, n, ser
<1>4. R.rq.ser = ser /\ R.rq.framing = x.rq.framing /\ R.rq.given = x.rq.given
  BY <1>1, <1>2 DEF RequestSides
<1>5. Sent(R.rq) = Sent(x.rq) + n /\ Sent(x.rq) \in Int
  BY <1>1, <1>2, SentPulled DEF RequestSound, n, ser
<1>6. FullyPulled(x.rq.ser) <=> n = 0 /\ done(ser)
  BY <1>3 DEF FullyPulled
<1>7. R.pend # "closed"
  BY DEF R
<1>8. CASE n > 0
  BY <1>1, <1>2, <1>5, <1>6, <1>8 DEF Wired, R
<1>9. CASE n = 0 /\ done(ser)
  BY <1>2, <1>6, <1>9 DEF Wired, R
<1>10. CASE n = 0 /\ ~done(ser)
  BY <1>2, <1>5, <1>6, <1>7, <1>10 DEF Wired, R
<1> QED
  BY <1>1, <1>8, <1>9, <1>10

\* close() in any state.
LEMMA ClosesStream ==
  ASSUME SoundInv, NEW s \in Sessions, NEW m, Closes(s, m)
  PROVE  SoundStep(s) /\ WireStep(s)
<1> DEFINE x == [sess[s] EXCEPT !.pend = "closed"]
<1>1. x \in SessionStates /\ x.up = sess[s].up /\ x.pend = "closed"
  BY InvTypes DEF SoundInv, SessionStates, Pending
<1>2. Settle(s, x, socks, idle_pools, m)
  BY DEF Closes
<1> HIDE DEF x
<1>3. SoundStep(s)
  BY <1>1, <1>2, SettleSound
<1>4. WireStep(s)
  BY <1>1, <1>2, SettleWired
<1> QED
  BY <1>3, <1>4

\* start() begins with nothing.
LEMMA StartStream ==
  ASSUME SoundInv, NEW s \in Sessions, start(s)
  PROVE  SoundStep(s) /\ WireStep(s)
<1> DEFINE x == [FreshSession EXCEPT !.pend = "read_down"]
<1>1. sess' = [sess EXCEPT ![s] = x] /\ idle_pools' = idle_pools /\ socks' = socks
  BY DEF start, upstream_vars
<1>2. sess'[s] = x
  BY <1>1 DEF SoundInv, OwnInv, Types
<1>3. Sound(x)
  BY NewSound
<1>4. x.num = 1 /\ x.rt = FreshRetry /\ x.rq = FreshRequest /\ x.pend = "read_down"
  BY DEF FreshSession
<1> HIDE DEF x
<1>5. sess[s].num >= 1 /\ sess[s].num \in Nat
  BY InvTypes DEF SoundInv, Sound, PhaseSound, SessionStates
<1>6. SoundStep(s)
  BY <1>2, <1>3, <1>4, <1>5, FreshFacts DEF SoundStep
<1>7. Wired(s, x, socks'[x.up])
  BY <1>4, FreshFacts DEF Wired
<1> QED
  BY <1>1, <1>2, <1>6, <1>7 DEF WireStep

\* One of the two sides of the request is given up for a second attempt.
LEMMA RetriesStream ==
  ASSUME SoundInv, NEW s \in Sessions, NEW p, Retries(s, p), ~sess[s].rt.used,
         \/ p = "reconnect_w" /\ sess[s].pend = "write_up" /\ ~sess[s].rt.wrote
         \/ p = "reconnect_r" /\ sess[s].pend = "read_up" /\ MayRetryRead(sess[s])
  PROVE  SoundStep(s) /\ WireStep(s)
<1> DEFINE x == sess[s]
           y == [x EXCEPT !.rt.used = TRUE, !.up = NoConn, !.pend = p]
           sk == Dropped(socks, x.up)
<1>0. x \in SessionStates /\ Sound(x) /\ x.rt \in RetryStates /\ x.rq.runs \in Nat
  BY InvTypes DEF SoundInv, SessionStates, RequestSides
<1>1. Settle(s, y, sk, idle_pools, Counted("retries"))
  BY DEF Retries
<1>2. /\ y \in SessionStates /\ y.pend = p /\ y.up = NoConn /\ y.rq = x.rq /\ y.rs = x.rs
      /\ y.num = x.num /\ y.rt = [x.rt EXCEPT !.used = TRUE]
  BY <1>0 DEF SessionStates, RetryStates, Pending
<1>3. /\ y.rt.used /\ y.rt.wrote = x.rt.wrote /\ y.rt.captured = x.rt.captured
      /\ y.rt.snap = x.rt.snap /\ y.rt.snapOf = x.rt.snapOf /\ y.rt.any = x.rt.any
      /\ y.rt.n = x.rt.n
  BY <1>0, <1>2 DEF RetryStates
<1>4. sk = Dropped(socks, x.up)
  OBVIOUS
<1> HIDE DEF y, sk
<1>5. ~x.rs.started /\ x.rs = FreshResponse /\ x.rq.started
  BY <1>0 DEF Sound, PhaseSound, ResponseSound, MayRetryRead
<1>6. RetrySound(y) /\ RunsSound(y) /\ PhaseSound(y)
  <2>1. RetrySound(x) /\ RunsSound(x) /\ PhaseSound(x)
    BY <1>0 DEF Sound
  <2>2. RetrySound(y)
    BY <1>2, <1>3, <1>5, <2>1 DEF RetrySound, MayRetryRead
  <2>3. RunsSound(y)
    BY <1>0, <1>2, <1>3, <2>1 DEF RunsSound, MayRetryRead
  <2>4. PhaseSound(y)
    BY <1>2, <1>3, <1>5, <2>1 DEF PhaseSound
  <2> QED
    BY <2>2, <2>3, <2>4
<1>7. Sound(y)
  BY <1>0, <1>2, <1>6 DEF Sound
<1>8. Invisible(x)
  BY <1>5 DEF Invisible, FreshResponse
<1>9. SoundStep(s)
  BY <1>1, <1>2, <1>7, <1>8, SettleSound
<1>10. \A d \in Conns : sk[d] = socks[d] \/ d = x.up
  BY <1>4 DEF Dropped
<1>11. Wired(s, y, sk[y.up])
  BY <1>2 DEF Wired
<1>12. WireStep(s)
  BY <1>1, <1>2, <1>10, <1>11, SettleWired
<1> QED
  BY <1>9, <1>12

\* A request that begins: nothing of it is out and nothing is kept for a retry.
LEMMA FirstWrite ==
  ASSUME NEW z \in SessionStates, RequestSound(z.rq), Even(z.rq), z.rq.started, Unsent(z.rq),
         z.rq.runs = 0, z.rs = FreshResponse, ~z.rt.wrote, ~z.rt.captured, z.num >= 1,
         NEW s, NEW k, Quiet(k)
  PROVE  LET R == PullRequest(z) IN
         /\ R \in SessionStates /\ R.pend = "write_up" /\ Sound(R) /\ Wired(s, R, k)
         /\ R.up = z.up /\ R.num = z.num /\ R.rt.used = z.rt.used
<1>1. z.rq.ser \in Serializers /\ HeadUnits \in Nat /\ HeadUnits > 0 /\ z.rq.given \in Nat
  BY SerializerAssumption DEF SessionStates, RequestSides
<1>2. Pulled(z.rq.ser) > 0 /\ z.rq.ser.head > 0
  BY <1>1, PullSound DEF RequestSound, Unsent
<1>3. ~FullyPulled(z.rq.ser)
  BY <1>1, <1>2 DEF FullyPulled
<1>4. Sent(z.rq) = 0
  <2>1. LastFrame(z.rq) \in Nat
    BY DEF LastFrame
  <2> HIDE DEF LastFrame
  <2> QED
    BY <1>1, <2>1 DEF Sent, Unsent
<1>5. PullRequest(z).pend = "write_up" /\ PullRequest(z).num = z.num
      /\ PullRequest(z).rt.used = z.rt.used
  BY <1>2, PullRequestFields
<1>6. Sound(PullRequest(z))
  BY <1>5, PullRequestSound
<1>7. Wired(s, PullRequest(z), k)
  BY <1>3, <1>4, <1>5, PullRequestWired DEF Quiet
<1> QED
  BY <1>5, <1>6, <1>7, PullRequestType

\* connect_upstream() with the head of a new request.
LEMMA ConnectUpstreamStream ==
  ASSUME SoundInv, NEW s \in Sessions, NEW y \in SessionStates, NEW m, connect_upstream(s, y, m),
         RequestSound(y.rq), Even(y.rq), y.rq.started, Unsent(y.rq),
         y.rq.runs = 0, y.rs = FreshResponse, y.rt = FreshRetry, y.num = sess[s].num,
         y.up = sess[s].up, ~sess[s].rt.used, y.num >= 1
  PROVE  SoundStep(s) /\ (WireInv => WireStep(s))
<1> DEFINE e == next_endpoint
           z == [y EXCEPT !.ep = e, !.rq.connecting = TRUE]
<1>1. /\ Types /\ socks \in [Conns -> Sockets] /\ idle_pools \in [Endpoints -> Seq(Conns)]
      /\ e \in Endpoints /\ OwnInv
  BY InvTypes DEF SoundInv
<1>2. /\ z \in SessionStates /\ z.up = y.up /\ z.rt = y.rt /\ z.rs = y.rs /\ z.num = y.num
      /\ z.rq = [y.rq EXCEPT !.connecting = TRUE] /\ y.rq \in RequestSides
  BY <1>1 DEF SessionStates, RequestSides
<1>3. /\ z.rq.ser = y.rq.ser /\ z.rq.started /\ z.rq.framing = y.rq.framing
      /\ z.rq.len = y.rq.len /\ z.rq.got = y.rq.got /\ z.rq.done = y.rq.done
      /\ z.rq.held = y.rq.held /\ z.rq.given = y.rq.given /\ z.rq.runs = 0
  BY <1>2 DEF RequestSides
<1>4. RequestSound(z.rq) /\ Even(z.rq) /\ Unsent(z.rq)
  BY <1>3 DEF RequestSound, Even, Unsent, LastFrame
<1>5. CASE PoolHit(e)
  <2> DEFINE c == PooledConn(e)
             w == [z EXCEPT !.up = c]
             R == PullRequest(w)
             sk == Dropped(socks, y.up)
  <2>1. /\ c \in Conns /\ c # NoConn /\ c # sess[s].up
        /\ AfterPop(e) \in [Endpoints -> Seq(Conns)] /\ idle_pools[e] # <<>>
    BY <1>1, <1>5, PoppedType DEF PoolHit
  <2>2. Settle(s, R, sk, AfterPop(e), m)
    BY <1>5 DEF connect_upstream
  <2>12. c = idle_pools[e][Len(idle_pools[e])]
    BY DEF PooledConn
  <2> HIDE DEF z, c
  <2>3. w \in SessionStates /\ w.up = c /\ w.rq = z.rq /\ w.rt = z.rt /\ w.rs = z.rs /\ w.num = z.num
    BY <1>2, <2>1 DEF SessionStates
  <2>4. socks[c] = sk[c]
    BY <2>1 DEF Dropped
  <2> HIDE DEF w, sk
  <2>5. ASSUME NEW k, Quiet(k)
        PROVE  /\ R \in SessionStates /\ R.pend = "write_up" /\ Sound(R) /\ Wired(s, R, k)
               /\ R.up = w.up /\ R.num = w.num /\ R.rt.used = w.rt.used
    <3>1. /\ RequestSound(w.rq) /\ Even(w.rq) /\ w.rq.started /\ Unsent(w.rq) /\ w.rq.runs = 0
          /\ w.rs = FreshResponse /\ ~w.rt.wrote /\ ~w.rt.captured /\ w.num >= 1
      BY <1>2, <1>3, <1>4, <2>3, FreshFacts
    <3> QED
      BY <2>3, <2>5, <3>1, FirstWrite
  <2>6. Quiet(NoSocket)
    BY DEF Quiet, NoSocket
  <2>7. /\ R \in SessionStates /\ R.pend = "write_up" /\ Sound(R)
        /\ R.up = c /\ R.num = sess[s].num /\ R.rt.used = sess[s].rt.used
    <3>1. /\ R \in SessionStates /\ R.pend = "write_up" /\ Sound(R)
          /\ R.up = w.up /\ R.num = w.num /\ R.rt.used = w.rt.used
      BY <2>5, <2>6
    <3>2. FreshRetry.used = sess[s].rt.used
      BY <1>1, FreshFacts, InvTypes DEF SessionStates, RetryStates, FreshRetry
    <3> QED
      BY <1>2, <2>3, <3>1, <3>2
  <2>8. SoundStep(s)
    BY <2>2, <2>7, SettleSound
  <2>9. ASSUME WireInv PROVE WireStep(s)
    <3>1. Quiet(sk[c])
      <4>1. Len(idle_pools[e]) \in 1..Len(idle_pools[e])
        BY <1>1, <2>1
      <4> QED
        BY <1>1, <2>4, <2>9, <2>12, <4>1 DEF WireInv, PooledQuiescent, Quiet
    <3>2. sess'[s] = R /\ socks' = sk /\ idle_pools' = AfterPop(e)
      <4>1. sess'[s] = R
        BY <1>1, <2>2, <2>7, OthersKept
      <4> QED
        BY <2>2, <2>7, <4>1 DEF Settle
    <3>3. Wired(s, sess'[s], socks'[sess'[s].up])
      BY <2>3, <2>5, <2>7, <3>1, <3>2
    <3>4. \A d \in Conns : socks'[d] = socks[d] \/ d = sess[s].up
      BY <3>2 DEF sk, Dropped
    <3>5. ASSUME NEW f \in Endpoints, NEW i \in 1..Len(idle_pools'[f])
          PROVE  \E k \in 1..Len(idle_pools[f]) : idle_pools[f][k] = idle_pools'[f][i]
      <4>1. CASE f # e
        BY <1>1, <3>2, <3>5, <4>1 DEF AfterPop
      <4>2. CASE f = e
        <5>1. idle_pools'[e] = SubSeq(idle_pools[e], 1, Len(idle_pools[e]) - 1)
          BY <1>1, <3>2 DEF AfterPop
        <5>2. /\ idle_pools[e] \in Seq(Conns) /\ Len(idle_pools[e]) \in Nat /\ Len(idle_pools[e]) > 0
          BY <1>1, <2>1
        <5>3. Len(idle_pools'[e]) = Len(idle_pools[e]) - 1 /\ i \in 1..Len(idle_pools[e])
              /\ idle_pools'[e][i] = idle_pools[e][i]
          BY <3>5, <4>2, <5>1, <5>2
        <5> QED
          BY <4>2, <5>3
      <4> QED
        BY <4>1, <4>2
    <3> QED
      BY <3>3, <3>4, <3>5 DEF WireStep
  <2> QED
    BY <2>8, <2>9
<1>6. CASE ~PoolHit(e)
  <2> DEFINE R == [z EXCEPT !.pend = "connect"]
  <2>1. Settle(s, R, socks, idle_pools, m)
    BY <1>6 DEF connect_upstream
  <2> HIDE DEF z
  <2>2. /\ R \in SessionStates /\ R.up = z.up /\ R.pend = "connect" /\ R.rq = z.rq
        /\ R.rt = z.rt /\ R.rs = z.rs /\ R.num = z.num
    BY <1>2 DEF SessionStates, Pending
  <2> HIDE DEF R
  <2>3. RetrySound(R)
    BY <1>2, <1>3, <1>4, <2>2, FreshFacts DEF RetrySound
  <2>4. RunsSound(R)
    BY <1>3, <2>2 DEF RunsSound
  <2>5. PhaseSound(R)
    BY <1>2, <1>3, <1>4, <2>2, FreshFacts DEF PhaseSound
  <2>6. Sound(R)
    BY <1>2, <1>4, <2>2, <2>3, <2>4, <2>5, FreshFacts DEF Sound
  <2>7. R.rt.used = sess[s].rt.used
    BY <1>1, <1>2, <2>2, FreshFacts, InvTypes DEF SessionStates, RetryStates, FreshRetry
  <2>8. SoundStep(s)
    BY <1>2, <2>1, <2>2, <2>6, <2>7, SettleSound
  <2>9. Wired(s, R, socks[R.up])
    BY <2>2 DEF Wired
  <2>10. WireStep(s)
    BY <2>1, <2>2, <2>9, SettleWired
  <2> QED
    BY <2>8, <2>10
<1> QED
  BY <1>5, <1>6

\* respond_directly(): a filter's answer, and what follows it is close().
LEMMA RespondDirectlySound ==
  ASSUME NEW w \in SessionStates, RequestSound(w.rq), w.rq.started, w.num >= 1,
         w.rt.captured => done(w.rq.ser) /\ w.rt.snap = Sent(w.rq) /\ w.rt.snapOf = w.num,
         w.rq.runs <= 1 + (IF w.rt.used /\ w.rt.captured THEN 1 ELSE 0),
         NEW b \in Nat, NEW s, NEW k
  PROVE  LET R == RespondDirectly(w, b) IN
         /\ Sound(R) /\ Wired(s, R, k) /\ R.num = w.num /\ R.rt = w.rt
         /\ R \in SessionStates /\ R.pend = "write_down" /\ R.up = w.up
<1> DEFINE st == StartSerializer(FALSE)
           full == provide_body(st, b, TRUE)
           ser == pull(full)
           q == [w.rs EXCEPT !.direct = TRUE, !.started = TRUE, !.ser = ser, !.heads = @ + 1]
           R == RespondDirectly(w, b)
<1>1. st \in Serializers /\ SerSound(st) /\ ~st.last
  BY StartType, StartSound
<1>2. full \in Serializers
  BY <1>1, ProvideType
<1> HIDE DEF st
<1>3. SerSound(full)
  BY <1>1, ProvideSound
<1> HIDE DEF full
<1>4. SerSound(ser)
  BY <1>2, <1>3, PullSound
<1>5. R = [w EXCEPT !.pend = "write_down", !.rs = q]
  BY DEF RespondDirectly, SessionStates, ResponseSides, st, full
<1>6. R \in SessionStates /\ R.pend = "write_down" /\ R.up = w.up
  BY RespondDirectlyType
<1> HIDE DEF ser
<1>7. q.direct /\ q.started /\ q.ser = ser
  BY DEF SessionStates, ResponseSides
<1> HIDE DEF q
<1>8. R.rs = q /\ R.rq = w.rq /\ R.rt = w.rt /\ R.num = w.num
  BY <1>5 DEF SessionStates
<1> HIDE DEF R
<1>9. ResponseSound(R.rs, R.rq.keep)
  BY <1>4, <1>7, <1>8 DEF ResponseSound
<1>10. RetrySound(R)
  BY <1>6, <1>8 DEF RetrySound
<1>11. RunsSound(R)
  BY <1>6, <1>8 DEF RunsSound
<1>12. PhaseSound(R)
  BY <1>6, <1>7, <1>8 DEF PhaseSound
<1>13. Sound(R)
  BY <1>8, <1>9, <1>10, <1>11, <1>12 DEF Sound
<1>14. Wired(s, R, k)
  BY <1>6, <1>7, <1>8 DEF Wired
<1> QED
  BY <1>6, <1>8, <1>13, <1>14 DEF R

\* A session that reads from the client has nothing kept of this request yet but what
\* an earlier write has left.
LEMMA ReadingDown ==
  ASSUME NEW x \in SessionStates, Sound(x), x.pend = "read_down"
  PROVE  /\ x.rs = FreshResponse /\ ~x.rt.captured /\ x.rq.runs = 0 /\ x.num >= 1
         /\ ~x.rq.started => x.rt = FreshRetry
         /\ x.rq.started => x.rt.wrote
         /\ x.rq.connecting => x.rq.started
<1>1. RequestSound(x.rq) /\ PhaseSound(x) /\ RunsSound(x) /\ RetrySound(x) /\ ResponseSound(x.rs, x.rq.keep)
  BY DEF Sound
<1>2. x.rs = FreshResponse /\ x.rq.runs = 0 /\ x.num >= 1
  BY <1>1 DEF PhaseSound, ResponseSound, RunsSound
<1>3. ~x.rt.captured
  BY <1>1 DEF RetrySound, PhaseSound, RequestSound, SerSound, done
<1>4. x.rq.connecting => x.rq.started
  BY <1>1, FreshFacts DEF RequestSound
<1> QED
  BY <1>1, <1>2, <1>3, <1>4 DEF RetrySound

\* A read of the request is relayed.
LEMMA RequestChunkStream ==
  ASSUME SoundInv, NEW s \in Sessions, RequestChunk(s)
  PROVE  SoundStep(s) /\ (WireInv => WireStep(s))
<1> DEFINE x == sess[s]
           Rest(y) == IF ~x.rq.connecting
                      THEN connect_upstream(s, y, HeadCounted(x))
                      ELSE /\ Settle(s, IF x.up = NoConn THEN [y EXCEPT !.pend = "none"]
                                        ELSE PullRequest(y),
                                     socks, idle_pools, HeadCounted(x))
                           /\ UNCHANGED next_endpoint
<1>0. PICK r \in Requests(x) :
        \E a \in Arrivals(r.framing, r.len, x.rq.got) :
          \E j \in Passed(x.rq.held, a.k, a.end, ReqBody) :
            Rest(DrainedRequest(ParsedRequest(x, r, a), a, j))
  BY DEF RequestChunk
<1>1. PICK a \in Arrivals(r.framing, r.len, x.rq.got) :
        \E j \in Passed(x.rq.held, a.k, a.end, ReqBody) :
          Rest(DrainedRequest(ParsedRequest(x, r, a), a, j))
  BY <1>0
<1>2. PICK j \in Passed(x.rq.held, a.k, a.end, ReqBody) :
        Rest(DrainedRequest(ParsedRequest(x, r, a), a, j))
  BY <1>1
<1>3. /\ x \in SessionStates /\ Linked(x, Peers(socks)) /\ Sound(x)
      /\ x.pend = "read_down"
  BY InvTypes DEF RequestChunk, SoundInv
<1>4. r \in Heads /\ x.rq.got \in Nat
  BY <1>3, RequestsType DEF SessionStates, RequestSides
<1>5. a \in Reads /\ a.k \in Nat
  BY <1>4, ArrivalsType DEF Heads, Reads
<1> DEFINE w == ParsedRequest(x, r, a)
           y == DrainedRequest(w, a, j)
<1>6. w \in SessionStates /\ w.up = x.up
  BY <1>3, <1>4, <1>5, ParsedRequestType
<1>7. /\ w.num = x.num /\ w.rt = x.rt /\ w.rs = x.rs /\ w.pend = x.pend
      /\ RequestSound(w.rq) /\ ~w.rq.ser.last /\ w.rq.done = a.end /\ w.rq.started
      /\ w.rq.held = x.rq.held /\ w.rq.runs = 0
      /\ w.rq.given + w.rq.held + a.k = w.rq.got
      /\ a.end => w.rq.got = w.rq.len
      /\ w.rq.framing = "length" /\ a.end /\ a.k = 0 => w.rq.given = w.rq.len /\ ~x.rq.started
      /\ w.rq.connecting = x.rq.connecting
      /\ ~x.rq.started => Unsent(w.rq)
      /\ x.rq.started => Sent(w.rq) = Sent(x.rq)
  BY <1>3, ParsedRequestSound
<1>8. Rest(y)
  BY <1>2
<1> HIDE DEF w
<1>9. /\ y \in SessionStates
      /\ y.num = w.num /\ y.rt = w.rt /\ y.rs = w.rs /\ y.up = w.up
      /\ y.rq.started /\ y.rq.runs = w.rq.runs
      /\ RequestSound(y.rq) /\ Even(y.rq)
      /\ Unsent(w.rq) => Unsent(y.rq)
      /\ Sent(y.rq) = Sent(w.rq)
      /\ y.rq.ser.last = a.end
      /\ a.end /\ (w.rq.framing = "length" => a.k > 0) => y.rq.ser.pending > 0
  <2>1. j \in Passed(w.rq.held, a.k, a.end, ReqBody)
    BY <1>7
  <2> QED
    BY <1>5, <1>6, <1>7, <2>1, DrainedRequestSound
<1> HIDE DEF y
<1>10. /\ x.rs = FreshResponse /\ ~x.rt.captured /\ x.num >= 1
       /\ ~x.rq.started => x.rt = FreshRetry
       /\ x.rq.started => x.rt.wrote
       /\ x.rq.connecting => x.rq.started
  BY <1>3, ReadingDown
<1>11. CASE ~x.rq.connecting
  <2>1. ~x.rq.started
    BY <1>3, <1>11 DEF Linked
  <2>2. connect_upstream(s, y, HeadCounted(x))
    BY <1>8, <1>11
  <2>3. /\ Unsent(y.rq) /\ y.rq.runs = 0 /\ y.rs = FreshResponse /\ y.rt = FreshRetry
        /\ y.num = x.num /\ y.up = x.up /\ ~x.rt.used /\ y.num >= 1
    BY <1>6, <1>7, <1>9, <1>10, <2>1, FreshFacts
  <2> QED
    BY <1>9, <2>2, <2>3, ConnectUpstreamStream
<1>12. CASE x.rq.connecting
  <2>1. x.up # NoConn /\ x.rq.started /\ x.rt.wrote
    BY <1>3, <1>10, <1>12 DEF Linked, UsesUpstream
  <2>2. Settle(s, PullRequest(y), socks, idle_pools, HeadCounted(x))
    BY <1>8, <1>12, <2>1
  <2>3. /\ PullRequest(y) \in SessionStates /\ PullRequest(y).up = x.up
        /\ PullRequest(y).num = x.num /\ PullRequest(y).rt.used = x.rt.used
        /\ PullRequest(y).pend # "unborn"
    <3>1. /\ PullRequest(y) \in SessionStates /\ PullRequest(y).up = x.up
          /\ PullRequest(y).pend # "unborn"
      BY <1>6, <1>9, PullRequestType
    <3>2. PullRequest(y).num = y.num /\ PullRequest(y).rt.used = y.rt.used
      BY <1>9, PullRequestFields
    <3> QED
      BY <1>7, <1>9, <3>1, <3>2
  <2>4. PullRequest(y).pend = "closed" \/ Sound(PullRequest(y))
    <3>1. /\ y.rt.wrote /\ ~y.rt.captured /\ y.rq.runs = 0 /\ y.num >= 1 /\ y.rs = FreshResponse
      BY <1>7, <1>9, <1>10, <2>1
    <3> QED
      BY <1>9, <3>1, PullRequestSound
  <2>5. SoundStep(s)
    BY <2>2, <2>3, <2>4, SettleSound
  <2>6. ASSUME WireInv PROVE WireStep(s)
    <3>1. Wired(s, x, socks[x.up])
      BY <2>6 DEF WireInv
    <3>2. socks[x.up].alive => socks[x.up].rx = Sent(y.rq) /\ socks[x.up].due = <<>>
      BY <1>3, <1>7, <1>9, <1>12, <2>1, <3>1 DEF Wired
    <3>3. ~FullyPulled(y.rq.ser)
      <4>1. CASE ~a.end
        BY <1>9, <4>1 DEF FullyPulled
      <4>2. CASE a.end
        <5>1. w.rq.framing = "length" => a.k > 0
          BY <1>5, <1>7, <2>1, <4>2
        <5>2. y.rq.ser.pending > 0
          BY <1>9, <4>2, <5>1
        <5> QED
          BY <5>2 DEF FullyPulled
      <4> QED
        BY <4>1, <4>2
    <3>4. PullRequest(y).pend # "closed" => Wired(s, PullRequest(y), socks[x.up])
      BY <1>9, <3>2, <3>3, PullRequestWired
    <3> QED
      BY <2>2, <2>3, <3>4, SettleWired
  <2> QED
    BY <2>5, <2>6
<1> QED
  BY <1>11, <1>12

\* A filter refuses the request, at its head or in its body.
LEMMA RequestRefusedStream ==
  ASSUME SoundInv, NEW s \in Sessions, RequestRefused(s)
  PROVE  SoundStep(s) /\ WireStep(s)
<1> DEFINE x == sess[s]
<1> DEFINE Ends(r, a, b) ==
             Settle(s, RespondDirectly(ParsedRequest(x, r, a), b), socks, idle_pools, HeadCounted(x))
<1>01. PICK r \in Requests(x) :
         \E a \in Arrivals(r.framing, r.len, x.rq.got) : \E b \in 0..MaxDirect : Ends(r, a, b)
  BY DEF RequestRefused
<1>02. PICK a \in Arrivals(r.framing, r.len, x.rq.got) : \E b \in 0..MaxDirect : Ends(r, a, b)
  BY <1>01
<1>0. PICK b \in 0..MaxDirect : Ends(r, a, b)
  BY <1>02
<1>1. x \in SessionStates /\ Sound(x) /\ x.pend = "read_down"
  BY InvTypes DEF RequestRefused, SoundInv
<1>2. r \in Heads /\ x.rq.got \in Nat
  BY <1>1, RequestsType DEF SessionStates, RequestSides
<1>3. a \in Reads /\ b \in Nat
  BY <1>2, ArrivalsType, SessionAssumption DEF Heads
<1> DEFINE w == ParsedRequest(x, r, a)
           R == RespondDirectly(w, b)
<1>4. w \in SessionStates /\ w.up = x.up
  BY <1>1, <1>2, <1>3, ParsedRequestType
<1>5. w.num = x.num /\ w.rt = x.rt /\ RequestSound(w.rq) /\ w.rq.started /\ w.rq.runs = 0
  BY <1>1, ParsedRequestSound
<1>6. ~x.rt.captured /\ x.num >= 1
  BY <1>1, ReadingDown
<1>7. Settle(s, R, socks, idle_pools, HeadCounted(x))
  BY <1>0
<1> HIDE DEF w
<1>8. /\ Sound(R) /\ Wired(s, R, socks[x.up]) /\ R.num = w.num /\ R.rt = w.rt
      /\ R \in SessionStates /\ R.pend = "write_down" /\ R.up = w.up
  BY <1>3, <1>4, <1>5, <1>6, RespondDirectlySound
<1> HIDE DEF R
<1>9. SoundStep(s)
  BY <1>5, <1>7, <1>8, SettleSound
<1>10. WireStep(s)
  BY <1>4, <1>7, <1>8, SettleWired
<1> QED
  BY <1>9, <1>10

\* The first write follows the connect.
LEMMA ConnectSucceedsStream ==
  ASSUME SoundInv, NEW s \in Sessions, ConnectSucceeds(s)
  PROVE  SoundStep(s) /\ WireStep(s)
<1> DEFINE x == sess[s]
           y == [x EXCEPT !.up = FreshConn]
           R == PullRequest(y)
           sk == [Dropped(socks, x.up) EXCEPT ![FreshConn] = NewSocket(x.ep)]
<1>1. /\ x \in SessionStates /\ socks \in [Conns -> Sockets] /\ Sound(x) /\ x.pend = "connect"
      /\ OwnInv
  BY InvTypes DEF ConnectSucceeds, SoundInv
<1>2. FreshConn \in Conns /\ ~socks[FreshConn].open
  BY DEF ConnectSucceeds, FreshConn, Unused
<1>3. Settle(s, R, sk, idle_pools, metrics)
  BY DEF ConnectSucceeds
<1>4. /\ y \in SessionStates /\ y.up = FreshConn /\ y.rq = x.rq /\ y.rt = x.rt /\ y.rs = x.rs
      /\ y.num = x.num
  BY <1>1, <1>2 DEF SessionStates
<1>5. /\ sk[FreshConn] = NewSocket(x.ep)
      /\ \A d \in Conns : sk[d] = socks[d] \/ d = x.up \/ ~socks[d].open
  BY <1>2 DEF Dropped
<1>6. Quiet(NewSocket(x.ep))
  BY DEF Quiet, NewSocket
<1> HIDE DEF y, sk
<1>7. /\ RequestSound(x.rq) /\ Even(x.rq) /\ x.rq.started /\ Unsent(x.rq) /\ x.rq.runs = 0
      /\ x.rs = FreshResponse /\ ~x.rt.wrote /\ ~x.rt.captured /\ x.num >= 1
  <2>1. /\ RequestSound(x.rq) /\ PhaseSound(x) /\ RunsSound(x) /\ RetrySound(x)
        /\ ResponseSound(x.rs, x.rq.keep)
    BY <1>1 DEF Sound
  <2>2. x.rs = FreshResponse /\ x.rq.runs = 0 /\ x.num >= 1 /\ x.rq.started
    BY <1>1, <2>1 DEF PhaseSound, ResponseSound, RunsSound
  <2>3. Even(x.rq)
    BY <2>1, <2>2, FreshFacts DEF PhaseSound
  <2>4. Unsent(x.rq) /\ ~x.rt.wrote
    BY <1>1, <2>1 DEF RetrySound
  <2>5. ~x.rt.captured
    BY <2>1, <2>4, SerializerAssumption DEF RetrySound, RequestSound, SerSound, Unsent, done
  <2> QED
    BY <2>1, <2>2, <2>3, <2>4, <2>5
<1>8. /\ R \in SessionStates /\ R.pend = "write_up" /\ Sound(R) /\ Wired(s, R, sk[FreshConn])
      /\ R.up = FreshConn /\ R.num = x.num /\ R.rt.used = x.rt.used
  BY <1>4, <1>5, <1>6, <1>7, FirstWrite
<1> HIDE DEF R
<1>9. SoundStep(s)
  BY <1>3, <1>8, SettleSound
<1>10. WireStep(s)
  BY <1>3, <1>5, <1>8, SettleWired
<1> QED
  BY <1>9, <1>10

\* n more units reach the server at the other end of x, if it is there.
LEMMA DeliveredTo ==
  ASSUME NEW x \in SessionStates, x.up \in Conns, socks \in [Conns -> Sockets],
         NEW n \in Nat, NEW request
  PROVE  LET k == socks[x.up]
             l == AfterDelivery(x, n, request)[x.up]
         IN /\ l.alive = k.alive
            /\ l.rx = IF Completes(x, n) THEN 0 ELSE IF k.alive THEN k.rx + n ELSE k.rx
            /\ l.due = IF Completes(x, n) THEN Append(k.due, request) ELSE k.due
            /\ \A d \in Conns : d # x.up => AfterDelivery(x, n, request)[d] = socks[d]
<1> DEFINE k == socks[x.up]
           X == IF Completes(x, n) THEN 0 ELSE IF k.alive THEN k.rx + n ELSE k.rx
           D == IF Completes(x, n) THEN Append(k.due, request) ELSE k.due
<1>1. AfterDelivery(x, n, request) = [socks EXCEPT ![x.up].rx = X, ![x.up].due = D]
  BY DEF AfterDelivery, Sockets
<1> HIDE DEF X, D
<1>2. /\ AfterDelivery(x, n, request)[x.up] = [socks[x.up] EXCEPT !.rx = X, !.due = D]
      /\ \A d \in Conns : d # x.up => AfterDelivery(x, n, request)[d] = socks[d]
  BY <1>1 DEF Sockets
<1>3. socks[x.up] \in Sockets
  OBVIOUS
<1>4. /\ AfterDelivery(x, n, request)[x.up].alive = k.alive
      /\ AfterDelivery(x, n, request)[x.up].rx = X
      /\ AfterDelivery(x, n, request)[x.up].due = D
  BY <1>2, <1>3 DEF Sockets
<1> QED
  BY <1>2, <1>4 DEF X, D

\* A server that has all that was sent has the request when all is sent.
LEMMA CompletesWhen ==
  ASSUME NEW x \in SessionStates, RequestSound(x.rq), NEW n,
         socks[x.up].alive => socks[x.up].rx + n = Sent(x.rq)
  PROVE  Completes(x, n) <=> socks[x.up].alive /\ FullyPulled(x.rq.ser)
<1>1. x.rq.given \in Nat /\ HeadUnits \in Nat
  BY SerializerAssumption DEF SessionStates, RequestSides
<1>2. FullyPulled(x.rq.ser) =>
        Sent(x.rq) = HeadUnits + x.rq.given + (IF x.rq.framing = "chunked" THEN 1 ELSE 0)
  BY <1>1 DEF FullyPulled, Sent, LastFrame
<1>3. FullyPulled(x.rq.ser) => (x.rq.framing = "length" => x.rq.given = x.rq.len)
  BY DEF FullyPulled, RequestSound
<1> QED
  BY <1>2, <1>3 DEF Completes, ReceivedWhole

\* A write has completed: the server has one more piece of the request, or all of it.
LEMMA WriteSucceedsStream ==
  ASSUME SoundInv, NEW s \in Sessions, WriteSucceeds(s)
  PROVE  SoundStep(s) /\ (WireInv => WireStep(s))
<1> DEFINE x == sess[s]
           n == x.rt.n
           runs == IF Completes(x, n) THEN x.rq.runs + 1 ELSE x.rq.runs
           y == [x EXCEPT !.rt.wrote = TRUE, !.rt.n = 0,
                          !.rq.runs = IF Completes(x, n) THEN @ + 1 ELSE @]
           R == PullRequest(y)
           sk == AfterDelivery(x, n, <<s, x.num>>)
<1>1. /\ x \in SessionStates /\ x.pend \in {"write_up", "rewrite_w"} /\ Sound(x)
      /\ Linked(x, Peers(socks)) /\ socks \in [Conns -> Sockets] /\ x.up \in Conns \cup {NoConn}
  BY InvTypes DEF SoundInv, WriteSucceeds
<1>2. x.up \in Conns
  BY <1>1 DEF Linked, UsesUpstream
<1>3. x.rt \in RetryStates /\ x.rq \in RequestSides /\ x.num \in Nat /\ n \in Nat
  BY <1>1 DEF SessionStates, RetryStates
<1>4. /\ RequestSound(x.rq) /\ x.rq.started /\ Even(x.rq) /\ x.rs = FreshResponse
      /\ x.rt.captured => done(x.rq.ser) /\ x.rt.snap = Sent(x.rq) /\ x.rt.snapOf = x.num
      /\ x.rq.runs = 0 /\ x.num >= 1
  <2>1. /\ RequestSound(x.rq) /\ PhaseSound(x) /\ RunsSound(x) /\ RetrySound(x)
        /\ ResponseSound(x.rs, x.rq.keep)
    BY <1>1 DEF Sound
  <2>2. x.rs = FreshResponse /\ x.rq.runs = 0 /\ x.num >= 1 /\ x.rq.started
    BY <1>1, <2>1 DEF PhaseSound, ResponseSound, RunsSound
  <2>3. Even(x.rq)
    BY <2>1, <2>2, FreshFacts DEF PhaseSound
  <2> QED
    BY <2>1, <2>2, <2>3 DEF RetrySound
<1>5. Completes(x, n) => FullyPulled(x.rq.ser)
  BY DEF Completes, ReceivedWhole
<1>6. runs \in Nat /\ runs <= 1 /\ (runs = 0 \/ FullyPulled(x.rq.ser))
  BY <1>4, <1>5
<1>7. Settle(s, R, sk, idle_pools, metrics)
  BY DEF WriteSucceeds
<1> HIDE DEF runs, sk, n
<1>8. y = [x EXCEPT !.rt = [x.rt EXCEPT !.wrote = TRUE, !.n = 0],
                    !.rq = [x.rq EXCEPT !.runs = runs]]
  BY <1>1, <1>3 DEF SessionStates, RetryStates, RequestSides, runs
<1> HIDE DEF y
<1>9. /\ y.up = x.up /\ y.num = x.num /\ y.rs = x.rs
      /\ y.rt = [x.rt EXCEPT !.wrote = TRUE, !.n = 0] /\ y.rq = [x.rq EXCEPT !.runs = runs]
  BY <1>1, <1>8 DEF SessionStates
<1>10. /\ y.rt \in RetryStates /\ y.rt.wrote /\ y.rt.used = x.rt.used
       /\ y.rt.captured = x.rt.captured /\ y.rt.snap = x.rt.snap /\ y.rt.snapOf = x.rt.snapOf
  <2>0. [x.rt EXCEPT !.wrote = TRUE, !.n = 0] \in RetryStates
    BY <1>3 DEF RetryStates
  <2>1. y.rt \in RetryStates
    BY <1>9, <2>0
  <2>2. y.rt.wrote /\ y.rt.used = x.rt.used /\ y.rt.captured = x.rt.captured
    BY <1>3, <1>9 DEF RetryStates
  <2>3. y.rt.snap = x.rt.snap /\ y.rt.snapOf = x.rt.snapOf
    BY <1>3, <1>9 DEF RetryStates
  <2> QED
    BY <2>1, <2>2, <2>3
<1>11. /\ y.rq \in RequestSides /\ y.rq.runs = runs /\ y.rq.started = x.rq.started
       /\ y.rq.ser = x.rq.ser /\ y.rq.framing = x.rq.framing /\ y.rq.len = x.rq.len
       /\ y.rq.got = x.rq.got /\ y.rq.done = x.rq.done /\ y.rq.held = x.rq.held
       /\ y.rq.given = x.rq.given
  BY <1>3, <1>6, <1>9 DEF RequestSides
<1>12. y \in SessionStates
  BY <1>1, <1>8, <1>9, <1>10, <1>11 DEF SessionStates
<1>13. RequestSound(y.rq) /\ Even(y.rq) /\ Sent(y.rq) = Sent(x.rq)
  BY <1>4, <1>11 DEF RequestSound, Even, Sent, LastFrame
<1>14. R.pend = "closed" \/ Sound(R)
  BY <1>4, <1>6, <1>9, <1>10, <1>11, <1>12, <1>13, PullRequestSound
<1>15. R \in SessionStates /\ R.up = x.up /\ R.pend # "unborn"
  BY <1>9, <1>12, PullRequestType
<1>16. R.num = x.num /\ R.rt.used = x.rt.used
  BY <1>9, <1>10, <1>12, PullRequestFields
<1> HIDE DEF R
<1>17. SoundStep(s)
  BY <1>7, <1>14, <1>15, <1>16, SettleSound
<1>18. ASSUME WireInv PROVE WireStep(s)
  <2> DEFINE k == socks[x.up]
             l == sk[x.up]
  <2>1. k.alive => k.rx + n = Sent(x.rq) /\ k.due = <<>>
    BY <1>1, <1>18 DEF WireInv, Wired, n
  <2>2. /\ l.alive = k.alive
        /\ l.rx = IF Completes(x, n) THEN 0 ELSE IF k.alive THEN k.rx + n ELSE k.rx
        /\ l.due = IF Completes(x, n) THEN Append(k.due, <<s, x.num>>) ELSE k.due
        /\ \A d \in Conns : d # x.up => sk[d] = socks[d]
    BY <1>1, <1>2, <1>3, DeliveredTo DEF sk
  <2>3. Completes(x, n) <=> k.alive /\ FullyPulled(x.rq.ser)
    BY <1>1, <1>4, <2>1, CompletesWhen
  <2>4. Append(<<>>, <<s, x.num>>) = << <<s, y.num>> >>
    BY <1>9
  <2>5. l.alive => IF FullyPulled(y.rq.ser) THEN l.rx = 0 /\ l.due = << <<s, y.num>> >>
                   ELSE l.rx = Sent(y.rq) /\ l.due = <<>>
    BY <1>11, <1>13, <2>1, <2>2, <2>3, <2>4
  <2> HIDE DEF k, l
  <2>6. R.pend # "closed" => Wired(s, R, l)
    BY <1>12, <1>13, <2>5, PullRequestWired DEF R
  <2> QED
    BY <1>7, <1>15, <2>2, <2>6, SettleWired DEF l
<1> QED
  BY <1>17, <1>18

\* Every error path closes the session, or gives up the connection for a retry.
LEMMA FailureStream ==
  ASSUME SoundInv, NEW s \in Sessions,
         \/ RequestReadFails(s) \/ ConnectFails(s) \/ WriteFails(s) \/ RewriteFails(s)
         \/ ResponseReadFails(s) \/ ResponseMalformed(s) \/ ClientGone(s)
  PROVE  SoundStep(s) /\ WireStep(s)
<1>1. \A m : Closes(s, m) => SoundStep(s) /\ WireStep(s)
  BY ClosesStream
<1>2. CASE RequestReadFails(s)
  BY <1>1, <1>2 DEF RequestReadFails
<1>3. CASE ConnectFails(s)
  BY <1>1, <1>3 DEF ConnectFails
<1>4. CASE WriteFails(s)
  <2>1. CASE MayRetryWrite(sess[s])
    <3>1. Retries(s, "reconnect_w") /\ sess[s].pend = "write_up"
      BY <1>4, <2>1 DEF WriteFails
    <3> QED
      BY <2>1, <3>1, RetriesStream DEF MayRetryWrite
  <2>2. CASE ~MayRetryWrite(sess[s])
    BY <1>1, <1>4, <2>2 DEF WriteFails
  <2> QED
    BY <2>1, <2>2
<1>5. CASE RewriteFails(s)
  BY <1>1, <1>5 DEF RewriteFails
<1>6. CASE ResponseReadFails(s)
  <2>1. CASE MayRetryRead(sess[s])
    <3>1. Retries(s, "reconnect_r") /\ sess[s].pend = "read_up"
      BY <1>6, <2>1 DEF ResponseReadFails
    <3> QED
      BY <2>1, <3>1, RetriesStream DEF MayRetryRead
  <2>2. CASE ~MayRetryRead(sess[s])
    BY <1>1, <1>6, <2>2 DEF ResponseReadFails
  <2> QED
    BY <2>1, <2>2
<1>7. CASE ResponseMalformed(s)
  BY <1>1, <1>7 DEF ResponseMalformed
<1>8. CASE ClientGone(s)
  BY <1>1, <1>8 DEF ClientGone
<1> QED
  BY <1>2, <1>3, <1>4, <1>5, <1>6, <1>7, <1>8

\* The second attempt starts on a connection that nothing has been written to.
LEMMA ReconnectSucceedsStream ==
  ASSUME SoundInv, NEW s \in Sessions, ReconnectSucceeds(s)
  PROVE  SoundStep(s) /\ WireStep(s)
<1> DEFINE x == sess[s]
           p == IF x.pend = "reconnect_w" THEN "rewrite_w" ELSE "rewrite_r"
           R == [x EXCEPT !.up = FreshConn, !.pend = p]
           sk == [socks EXCEPT ![FreshConn] = NewSocket(x.ep)]
<1>1. /\ x \in SessionStates /\ socks \in [Conns -> Sockets] /\ Sound(x)
      /\ x.pend \in {"reconnect_w", "reconnect_r"}
  BY InvTypes DEF ReconnectSucceeds, SoundInv
<1>2. FreshConn \in Conns /\ ~socks[FreshConn].open
  BY DEF ReconnectSucceeds, FreshConn, Unused
<1>3. Settle(s, R, sk, idle_pools, metrics)
  BY DEF ReconnectSucceeds
<1>4. \/ p = "rewrite_w" /\ x.pend = "reconnect_w"
      \/ p = "rewrite_r" /\ x.pend = "reconnect_r"
  BY <1>1
<1> HIDE DEF p
<1>5. /\ R \in SessionStates /\ R.up = FreshConn /\ R.rq = x.rq /\ R.rt = x.rt /\ R.rs = x.rs
      /\ R.num = x.num /\ R.pend = p
  BY <1>1, <1>2, <1>4 DEF SessionStates, Pending
<1>6. /\ sk[FreshConn] = NewSocket(x.ep)
      /\ \A d \in Conns : sk[d] = socks[d] \/ ~socks[d].open
  BY <1>1, <1>2
<1>7. NewSocket(x.ep).rx = 0 /\ NewSocket(x.ep).due = <<>>
  BY DEF NewSocket
<1> HIDE DEF R, sk
<1>8. /\ RequestSound(x.rq) /\ PhaseSound(x) /\ RunsSound(x) /\ RetrySound(x)
      /\ ResponseSound(x.rs, x.rq.keep)
  BY <1>1 DEF Sound
<1>9. RetrySound(R)
  BY <1>4, <1>5, <1>8 DEF RetrySound
<1>10. RunsSound(R)
  BY <1>4, <1>5, <1>8 DEF RunsSound
<1>11. PhaseSound(R)
  BY <1>4, <1>5, <1>8 DEF PhaseSound
<1>12. Sound(R)
  BY <1>5, <1>8, <1>9, <1>10, <1>11 DEF Sound
<1>13. Sent(x.rq) \in Int /\ (p = "rewrite_w" => x.rt.n = Sent(x.rq)) /\ x.rt.n \in Nat
  <2>1. x.rq \in RequestSides /\ x.rt.n \in Nat
    BY <1>1 DEF SessionStates, RetryStates
  <2>2. Sent(x.rq) \in Int
    BY <1>8, <2>1, SentPulled DEF RequestSound
  <2> QED
    BY <1>4, <1>8, <2>1, <2>2 DEF RetrySound
<1>14. Wired(s, R, sk[R.up])
  BY <1>4, <1>5, <1>6, <1>7, <1>13 DEF Wired, Quiet
<1>15. SoundStep(s)
  BY <1>3, <1>4, <1>5, <1>12, SettleSound
<1>16. WireStep(s)
  BY <1>3, <1>4, <1>5, <1>6, <1>14, SettleWired
<1> QED
  BY <1>15, <1>16

\* The snapshot has been written: the server has the request, for the second time
\* perhaps, but on this connection for the first.
LEMMA SnapshotWrittenStream ==
  ASSUME SoundInv, NEW s \in Sessions, SnapshotWritten(s)
  PROVE  SoundStep(s) /\ (WireInv => WireStep(s))
<1> DEFINE x == sess[s]
           n == x.rt.snap
           runs == IF Completes(x, n) THEN x.rq.runs + 1 ELSE x.rq.runs
           y == [x EXCEPT !.rq.runs = IF Completes(x, n) THEN @ + 1 ELSE @]
           R == StartResponsePhase(y)
           sk == AfterDelivery(x, n, <<s, x.rt.snapOf>>)
<1>1. /\ x \in SessionStates /\ x.pend = "rewrite_r" /\ Sound(x)
      /\ Linked(x, Peers(socks)) /\ socks \in [Conns -> Sockets] /\ x.up \in Conns \cup {NoConn}
  BY InvTypes DEF SoundInv, SnapshotWritten
<1>2. x.up \in Conns
  BY <1>1 DEF Linked, UsesUpstream
<1>3. x.rq \in RequestSides /\ n \in Nat /\ x.rq.runs \in Nat
  BY <1>1 DEF SessionStates, RetryStates, RequestSides
<1>4. /\ RequestSound(x.rq) /\ x.rq.started /\ Even(x.rq) /\ x.rs = FreshResponse
      /\ done(x.rq.ser) /\ x.rt.snap = Sent(x.rq) /\ x.rt.snapOf = x.num
      /\ x.rt.used /\ x.rt.captured /\ x.rq.runs <= 1 /\ x.num >= 1
  <2>1. /\ RequestSound(x.rq) /\ PhaseSound(x) /\ RunsSound(x) /\ RetrySound(x)
        /\ ResponseSound(x.rs, x.rq.keep)
    BY <1>1 DEF Sound
  <2>2. x.rs = FreshResponse /\ x.rq.runs <= 1 /\ x.num >= 1 /\ x.rq.started
    BY <1>1, <2>1 DEF PhaseSound, ResponseSound, RunsSound
  <2>3. Even(x.rq)
    BY <2>1, <2>2, FreshFacts DEF PhaseSound
  <2> QED
    BY <1>1, <2>1, <2>2, <2>3 DEF RetrySound
<1>5. Settle(s, R, sk, idle_pools, metrics)
  BY DEF SnapshotWritten
<1>6. runs \in Nat /\ runs <= 2
  BY <1>3, <1>4
<1> HIDE DEF sk, n
<1>7. y = [x EXCEPT !.rq = [x.rq EXCEPT !.runs = runs]]
  BY <1>1 DEF SessionStates, RequestSides
<1> HIDE DEF runs, y
<1>8. /\ y \in SessionStates /\ y.up = x.up /\ y.num = x.num /\ y.rs = x.rs /\ y.rt = x.rt
      /\ y.rq = [x.rq EXCEPT !.runs = runs]
  BY <1>1, <1>3, <1>6, <1>7 DEF SessionStates, RequestSides
<1>9. /\ y.rq.runs = runs /\ y.rq.started = x.rq.started
      /\ y.rq.ser = x.rq.ser /\ y.rq.framing = x.rq.framing /\ y.rq.len = x.rq.len
      /\ y.rq.got = x.rq.got /\ y.rq.done = x.rq.done /\ y.rq.held = x.rq.held
      /\ y.rq.given = x.rq.given
  BY <1>3, <1>8 DEF RequestSides
<1>10. RequestSound(y.rq) /\ Even(y.rq) /\ Sent(y.rq) = Sent(x.rq)
  BY <1>4, <1>9 DEF RequestSound, Even, Sent, LastFrame
<1>11. /\ R \in SessionStates /\ R.pend = "read_up" /\ R.up = y.up /\ R.rq = y.rq
       /\ R.num = y.num /\ R.rt = y.rt
       /\ R.rs = [y.rs EXCEPT !.got = 0, !.done = FALSE, !.ser = StartSerializer(FALSE)]
  <2>1. R \in SessionStates /\ R.pend = "read_up" /\ R.up = y.up /\ R.rq = y.rq
    BY <1>8, StartResponseType
  <2>2. /\ R.num = y.num /\ R.rt = y.rt
        /\ R.rs = [y.rs EXCEPT !.got = 0, !.done = FALSE, !.ser = StartSerializer(FALSE)]
    BY <1>8 DEF StartResponsePhase, SessionStates, ResponseSides
  <2> QED
    BY <2>1, <2>2
<1> HIDE DEF R
<1>12. R.rs = FreshResponse
  BY <1>4, <1>8, <1>11, FreshFacts
<1>13. RetrySound(R)
  BY <1>4, <1>8, <1>9, <1>10, <1>11 DEF RetrySound
<1>14. RunsSound(R)
  BY <1>4, <1>6, <1>8, <1>9, <1>11 DEF RunsSound
<1>15. PhaseSound(R)
  BY <1>4, <1>8, <1>9, <1>10, <1>11, <1>12, FreshFacts DEF PhaseSound
<1>16. Sound(R)
  BY <1>10, <1>11, <1>12, <1>13, <1>14, <1>15, FreshFacts DEF Sound
<1>17. SoundStep(s)
  BY <1>5, <1>8, <1>11, <1>16, SettleSound
<1>18. ASSUME WireInv PROVE WireStep(s)
  <2> DEFINE k == socks[x.up]
             l == sk[x.up]
  <2>1. k.alive => k.rx = 0 /\ k.due = <<>>
    BY <1>1, <1>18 DEF WireInv, Wired, Quiet
  <2>2. /\ l.alive = k.alive
        /\ l.rx = IF Completes(x, n) THEN 0 ELSE IF k.alive THEN k.rx + n ELSE k.rx
        /\ l.due = IF Completes(x, n) THEN Append(k.due, <<s, x.rt.snapOf>>) ELSE k.due
        /\ \A d \in Conns : d # x.up => sk[d] = socks[d]
    BY <1>1, <1>2, <1>3, DeliveredTo DEF sk
  <2>3. k.alive => k.rx + n = Sent(x.rq)
    BY <1>3, <1>4, <2>1 DEF n
  <2>4. Completes(x, n) <=> k.alive /\ FullyPulled(x.rq.ser)
    BY <1>1, <1>4, <2>3, CompletesWhen
  <2>5. FullyPulled(x.rq.ser)
    BY <1>3, <1>4 DEF RequestSound, SerSound, done, FullyPulled, RequestSides, Serializers
  <2>6. Append(<<>>, <<s, x.rt.snapOf>>) = << <<s, R.num>> >>
    BY <1>4, <1>8, <1>11
  <2>7. l.alive => l.rx = 0 /\ l.due = << <<s, R.num>> >>
    BY <2>1, <2>2, <2>4, <2>5, <2>6
  <2> HIDE DEF k, l
  <2>8. Wired(s, R, l)
    BY <1>11, <2>7 DEF Wired
  <2> QED
    BY <1>5, <1>8, <1>11, <2>2, <2>8, SettleWired DEF l
<1> QED
  BY <1>17, <1>18

\* The first bytes of a response rule out a second attempt.
LEMMA ResponseHeadBeginsStream ==
  ASSUME SoundInv, NEW s \in Sessions, ResponseHeadBegins(s)
  PROVE  SoundStep(s) /\ (WireInv => WireStep(s))
<1> DEFINE x == sess[s]
           R == [x EXCEPT !.rt.any = TRUE]
<1>1. x \in SessionStates /\ Sound(x) /\ x.pend = "read_up" /\ x.rt \in RetryStates
  BY InvTypes DEF SoundInv, ResponseHeadBegins, Answering, SessionStates
<1>2. Settle(s, R, socks, idle_pools, metrics)
  BY DEF ResponseHeadBegins
<1>3. /\ R \in SessionStates /\ R.up = x.up /\ R.pend = x.pend /\ R.rq = x.rq /\ R.rs = x.rs
      /\ R.num = x.num /\ R.rt = [x.rt EXCEPT !.any = TRUE]
  BY <1>1 DEF SessionStates, RetryStates
<1> HIDE DEF R
<1>4. /\ R.rt.any /\ R.rt.used = x.rt.used /\ R.rt.captured = x.rt.captured
      /\ R.rt.snap = x.rt.snap /\ R.rt.snapOf = x.rt.snapOf
  BY <1>1, <1>3 DEF RetryStates
<1>5. /\ RequestSound(x.rq) /\ PhaseSound(x) /\ RunsSound(x) /\ RetrySound(x)
      /\ ResponseSound(x.rs, x.rq.keep) /\ x.rq.started
  BY <1>1 DEF Sound, PhaseSound
<1>6. RetrySound(R)
  BY <1>1, <1>3, <1>4, <1>5 DEF RetrySound
<1>7. RunsSound(R)
  BY <1>1, <1>3, <1>4, <1>5 DEF RunsSound
<1>8. PhaseSound(R)
  BY <1>1, <1>3, <1>4, <1>5 DEF PhaseSound
<1>9. Sound(R)
  BY <1>3, <1>5, <1>6, <1>7, <1>8 DEF Sound
<1>10. SoundStep(s)
  BY <1>1, <1>2, <1>3, <1>4, <1>9, SettleSound
<1>11. ASSUME WireInv PROVE WireStep(s)
  <2>1. Wired(s, x, socks[x.up])
    BY <1>11 DEF WireInv
  <2>2. Wired(s, R, socks[R.up])
    BY <1>1, <1>3, <2>1 DEF Wired
  <2> QED
    BY <1>1, <1>2, <1>3, <2>2, SettleWired
<1> QED
  BY <1>10, <1>11

\* The first part of process_upstream_chunk(): a read is parsed.
LEMMA ParsedResponseSound ==
  ASSUME NEW x \in SessionStates, Sound(x), x.pend = "read_up",
         NEW r \in Responses(x), NEW a \in Arrivals(r.framing, r.len, x.rs.got)
  PROVE  LET y == ParsedResponse(x, r, a) IN
         /\ y.num = x.num /\ y.rq = x.rq /\ y.rt.any /\ y.rt.used = x.rt.used
         /\ y.rt.captured = x.rt.captured /\ y.rt.snap = x.rt.snap /\ y.rt.snapOf = x.rt.snapOf
         /\ SerSound(y.rs.ser) /\ ~y.rs.ser.last /\ y.rs.done = a.end /\ y.rs.started
         /\ ~y.rs.direct
         /\ y.rs.held = x.rs.held /\ y.rs.given + y.rs.held + a.k = y.rs.got
         /\ a.end => y.rs.got = y.rs.len
         /\ y.rs.framing \in {"length", "bodyless", "interim"} => y.rs.got < y.rs.len \/ a.end
         /\ y.rs.framing = "length" /\ a.end /\ a.k = 0 => y.rs.given = y.rs.len
         /\ y.rs.eff => x.rq.keep /\ y.rs.framing \in {"length", "chunked"}
         /\ y.rs.framing = r.framing /\ r.framing \in RespFramings
         /\ \/ y.rs.ser.head = HeadUnits /\ y.rs.heads = 0
            \/ /\ y.rs.ser.head < HeadUnits /\ y.rs.heads = 1
               /\ a.end /\ a.k = 0 => y.rs.ser.chunked
         /\ y.rs.ser.chunked = (y.rs.framing = "chunked")
<1> DEFINE ser == IF x.rs.started THEN x.rs.ser ELSE StartSerializer(r.framing = "chunked")
           eff == EffectiveKeepAlive(x, r.framing)
           q == [x.rs EXCEPT !.started = TRUE, !.framing = r.framing, !.len = r.len,
                             !.keep = r.keep, !.got = @ + a.k, !.done = a.end,
                             !.eff = eff, !.ser = ser]
           z == [x EXCEPT !.rs.started = TRUE, !.rs.framing = r.framing, !.rs.len = r.len,
                          !.rs.keep = r.keep, !.rs.got = @ + a.k, !.rs.done = a.end,
                          !.rs.eff = eff, !.rs.ser = ser]
           y == ParsedResponse(x, r, a)
<1>0. /\ r \in Heads /\ x.rs \in ResponseSides /\ x.rs.got \in Nat /\ x.rs.given \in Nat
      /\ x.rs.held \in Nat /\ x.rt \in RetryStates
  BY ResponsesType DEF SessionStates, ResponseSides
<1>1. a \in Reads /\ a.k \in Nat /\ a.end \in BOOLEAN /\ r.len \in Nat
  BY <1>0, ArrivalsType DEF Heads, Reads
<1>2. /\ a.k <= r.len - x.rs.got /\ (a.end => x.rs.got + a.k = r.len)
      /\ r.framing \in {"length", "bodyless", "interim"} => (x.rs.got + a.k = r.len => a.end)
      /\ r.framing = "eof" => ~a.end
  BY <1>0, <1>1, SessionAssumption DEF Arrivals, Lesser
<1>3. y = [z EXCEPT !.rt.any = TRUE]
  BY DEF ParsedResponse
<1>4. z = [x EXCEPT !.rs = q]
  BY DEF SessionStates, ResponseSides
<1>5. /\ r.framing \in Framings
      /\ x.rs.started => r.framing = x.rs.framing /\ r.len = x.rs.len
      /\ ~x.rs.started => r.framing \in RespFramings
  BY <1>0 DEF Responses, Heads
<1>6. /\ ResponseSound(x.rs, x.rq.keep) /\ ~x.rs.done /\ ~x.rs.direct
      /\ ~x.rs.started => x.rs = FreshResponse
      /\ x.rs.given + x.rs.held = x.rs.got /\ ~x.rs.ser.last
  <2>1. ResponseSound(x.rs, x.rq.keep) /\ PhaseSound(x)
    BY DEF Sound
  <2>2. ~x.rs.done /\ ~x.rs.direct
    BY <2>1 DEF PhaseSound
  <2>3. CASE x.rs.started
    BY <2>1, <2>2, <2>3 DEF ResponseSound, RelaySound, Even
  <2>4. CASE ~x.rs.started
    <3>1. x.rs = FreshResponse
      BY <2>1, <2>4 DEF ResponseSound
    <3>2. FreshResponse.given = 0 /\ FreshResponse.held = 0 /\ FreshResponse.got = 0
          /\ FreshResponse.ser = StartSerializer(FALSE)
      BY DEF FreshResponse
    <3>3. ~StartSerializer(FALSE).last
      BY StartSound
    <3>4. x.rs.given + x.rs.held = x.rs.got
      BY <3>1, <3>2
    <3> QED
      BY <2>1, <2>2, <3>1, <3>2, <3>3, <3>4
  <2> QED
    BY <2>3, <2>4
<1>7. /\ SerSound(ser) /\ ~ser.last /\ ser.chunked = (r.framing = "chunked")
      /\ x.rs.started => ser = x.rs.ser /\ ser.head < HeadUnits /\ x.rs.heads = 1
      /\ ~x.rs.started => ser.head = HeadUnits /\ x.rs.heads = 0 /\ x.rs.given = 0 /\ x.rs.got = 0
  <2>1. CASE x.rs.started
    BY <1>5, <1>6, <2>1 DEF ResponseSound, RelaySound
  <2>2. CASE ~x.rs.started
    <3>1. (r.framing = "chunked") \in BOOLEAN
      OBVIOUS
    <3>2. x.rs.heads = 0 /\ x.rs.given = 0 /\ x.rs.got = 0
      BY <1>6, <2>2 DEF FreshResponse
    <3> QED
      BY <2>2, <3>1, <3>2, StartSound
  <2> QED
    BY <2>1, <2>2
<1>17. r.framing \in RespFramings
  BY <1>5, <1>6 DEF ResponseSound, RelaySound
<1>8. eff => x.rq.keep /\ r.framing \in {"length", "chunked"}
  BY DEF EffectiveKeepAlive, ResponseFramed
<1> HIDE DEF ser, eff
<1>9. /\ q.started /\ q.framing = r.framing /\ q.len = r.len /\ q.got = x.rs.got + a.k
      /\ q.done = a.end /\ q.ser = ser /\ q.held = x.rs.held /\ q.given = x.rs.given
      /\ q.heads = x.rs.heads /\ q.direct = x.rs.direct /\ q.eff = eff
  BY <1>0 DEF ResponseSides
<1> HIDE DEF q, z
<1>10. z.num = x.num /\ z.rq = x.rq /\ z.rs = q /\ z.rt = x.rt
  BY <1>4 DEF SessionStates
<1>11. y.num = z.num /\ y.rq = z.rq /\ y.rs = z.rs /\ y.rt = [z.rt EXCEPT !.any = TRUE]
  BY <1>3, <1>4 DEF SessionStates
<1> HIDE DEF y
<1>12. /\ y.rt.any /\ y.rt.used = x.rt.used /\ y.rt.captured = x.rt.captured
       /\ y.rt.snap = x.rt.snap /\ y.rt.snapOf = x.rt.snapOf
  BY <1>0, <1>10, <1>11 DEF RetryStates
<1>13. q.given + q.held + a.k = q.got /\ (a.end => q.got = q.len)
  BY <1>0, <1>1, <1>2, <1>6, <1>9
<1>14. q.framing \in {"length", "bodyless", "interim"} => q.got < q.len \/ a.end
  BY <1>0, <1>1, <1>2, <1>9
<1>15. a.end /\ a.k = 0 /\ x.rs.started => ser.chunked
  <2>1. SUFFICES ASSUME a.end, a.k = 0, x.rs.started PROVE r.framing = "chunked"
    BY <1>7
  <2>2. x.rs.got = x.rs.len /\ x.rs.framing = r.framing
    BY <1>0, <1>2, <1>5, <2>1
  <2>3. r.framing \notin {"length", "bodyless", "interim"}
    BY <1>0, <1>6, <2>1, <2>2 DEF ResponseSound, RelaySound
  <2> QED
    BY <1>2, <1>5, <2>1, <2>3 DEF Framings
<1>16. q.framing = "length" /\ a.end /\ a.k = 0 => q.given = q.len
  <2>1. SUFFICES ASSUME q.framing = "length", a.end, a.k = 0 PROVE q.given = q.len
    OBVIOUS
  <2>2. ~x.rs.started
    BY <1>7, <1>9, <1>15, <2>1
  <2> QED
    BY <1>2, <1>7, <1>9, <2>1, <2>2
<1> QED
  BY <1>6, <1>7, <1>8, <1>9, <1>10, <1>11, <1>12, <1>13, <1>14, <1>15, <1>16, <1>17 DEF y

\* drain_response_body_into_serializer(): as for the request.
LEMMA DrainedResponseSound ==
  ASSUME NEW y \in SessionStates, NEW a \in Reads, SerSound(y.rs.ser), ~y.rs.ser.last,
         y.rs.done = a.end, y.rs.started, y.rs.given + y.rs.held + a.k = y.rs.got,
         a.end => y.rs.got = y.rs.len,
         y.rs.framing = "length" /\ a.end /\ a.k = 0 => y.rs.given = y.rs.len,
         y.rs.ser.chunked = (y.rs.framing = "chunked"),
         NEW j \in Passed(y.rs.held, a.k, a.end, RespBody)
  PROVE  LET z == DrainedResponse(y, a, j) IN
         /\ z.num = y.num /\ z.rt = y.rt /\ z.rq = y.rq
         /\ z.rs.started /\ z.rs.framing = y.rs.framing /\ z.rs.len = y.rs.len
         /\ z.rs.got = y.rs.got /\ z.rs.done = a.end /\ z.rs.direct = y.rs.direct
         /\ z.rs.eff = y.rs.eff /\ z.rs.heads = y.rs.heads
         /\ SerSound(z.rs.ser) /\ z.rs.ser.last = a.end /\ z.rs.ser.head = y.rs.ser.head
         /\ z.rs.ser.chunked = (z.rs.framing = "chunked")
         /\ Even(z.rs)
         /\ z.rs.framing = "length" /\ a.end => z.rs.given = z.rs.len
         /\ a.end /\ (a.k > 0 \/ y.rs.ser.chunked) => z.rs.ser.pending > 0
<1> DEFINE fwd == ForwardedBy(y.rs.held, j)
           ser == provide_body(y.rs.ser, fwd, a.end)
           q == [y.rs EXCEPT !.held = HeldBy(@, a.k, j), !.given = @ + fwd, !.ser = ser]
           z == DrainedResponse(y, a, j)
<1>0. /\ y.rs \in ResponseSides /\ a.k \in Nat /\ a.end \in BOOLEAN /\ y.rs.held \in Nat
      /\ y.rs.given \in Nat /\ y.rs.got \in Nat /\ y.rs.ser \in Serializers
      /\ y.rs.ser.pending \in Nat
  BY DEF SessionStates, Reads, ResponseSides, Serializers
<1>1. fwd \in Nat /\ HeldBy(y.rs.held, a.k, j) \in Nat
  BY <1>0, PassedType
<1>2. fwd + HeldBy(y.rs.held, a.k, j) = y.rs.held + a.k
  BY <1>0 DEF ForwardedBy, HeldBy, Passed
<1>3. a.end /\ a.k > 0 => HeldBy(y.rs.held, a.k, j) = 0
  BY <1>0 DEF HeldBy, Passed
<1>4. a.k = 0 => fwd = 0
  BY <1>0 DEF ForwardedBy, Passed
<1>5. /\ SerSound(ser) /\ ser.head = y.rs.ser.head /\ ser.chunked = y.rs.ser.chunked
      /\ ser.last = a.end
      /\ ser.pending = y.rs.ser.pending + fwd + (IF y.rs.ser.chunked /\ a.end THEN 1 ELSE 0)
  BY <1>0, <1>1, ProvideSound
<1>6. z = [y EXCEPT !.rs = q]
  BY DEF DrainedResponse, SessionStates, ResponseSides
<1> DEFINE h == HeldBy(y.rs.held, a.k, j)
<1> HIDE DEF ser, fwd, h
<1>7. /\ q.started = y.rs.started /\ q.framing = y.rs.framing /\ q.len = y.rs.len
      /\ q.got = y.rs.got /\ q.done = y.rs.done /\ q.ser = ser /\ q.held = h
      /\ q.given = y.rs.given + fwd
      /\ q.heads = y.rs.heads /\ q.direct = y.rs.direct /\ q.eff = y.rs.eff
  BY <1>0 DEF ResponseSides, h
<1> HIDE DEF q
<1>8. z.num = y.num /\ z.rt = y.rt /\ z.rq = y.rq /\ z.rs = q
  BY <1>6 DEF SessionStates
<1> HIDE DEF z
<1>9. q.given + q.held = q.got
  BY <1>0, <1>1, <1>2, <1>7 DEF h
<1>10. q.framing = "length" /\ a.end => q.given = q.len
  <2>1. CASE a.k = 0
    BY <1>0, <1>4, <1>7, <2>1
  <2>2. CASE a.k > 0
    BY <1>0, <1>1, <1>3, <1>7, <1>9, <2>2 DEF h
  <2> QED
    BY <1>0, <2>1, <2>2
<1>11. Even(q)
  BY <1>5, <1>7, <1>9 DEF Even
<1>12. a.end /\ (a.k > 0 \/ y.rs.ser.chunked) => ser.pending > 0
  <2>1. a.end /\ a.k > 0 => fwd > 0
    BY <1>0, <1>1, <1>2, <1>3
  <2>2. y.rs.ser.chunked /\ a.end => ser.pending = y.rs.ser.pending + fwd + 1
    BY <1>5
  <2>3. a.k > 0 => ser.pending >= y.rs.ser.pending + fwd
    BY <1>0, <1>1, <1>5
  <2> QED
    BY <1>0, <1>1, <2>1, <2>2, <1>5
<1>13. q.ser.chunked = (q.framing = "chunked")
  BY <1>5, <1>7
<1> QED
  BY <1>5, <1>7, <1>8, <1>9, <1>10, <1>11, <1>12, <1>13 DEF z

\* PullResponse, field by field.
LEMMA PullResponseFields ==
  ASSUME NEW x \in SessionStates
  PROVE  LET R == PullResponse(x)
             n == Pulled(x.rs.ser)
             ser == pull(x.rs.ser)
             h == IF x.rs.ser.head = HeadUnits THEN x.rs.heads + 1 ELSE x.rs.heads
             q == [x.rs EXCEPT !.ser = ser, !.heads = h]
         IN
         /\ R.pend \in {"write_down", "read_up"} =>
              R.num = x.num /\ R.rq = x.rq /\ R.rt = x.rt /\ R.rs = q
         /\ R.pend = "read_up" => n = 0 /\ ~done(ser) /\ ~x.rs.direct /\ ~x.rs.done
         /\ R.pend = "read_down" =>
              /\ n = 0 /\ done(ser) /\ ~x.rs.direct /\ x.rs.eff
              /\ R.num = x.num + 1 /\ R.rq = FreshRequest /\ R.rt = FreshRetry
              /\ R.rs = FreshResponse
         /\ R.pend \in {"write_down", "read_up", "read_down", "closed"}
<1> DEFINE n == Pulled(x.rs.ser)
           ser == pull(x.rs.ser)
           h == IF x.rs.ser.head = HeadUnits THEN x.rs.heads + 1 ELSE x.rs.heads
           q == [x.rs EXCEPT !.ser = ser, !.heads = h]
           u == IF ReleasesUpstream(x) THEN NoConn ELSE x.up
           y == [x EXCEPT !.rs.ser = pull(@),
                          !.rs.heads = IF x.rs.ser.head = HeadUnits THEN @ + 1 ELSE @,
                          !.up = IF ReleasesUpstream(x) THEN NoConn ELSE @]
           R == PullResponse(x)
           G == /\ R.pend \in {"write_down", "read_up"} =>
                     R.num = x.num /\ R.rq = x.rq /\ R.rt = x.rt /\ R.rs = q
                /\ R.pend = "read_up" => n = 0 /\ ~done(ser) /\ ~x.rs.direct /\ ~x.rs.done
                /\ R.pend = "read_down" =>
                     /\ n = 0 /\ done(ser) /\ ~x.rs.direct /\ x.rs.eff
                     /\ R.num = x.num + 1 /\ R.rq = FreshRequest /\ R.rt = FreshRetry
                     /\ R.rs = FreshResponse
                /\ R.pend \in {"write_down", "read_up", "read_down", "closed"}
<1>0. x.rs \in ResponseSides /\ x.rs.ser \in Serializers /\ x.num \in Nat
  BY DEF SessionStates, ResponseSides
<1>1. y = [x EXCEPT !.rs = q, !.up = u]
  BY DEF SessionStates, ResponseSides
<1>2. \/ R = [y EXCEPT !.pend = "write_down"]
      \/ n = 0 /\ done(y.rs.ser) /\ ~x.rs.direct /\ x.rs.eff /\ R = ResetForNextRequest(y)
      \/ n = 0 /\ ~done(y.rs.ser) /\ ~x.rs.direct /\ ~x.rs.done /\ R = [y EXCEPT !.pend = "read_up"]
      \/ R = [y EXCEPT !.pend = "closed"]
  BY DEF PullResponse
<1>3. q.ser = ser
  BY <1>0 DEF ResponseSides
<1> HIDE DEF ser, u, h, q, y
<1>4. /\ y.num = x.num /\ y.rq = x.rq /\ y.rt = x.rt /\ y.rs = q /\ y.rs.ser = ser
      /\ y = [pend |-> x.pend, up |-> u, ep |-> x.ep, num |-> x.num,
              rq |-> x.rq, rt |-> x.rt, rs |-> q]
  BY <1>1, <1>3 DEF SessionStates
<1> HIDE DEF R, n
<1>5. ASSUME R = [y EXCEPT !.pend = "write_down"] PROVE G
  BY <1>4, <1>5
<1>6. ASSUME n = 0, done(y.rs.ser), ~x.rs.direct, x.rs.eff, R = ResetForNextRequest(y) PROVE G
  BY <1>4, <1>6 DEF ResetForNextRequest
<1>7. ASSUME n = 0, ~done(y.rs.ser), ~x.rs.direct, ~x.rs.done, R = [y EXCEPT !.pend = "read_up"]
      PROVE  G
  BY <1>4, <1>7
<1>8. ASSUME R = [y EXCEPT !.pend = "closed"] PROVE G
  BY <1>4, <1>8
<1>9. G
  BY <1>2, <1>5, <1>6, <1>7, <1>8
<1> QED
  BY <1>9 DEF R, n, ser, h, q

\* pull_and_write_response_to_downstream(): a response is relayed with one head, and
\* the next request is awaited when the whole of it is out.
LEMMA PullResponseSound ==
  ASSUME NEW x \in SessionStates, RequestSound(x.rq), x.rq.started, x.num >= 1,
         x.rt.captured => done(x.rq.ser) /\ x.rt.snap = Sent(x.rq) /\ x.rt.snapOf = x.num,
         x.rq.runs <= 1 + (IF x.rt.used /\ x.rt.captured THEN 1 ELSE 0),
         SerSound(x.rs.ser), x.rs.started,
         ~x.rs.direct =>
           /\ Even(x.rq) /\ done(x.rq.ser) /\ x.rt.any /\ RelaySound(x.rs, x.rq.keep)
           /\ x.rs.heads = IF x.rs.ser.head = HeadUnits THEN 0 ELSE 1
  PROVE  LET R == PullResponse(x) IN
         /\ R.pend # "closed" => Sound(R)
         /\ R.pend = "read_down" => FullyPulled(x.rs.ser) /\ ~x.rs.direct /\ x.rs.eff
         /\ R.pend \in {"write_down", "read_up"} =>
              R.num = x.num /\ R.rt = x.rt /\ R.rs.done = x.rs.done /\ R.rs.direct = x.rs.direct
         /\ R.pend = "read_up" => ~x.rs.direct /\ ~x.rs.done
         /\ R.pend = "read_down" => ~R.rt.used /\ ~R.rq.started /\ ~R.rq.connecting
         /\ R.pend \in {"write_down", "read_up", "read_down", "closed"}
<1> DEFINE R == PullResponse(x)
           n == Pulled(x.rs.ser)
           ser == pull(x.rs.ser)
           h == IF x.rs.ser.head = HeadUnits THEN x.rs.heads + 1 ELSE x.rs.heads
           q == [x.rs EXCEPT !.ser = ser, !.heads = h]
<1>1. /\ R.pend \in {"write_down", "read_up"} =>
           R.num = x.num /\ R.rq = x.rq /\ R.rt = x.rt /\ R.rs = q
      /\ R.pend = "read_up" => n = 0 /\ ~done(ser) /\ ~x.rs.direct /\ ~x.rs.done
      /\ R.pend = "read_down" =>
           /\ n = 0 /\ done(ser) /\ ~x.rs.direct /\ x.rs.eff
           /\ R.num = x.num + 1 /\ R.rq = FreshRequest /\ R.rt = FreshRetry
           /\ R.rs = FreshResponse
      /\ R.pend \in {"write_down", "read_up", "read_down", "closed"}
  BY PullResponseFields
<1>2. x.rs \in ResponseSides /\ x.rs.ser \in Serializers /\ x.num \in Nat /\ x.rq.runs \in Nat
  BY DEF SessionStates, ResponseSides, RequestSides
<1>3. /\ SerSound(ser) /\ ser.last = x.rs.ser.last /\ ser.chunked = x.rs.ser.chunked
      /\ ser.head < HeadUnits
      /\ n = 0 /\ x.rs.ser.last <=> FullyPulled(x.rs.ser)
      /\ done(ser) => FullyPulled(ser)
  BY <1>2, PullSound
<1>4. ~x.rs.direct => h = 1
  BY <1>2 DEF ResponseSides
<1> HIDE DEF R, n, ser, h
<1>5. /\ q.started /\ q.framing = x.rs.framing /\ q.len = x.rs.len /\ q.got = x.rs.got
      /\ q.done = x.rs.done /\ q.ser = ser /\ q.held = x.rs.held /\ q.given = x.rs.given
      /\ q.heads = h /\ q.direct = x.rs.direct /\ q.eff = x.rs.eff
  BY <1>2 DEF ResponseSides
<1> HIDE DEF q
<1>6. ~x.rs.direct => RelaySound(q, x.rq.keep)
  <2>1. SUFFICES ASSUME ~x.rs.direct PROVE RelaySound(q, x.rq.keep)
    OBVIOUS
  <2>2. q.ser.chunked = (q.framing = "chunked")
    BY <1>3, <1>5, <2>1 DEF RelaySound
  <2>3. Even(q)
    BY <1>3, <1>5, <2>1 DEF RelaySound, Even
  <2> QED
    BY <1>3, <1>5, <2>1, <2>2, <2>3 DEF RelaySound
<1>7. ResponseSound(q, x.rq.keep)
  BY <1>3, <1>4, <1>5, <1>6 DEF ResponseSound
<1>8. R.pend = "read_down" => FullyPulled(x.rs.ser)
  BY <1>1, <1>3 DEF FullyPulled
<1>9. ASSUME R.pend \in {"write_down", "read_up"} PROVE Sound(R)
  <2>1. RetrySound(R)
    BY <1>1, <1>9 DEF RetrySound
  <2>2. RunsSound(R)
    BY <1>1, <1>9 DEF RunsSound
  <2>3. PhaseSound(R)
    BY <1>1, <1>5, <1>9 DEF PhaseSound
  <2> QED
    BY <1>1, <1>7, <1>9, <2>1, <2>2, <2>3 DEF Sound
<1>10. ASSUME R.pend = "read_down" PROVE Sound(R)
  <2>0. R.num >= 1
    BY <1>1, <1>2, <1>10
  <2>1. RetrySound(R)
    BY <1>1, <1>10, FreshFacts DEF RetrySound
  <2>2. RunsSound(R)
    BY <1>1, <1>10, FreshFacts DEF RunsSound
  <2>3. PhaseSound(R)
    BY <1>1, <1>10, <2>0, FreshFacts DEF PhaseSound
  <2> QED
    BY <1>1, <1>10, <2>1, <2>2, <2>3, FreshFacts DEF Sound
<1> QED
  BY <1>1, <1>5, <1>8, <1>9, <1>10, FreshFacts DEF R

\* The same with the connection: it goes back to the pool with nothing outstanding.
LEMMA PullResponseWired ==
  ASSUME SoundInv, NEW s \in Sessions, NEW x \in SessionStates, x.up = sess[s].up,
         x.ep \in Endpoints, NEW sk \in [Conns -> Sockets], pull_and_write_response(s, x, sk),
         \A d \in Conns : sk[d] = socks[d] \/ d = sess[s].up,
         SerSound(x.rs.ser), x.rs.ser.last /\ ~x.rs.direct => x.rs.done,
         ~x.rs.direct => /\ sk[x.up].rx = 0
                         /\ sk[x.up].due = IF x.rs.done THEN <<>> ELSE << <<s, x.num>> >>,
         LET R == PullResponse(x) IN
           /\ R.pend \in {"write_down", "read_up"} =>
                R.num = x.num /\ R.rs.done = x.rs.done /\ R.rs.direct = x.rs.direct
           /\ R.pend = "read_up" => ~x.rs.direct /\ ~x.rs.done
           /\ R.pend = "read_down" => ~R.rq.connecting
           /\ R.pend \in {"write_down", "read_up", "read_down", "closed"}
  PROVE  WireStep(s)
<1> DEFINE R == PullResponse(x)
           c == x.up
           e == x.ep
<1>1. /\ R \in SessionStates /\ R.up = IF ReleasesUpstream(x) THEN NoConn ELSE c
      /\ R.pend \in {"write_down", "read_up"} => R.up = c
  BY PullResponseType
<1>2. Types /\ idle_pools \in [Endpoints -> Seq(Conns)] /\ c \in Conns \cup {NoConn}
  BY InvTypes DEF SoundInv
<1>3. /\ R.pend \in {"write_down", "read_up"} =>
           R.num = x.num /\ R.rs.done = x.rs.done /\ R.rs.direct = x.rs.direct
      /\ R.pend = "read_up" => ~x.rs.direct /\ ~x.rs.done
      /\ R.pend = "read_down" => ~R.rq.connecting
      /\ R.pend \in {"write_down", "read_up", "read_down", "closed"}
  OBVIOUS
<1> HIDE DEF R
<1>4. ASSUME NEW k, R.pend \in {"write_down", "read_up"} => k = sk[c] PROVE R.pend # "closed" => Wired(s, R, k)
  <2>1. CASE R.pend = "write_down"
    BY <1>3, <1>4, <2>1 DEF Wired
  <2>2. CASE R.pend = "read_up"
    BY <1>3, <1>4, <2>2 DEF Wired
  <2>3. CASE R.pend = "read_down"
    BY <1>3, <2>3 DEF Wired
  <2> QED
    BY <1>3, <2>1, <2>2, <2>3
<1>5. CASE ~ReleasesUpstream(x)
  <2>1. Settle(s, R, sk, idle_pools, metrics)
    BY <1>5 DEF pull_and_write_response, R
  <2>2. R.pend # "closed" => Wired(s, R, sk[R.up])
    BY <1>1, <1>4
  <2> QED
    BY <1>1, <1>5, <2>1, <2>2, SettleWired
<1>6. CASE ReleasesUpstream(x)
  <2>1. c \in Conns /\ R.up = NoConn /\ ~x.rs.direct
    BY <1>1, <1>2, <1>6 DEF ReleasesUpstream
  <2>2. R.pend \in {"read_down", "closed"}
    BY <1>1, <1>3, <2>1, UpstreamAssumption
  <2>3. Quiet(sk[c])
    <3>1. x.rs.ser \in Serializers
      BY DEF SessionStates, ResponseSides
    <3>2. x.rs.ser.last
      BY <1>6, <3>1, PullSound DEF ReleasesUpstream, FullyPulled
    <3> QED
      BY <2>1, <3>2 DEF Quiet
  <2>4. R.pend # "closed" => Wired(s, R, NoSocket) /\ \A k : Wired(s, R, k)
    BY <1>4, <2>2
  <2>5. CASE PoolFull(e)
    <3>1. Settle(s, R, Dropped(sk, c), idle_pools, metrics)
      BY <1>6, <2>5 DEF pull_and_write_response, AfterRelease, R
    <3>2. \A d \in Conns : Dropped(sk, c)[d] = socks[d] \/ d = sess[s].up
      BY DEF Dropped
    <3> QED
      BY <1>1, <2>1, <2>4, <3>1, <3>2, SettleWired
  <2>6. CASE ~PoolFull(e)
    <3>1. Settle(s, R, sk, [idle_pools EXCEPT ![e] = Append(@, c)], metrics)
      BY <1>6, <2>6 DEF pull_and_write_response, AfterRelease, R
    <3>2. /\ idle_pools' = [idle_pools EXCEPT ![e] = Append(@, c)]
          /\ \A d \in Conns : socks'[d] = sk[d]
      BY <2>1, <3>1, UpstreamAssumption DEF Settle, Dropped
    <3>3. Wired(s, sess'[s], socks'[sess'[s].up])
      <4>1. sess'[s] = IF R.pend = "closed" THEN ClosedSession ELSE R
        BY <1>2, <3>1, OthersKept
      <4>2. CASE R.pend = "closed"
        BY <4>1, <4>2, ClosedSound DEF Wired
      <4>3. CASE R.pend # "closed"
        BY <2>4, <4>1, <4>3
      <4> QED
        BY <4>2, <4>3
    <3>4. ASSUME NEW f \in Endpoints, NEW i \in 1..Len(idle_pools'[f])
          PROVE  \/ \E k \in 1..Len(idle_pools[f]) : idle_pools[f][k] = idle_pools'[f][i]
                 \/ idle_pools'[f][i] = c
      <4>1. CASE f # e
        BY <1>2, <3>2, <3>4, <4>1
      <4>2. CASE f = e
        <5>1. idle_pools'[f] = Append(idle_pools[f], c) /\ idle_pools[f] \in Seq(Conns)
          BY <1>2, <3>2, <4>2
        <5>2. Len(idle_pools'[f]) = Len(idle_pools[f]) + 1 /\ Len(idle_pools[f]) \in Nat
          BY <2>1, <5>1
        <5>3. CASE i = Len(idle_pools[f]) + 1
          BY <2>1, <5>1, <5>3
        <5>4. CASE i # Len(idle_pools[f]) + 1
          <6>1. i \in 1..Len(idle_pools[f])
            BY <3>4, <5>2, <5>4
          <6>2. idle_pools'[f][i] = idle_pools[f][i]
            BY <2>1, <5>1, <6>1
          <6> QED
            BY <6>1, <6>2
        <5> QED
          BY <5>3, <5>4
      <4> QED
        BY <4>1, <4>2
    <3>5. Quiet(socks'[c])
      BY <2>1, <2>3, <3>2
    <3> QED
      BY <3>2, <3>3, <3>4, <3>5 DEF WireStep
  <2> QED
    BY <2>5, <2>6
<1> QED
  BY <1>5, <1>6

\* What a session that reads a response has.
LEMMA ReadingUp ==
  ASSUME NEW x \in SessionStates, Sound(x), x.pend = "read_up"
  PROVE  /\ RequestSound(x.rq) /\ x.rq.started /\ Even(x.rq) /\ done(x.rq.ser) /\ x.num >= 1
         /\ x.rt.captured => x.rt.snap = Sent(x.rq) /\ x.rt.snapOf = x.num
         /\ x.rq.runs <= 1 + (IF x.rt.used /\ x.rt.captured THEN 1 ELSE 0)
<1>1. RequestSound(x.rq) /\ PhaseSound(x) /\ RunsSound(x) /\ RetrySound(x)
  BY DEF Sound
<1>2. x.rq.runs <= 1 + (IF x.rt.used /\ x.rt.captured THEN 1 ELSE 0)
  BY <1>1 DEF RunsSound
<1>3. x.rt.captured => x.rt.snap = Sent(x.rq) /\ x.rt.snapOf = x.num
  BY <1>1 DEF RetrySound
<1>4. x.rq.started /\ Even(x.rq) /\ done(x.rq.ser) /\ x.num >= 1
  BY <1>1 DEF PhaseSound
<1> QED
  BY <1>1, <1>2, <1>3, <1>4

\* The sockets when a read of the response has been taken.
LEMMA AnsweredOn ==
  ASSUME NEW c \in Conns, socks \in [Conns -> Sockets], NEW r, NEW a
  PROVE  LET sk == AfterAnswer(c, r, a) IN
         /\ sk[c].rx = socks[c].rx
         /\ sk[c].due = IF a.end /\ r.framing # "interim" THEN Tail(socks[c].due) ELSE socks[c].due
         /\ \A d \in Conns : d # c => sk[d] = socks[d]
<1> DEFINE q == IF a.end /\ r.framing # "interim" THEN Tail(socks[c].due) ELSE socks[c].due
<1>1. AfterAnswer(c, r, a) = [socks EXCEPT ![c] = [socks[c] EXCEPT !.due = q]]
  BY DEF AfterAnswer
<1> HIDE DEF q
<1>2. socks[c] \in Sockets
  OBVIOUS
<1>3. [socks[c] EXCEPT !.due = q].due = q /\ [socks[c] EXCEPT !.due = q].rx = socks[c].rx
  BY <1>2 DEF Sockets
<1> QED
  BY <1>1, <1>3 DEF q

\* A read of the response is relayed.
LEMMA ResponseChunkStream ==
  ASSUME SoundInv, NEW s \in Sessions, ResponseChunk(s)
  PROVE  SoundStep(s) /\ (WireInv => WireStep(s))
<1> DEFINE x == sess[s]
           Ends(r, a, j) ==
             pull_and_write_response(s, DrainedResponse(ParsedResponse(x, r, a), a, j),
                                     AfterAnswer(x.up, r, a))
<1>01. PICK r \in Responses(x) :
         \E a \in Arrivals(r.framing, r.len, x.rs.got) :
           \E j \in Passed(x.rs.held, a.k, a.end, RespBody) : Ends(r, a, j)
  BY DEF ResponseChunk
<1>02. PICK a \in Arrivals(r.framing, r.len, x.rs.got) :
         \E j \in Passed(x.rs.held, a.k, a.end, RespBody) : Ends(r, a, j)
  BY <1>01
<1>03. PICK j \in Passed(x.rs.held, a.k, a.end, RespBody) : Ends(r, a, j)
  BY <1>02
<1>1. /\ x \in SessionStates /\ socks \in [Conns -> Sockets] /\ Linked(x, Peers(socks))
      /\ Sound(x) /\ x.pend = "read_up" /\ socks[x.up].alive /\ socks[x.up].due # <<>>
      /\ x.ep \in Endpoints
  BY InvTypes DEF ResponseChunk, Answering, SoundInv
<1>2. r \in Heads /\ x.rs.got \in Nat
  BY <1>1, ResponsesType DEF SessionStates, ResponseSides
<1>3. a \in Reads /\ x.up \in Conns /\ a.k \in Nat
  BY <1>1, <1>2, ArrivalsType, InvTypes DEF SoundInv, Heads, Linked, UsesUpstream, Reads
<1> DEFINE y == ParsedResponse(x, r, a)
           z == DrainedResponse(y, a, j)
           sk == AfterAnswer(x.up, r, a)
           R == PullResponse(z)
<1>4. y \in SessionStates /\ y.up = x.up /\ y.ep = x.ep
  BY <1>1, <1>2, <1>3, ParsedResponseType
<1>5. /\ y.num = x.num /\ y.rq = x.rq /\ y.rt.any /\ y.rt.used = x.rt.used
      /\ y.rt.captured = x.rt.captured /\ y.rt.snap = x.rt.snap /\ y.rt.snapOf = x.rt.snapOf
      /\ SerSound(y.rs.ser) /\ ~y.rs.ser.last /\ y.rs.done = a.end /\ y.rs.started
      /\ ~y.rs.direct
      /\ y.rs.held = x.rs.held /\ y.rs.given + y.rs.held + a.k = y.rs.got
      /\ a.end => y.rs.got = y.rs.len
      /\ y.rs.framing \in {"length", "bodyless", "interim"} => y.rs.got < y.rs.len \/ a.end
      /\ y.rs.framing = "length" /\ a.end /\ a.k = 0 => y.rs.given = y.rs.len
      /\ y.rs.eff => x.rq.keep /\ y.rs.framing \in {"length", "chunked"}
      /\ y.rs.framing = r.framing /\ r.framing \in RespFramings
      /\ \/ y.rs.ser.head = HeadUnits /\ y.rs.heads = 0
         \/ /\ y.rs.ser.head < HeadUnits /\ y.rs.heads = 1
            /\ a.end /\ a.k = 0 => y.rs.ser.chunked
      /\ y.rs.ser.chunked = (y.rs.framing = "chunked")
  BY <1>1, ParsedResponseSound
<1>6. Ends(r, a, j)
  BY <1>03
<1>7. pull_and_write_response(s, z, sk)
  BY <1>6
<1> HIDE DEF y
<1>8. j \in Passed(y.rs.held, a.k, a.end, RespBody)
  BY <1>5
<1>9. z \in SessionStates /\ z.up = x.up /\ z.ep = x.ep
  BY <1>3, <1>4, <1>8, DrainedResponseType
<1>10. /\ z.num = y.num /\ z.rt = y.rt /\ z.rq = y.rq
       /\ z.rs.started /\ z.rs.framing = y.rs.framing /\ z.rs.len = y.rs.len
       /\ z.rs.got = y.rs.got /\ z.rs.done = a.end /\ z.rs.direct = y.rs.direct
       /\ z.rs.eff = y.rs.eff /\ z.rs.heads = y.rs.heads
       /\ SerSound(z.rs.ser) /\ z.rs.ser.last = a.end /\ z.rs.ser.head = y.rs.ser.head
       /\ z.rs.ser.chunked = (z.rs.framing = "chunked")
       /\ Even(z.rs)
       /\ z.rs.framing = "length" /\ a.end => z.rs.given = z.rs.len
       /\ a.end /\ (a.k > 0 \/ y.rs.ser.chunked) => z.rs.ser.pending > 0
  BY <1>3, <1>4, <1>5, <1>8, DrainedResponseSound
<1> HIDE DEF z, sk
<1>11. /\ RequestSound(x.rq) /\ x.rq.started /\ Even(x.rq) /\ done(x.rq.ser) /\ x.num >= 1
       /\ x.rt.captured => x.rt.snap = Sent(x.rq) /\ x.rt.snapOf = x.num
       /\ x.rq.runs <= 1 + (IF x.rt.used /\ x.rt.captured THEN 1 ELSE 0)
  BY <1>1, ReadingUp
<1>12. RelaySound(z.rs, z.rq.keep)
  <2>1. z.rs.framing = "length" /\ z.rs.ser.last => z.rs.given = z.rs.len
    BY <1>10
  <2>2. z.rs.framing \in {"length", "bodyless", "interim"} => z.rs.got < z.rs.len \/ z.rs.done
    BY <1>5, <1>10
  <2>3. z.rs.eff => z.rq.keep /\ z.rs.framing \in {"length", "chunked"}
    BY <1>5, <1>10
  <2> QED
    BY <1>5, <1>10, <2>1, <2>2, <2>3 DEF RelaySound
<1>13. z.rs.heads = IF z.rs.ser.head = HeadUnits THEN 0 ELSE 1
  <2>1. HeadUnits \in Nat
    BY SerializerAssumption
  <2> QED
    BY <1>5, <1>10, <2>1
<1>14. ~FullyPulled(z.rs.ser)
  <2>1. HeadUnits \in Nat /\ HeadUnits > 0
    BY SerializerAssumption
  <2>2. a.k = 0 \/ a.k > 0
    BY <1>3
  <2> QED
    BY <1>5, <1>10, <2>1, <2>2 DEF FullyPulled
<1>15. z.rq.runs <= 1 + (IF z.rt.used /\ z.rt.captured THEN 1 ELSE 0)
  BY <1>5, <1>10, <1>11
<1>16. z.rt.captured => done(z.rq.ser) /\ z.rt.snap = Sent(z.rq) /\ z.rt.snapOf = z.num
  BY <1>5, <1>10, <1>11
<1>17. /\ R.pend # "closed" => Sound(R)
       /\ R.pend # "read_down"
       /\ R.pend \in {"write_down", "read_up"} =>
            R.num = z.num /\ R.rt = z.rt /\ R.rs.done = z.rs.done /\ R.rs.direct = z.rs.direct
       /\ R.pend = "read_up" => ~z.rs.direct /\ ~z.rs.done
       /\ R.pend \in {"write_down", "read_up", "read_down", "closed"}
  <2>1. RequestSound(z.rq) /\ z.rq.started /\ z.num >= 1 /\ Even(z.rq) /\ done(z.rq.ser) /\ z.rt.any
    BY <1>5, <1>10, <1>11
  <2> QED
    BY <1>9, <1>10, <1>12, <1>13, <1>14, <1>15, <1>16, <2>1, PullResponseSound
<1>18. R = PullResponse(z)
  OBVIOUS
<1> HIDE DEF R
<1>19. SoundStep(s)
  <2>1. /\ R.pend # "closed" => Sound(R)
        /\ R.pend # "closed" => (R.rt.used <=> x.rt.used) /\ R.pend # "unborn"
        /\ R.pend # "closed" => R.num = x.num
    BY <1>5, <1>10, <1>17
  <2>2. \E sl, pl : Settle(s, R, sl, pl, metrics)
    BY <1>7, <1>18 DEF pull_and_write_response
  <2> QED
    BY <2>1, <2>2, SettleSound
<1>20. ASSUME WireInv PROVE WireStep(s)
  <2>1. socks[x.up].rx = 0 /\ socks[x.up].due = << <<s, x.num>> >>
    BY <1>1, <1>20 DEF WireInv, Wired
  <2>2. r.framing # "interim"
    BY <1>5, <1>20 DEF WireInv, NoInterim
  <2>3. /\ sk[x.up].rx = socks[x.up].rx
        /\ sk[x.up].due = IF a.end THEN Tail(socks[x.up].due) ELSE socks[x.up].due
        /\ \A d \in Conns : d # x.up => sk[d] = socks[d]
    BY <1>1, <1>3, <2>2, AnsweredOn DEF sk
  <2>4. Tail(<< <<s, x.num>> >>) = <<>>
    OBVIOUS
  <2>5. sk[z.up].rx = 0 /\ sk[z.up].due = IF z.rs.done THEN <<>> ELSE << <<s, z.num>> >>
    BY <1>5, <1>9, <1>10, <2>1, <2>3, <2>4
  <2>6. sk \in [Conns -> Sockets]
    BY <1>1, <1>3, AnswerType DEF sk
  <2> QED
    BY <1>1, <1>7, <1>9, <1>10, <1>17, <1>18, <2>3, <2>5, <2>6, PullResponseWired
<1> QED
  BY <1>19, <1>20

\* A filter refuses the response: what is relayed of it is cut off by the filter's own.
LEMMA ResponseRefusedStream ==
  ASSUME SoundInv, NEW s \in Sessions, ResponseRefused(s)
  PROVE  SoundStep(s) /\ WireStep(s)
<1> DEFINE x == sess[s]
           Ends(r, a, b) ==
             Settle(s, RespondDirectly(ParsedResponse(x, r, a), b), AfterAnswer(x.up, r, a),
                    idle_pools, metrics)
<1>01. PICK r \in Responses(x) :
         \E a \in Arrivals(r.framing, r.len, x.rs.got) : \E b \in 0..MaxDirect : Ends(r, a, b)
  BY DEF ResponseRefused
<1>02. PICK a \in Arrivals(r.framing, r.len, x.rs.got) : \E b \in 0..MaxDirect : Ends(r, a, b)
  BY <1>01
<1>03. PICK b \in 0..MaxDirect : Ends(r, a, b)
  BY <1>02
<1>1. /\ x \in SessionStates /\ socks \in [Conns -> Sockets] /\ Linked(x, Peers(socks))
      /\ Sound(x) /\ x.pend = "read_up"
  BY InvTypes DEF ResponseRefused, Answering, SoundInv
<1>2. r \in Heads /\ x.rs.got \in Nat /\ b \in Nat
  BY <1>1, ResponsesType, SessionAssumption DEF SessionStates, ResponseSides
<1>3. a \in Reads /\ x.up \in Conns
  BY <1>1, <1>2, ArrivalsType, InvTypes DEF SoundInv, Heads, Linked, UsesUpstream
<1> DEFINE w == ParsedResponse(x, r, a)
           R == RespondDirectly(w, b)
           sk == AfterAnswer(x.up, r, a)
<1>4. w \in SessionStates /\ w.up = x.up
  BY <1>1, <1>2, <1>3, ParsedResponseType
<1>5. /\ w.num = x.num /\ w.rq = x.rq /\ w.rt.used = x.rt.used
      /\ w.rt.captured = x.rt.captured /\ w.rt.snap = x.rt.snap /\ w.rt.snapOf = x.rt.snapOf
  BY <1>1, ParsedResponseSound
<1>6. Settle(s, R, sk, idle_pools, metrics)
  BY <1>03
<1>7. \A d \in Conns : d # x.up => sk[d] = socks[d]
  BY <1>1, <1>3, AnsweredOn
<1> HIDE DEF w, sk
<1>8. /\ RequestSound(x.rq) /\ x.rq.started /\ done(x.rq.ser) /\ x.num >= 1
      /\ x.rt.captured => x.rt.snap = Sent(x.rq) /\ x.rt.snapOf = x.num
      /\ x.rq.runs <= 1 + (IF x.rt.used /\ x.rt.captured THEN 1 ELSE 0)
  BY <1>1, ReadingUp
<1>9. /\ Sound(R) /\ Wired(s, R, sk[x.up]) /\ R.num = w.num /\ R.rt = w.rt
      /\ R \in SessionStates /\ R.pend = "write_down" /\ R.up = w.up
  <2>1. w.rq.runs <= 1 + (IF w.rt.used /\ w.rt.captured THEN 1 ELSE 0)
    BY <1>5, <1>8
  <2>2. w.rt.captured => done(w.rq.ser) /\ w.rt.snap = Sent(w.rq) /\ w.rt.snapOf = w.num
    BY <1>5, <1>8
  <2>3. RequestSound(w.rq) /\ w.rq.started /\ w.num >= 1
    BY <1>5, <1>8
  <2> QED
    BY <1>2, <1>4, <2>1, <2>2, <2>3, RespondDirectlySound
<1> HIDE DEF R
<1>10. SoundStep(s)
  BY <1>5, <1>6, <1>9, SettleSound
<1>11. WireStep(s)
  BY <1>4, <1>6, <1>7, <1>9, SettleWired
<1> QED
  BY <1>10, <1>11

\* A completed write to the client: more of the response, or the next request.
LEMMA ResponseWrittenStream ==
  ASSUME SoundInv, NEW s \in Sessions, ResponseWritten(s)
  PROVE  SoundStep(s) /\ (WireInv => WireStep(s))
<1> DEFINE x == sess[s]
           R == PullResponse(x)
<1>1. /\ x \in SessionStates /\ socks \in [Conns -> Sockets] /\ Sound(x)
      /\ x.pend = "write_down" /\ x.ep \in Endpoints /\ x.rs \in ResponseSides
      /\ pull_and_write_response(s, x, socks)
  BY InvTypes DEF ResponseWritten, SoundInv, SessionStates
<1>2. /\ RequestSound(x.rq) /\ PhaseSound(x) /\ RunsSound(x) /\ RetrySound(x)
      /\ ResponseSound(x.rs, x.rq.keep)
  BY <1>1 DEF Sound
<1>3. x.rq.started /\ x.num >= 1
  BY <1>1, <1>2 DEF PhaseSound
<1>4. x.rs.started
  BY <1>1, <1>2 DEF PhaseSound
<1>5. x.rt.captured => done(x.rq.ser) /\ x.rt.snap = Sent(x.rq) /\ x.rt.snapOf = x.num
  BY <1>2 DEF RetrySound
<1>6. x.rq.runs <= 1 + (IF x.rt.used /\ x.rt.captured THEN 1 ELSE 0)
  BY <1>2 DEF RunsSound
<1>7. /\ SerSound(x.rs.ser)
      /\ ~x.rs.direct =>
           /\ Even(x.rq) /\ done(x.rq.ser) /\ x.rt.any /\ RelaySound(x.rs, x.rq.keep)
           /\ x.rs.heads = 1 /\ x.rs.ser.head < HeadUnits
  BY <1>1, <1>2, <1>4 DEF PhaseSound, ResponseSound
<1>8. ~x.rs.direct => x.rs.heads = IF x.rs.ser.head = HeadUnits THEN 0 ELSE 1
  <2>1. HeadUnits \in Nat
    BY SerializerAssumption
  <2> QED
    BY <1>7, <2>1
<1>9. /\ R.pend # "closed" => Sound(R)
      /\ R.pend = "read_down" => FullyPulled(x.rs.ser) /\ ~x.rs.direct /\ x.rs.eff
      /\ R.pend \in {"write_down", "read_up"} =>
           R.num = x.num /\ R.rt = x.rt /\ R.rs.done = x.rs.done /\ R.rs.direct = x.rs.direct
      /\ R.pend = "read_up" => ~x.rs.direct /\ ~x.rs.done
      /\ R.pend = "read_down" => ~R.rt.used /\ ~R.rq.started /\ ~R.rq.connecting
      /\ R.pend \in {"write_down", "read_up", "read_down", "closed"}
  BY <1>1, <1>2, <1>3, <1>4, <1>5, <1>6, <1>7, <1>8, PullResponseSound
<1>10. R = PullResponse(x)
  OBVIOUS
<1> HIDE DEF R
<1>11. R.pend = "read_down" => Honest(x)
  <2>1. SUFFICES ASSUME R.pend = "read_down" PROVE Honest(x)
    OBVIOUS
  <2>2. FullyPulled(x.rs.ser) /\ ~x.rs.direct /\ x.rs.eff /\ x.rs.heads = 1
        /\ RelaySound(x.rs, x.rq.keep) /\ done(x.rq.ser)
    BY <1>7, <1>9, <2>1
  <2>3. x.rs.done /\ x.rq.keep /\ x.rs.framing \in {"length", "chunked"}
    BY <2>2 DEF RelaySound, FullyPulled
  <2>4. x.rq.done
    BY <1>2, <2>2 DEF RequestSound, SerSound, done
  <2> QED
    BY <2>2, <2>3, <2>4 DEF Honest
<1>12. SoundStep(s)
  <2>1. /\ R.pend # "closed" => Sound(R)
        /\ R.pend # "closed" => (R.rt.used => x.rt.used) /\ R.pend # "unborn"
        /\ R.pend # "closed" => (R.rq.started /\ x.rt.used => R.rt.used)
        /\ R.pend # "closed" => R.num = x.num \/ Honest(x)
    BY <1>9, <1>11
  <2>2. \E sl, pl : Settle(s, R, sl, pl, metrics)
    BY <1>1, <1>10 DEF pull_and_write_response
  <2> QED
    BY <2>1, <2>2, SettleSound
<1>13. ASSUME WireInv PROVE WireStep(s)
  <2>1. ~x.rs.direct =>
          /\ socks[x.up].rx = 0
          /\ socks[x.up].due = IF x.rs.done THEN <<>> ELSE << <<s, x.num>> >>
    BY <1>1, <1>13 DEF WireInv, Wired
  <2>2. x.rs.ser.last /\ ~x.rs.direct => x.rs.done
    BY <1>7 DEF RelaySound
  <2> QED
    BY <1>1, <1>7, <1>9, <1>10, <2>1, <2>2, PullResponseWired
<1> QED
  BY <1>12, <1>13

\* Every handler, and the start.
LEMMA HandlerStream ==
  ASSUME SoundInv, NEW s \in Sessions, start(s) \/ Handler(s)
  PROVE  SoundStep(s) /\ (WireInv => WireStep(s))
<1>1. CASE \/ RequestReadFails(s) \/ ConnectFails(s) \/ WriteFails(s) \/ RewriteFails(s)
           \/ ResponseReadFails(s) \/ ResponseMalformed(s) \/ ClientGone(s)
  BY <1>1, FailureStream
<1>2. CASE RequestChunk(s) \/ RequestRefused(s) \/ ConnectSucceeds(s)
  BY <1>2, RequestChunkStream, RequestRefusedStream, ConnectSucceedsStream
<1>3. CASE WriteSucceeds(s) \/ ReconnectSucceeds(s) \/ SnapshotWritten(s)
  BY <1>3, WriteSucceedsStream, ReconnectSucceedsStream, SnapshotWrittenStream
<1>4. CASE ResponseHeadBegins(s) \/ ResponseChunk(s) \/ ResponseRefused(s) \/ ResponseWritten(s)
  BY <1>4, ResponseHeadBeginsStream, ResponseChunkStream, ResponseRefusedStream,
     ResponseWrittenStream
<1>5. CASE start(s)
  BY <1>5, StartStream
<1> QED
  BY <1>1, <1>2, <1>3, <1>4, <1>5 DEF Handler

-----------------------------------------------------------------------------
(***************************************************************************)
(* All sessions.                                                           *)
(***************************************************************************)

\* A connection that is open is no other session's, and a pooled one is nobody's.
LEMMA Apart ==
  ASSUME OwnInv, NEW s \in Sessions
  PROVE  /\ \A t \in Sessions \ {s} : UsesUpstream(sess[t]) =>
              /\ sess[t].up \in Conns /\ sess[t].up # sess[s].up /\ socks[sess[t].up].open
         /\ \A e \in Endpoints : \A i \in 1..Len(idle_pools[e]) :
              /\ idle_pools[e][i] \in Conns /\ idle_pools[e][i] # sess[s].up
              /\ socks[idle_pools[e][i]].open
<1>1. Types /\ P!HeldOnce /\ P!PooledOnce
  BY DEF OwnInv, P!SingleOwner
<1>2. -1 \notin Endpoints
  BY UpstreamAssumption DEF Endpoints
<1>3. ASSUME NEW c \in Conns, Peers(socks)[c] \in Endpoints PROVE socks[c].open
  BY <1>2, <1>3 DEF Peers
<1>4. ASSUME NEW t \in Sessions \ {s}, UsesUpstream(sess[t])
      PROVE  /\ sess[t].up \in Conns /\ sess[t].up # sess[s].up /\ socks[sess[t].up].open
  <2>1. /\ sess[t].up \in Conns \cup {NoConn} /\ sess[t].ep \in Endpoints
        /\ Linked(sess[t], Peers(socks))
    BY InvTypes
  <2>2. sess[t].up \in Conns /\ Peers(socks)[sess[t].up] = sess[t].ep
    BY <1>4, <2>1 DEF Linked, UsesUpstream
  <2>3. sess[t].up # sess[s].up
    BY <1>1, <1>4, <2>2, UpstreamAssumption DEF P!HeldOnce
  <2> QED
    BY <1>3, <2>1, <2>2, <2>3
<1>5. ASSUME NEW e \in Endpoints, NEW i \in 1..Len(idle_pools[e])
      PROVE  /\ idle_pools[e][i] \in Conns /\ idle_pools[e][i] # sess[s].up
             /\ socks[idle_pools[e][i]].open
  <2>1. idle_pools[e] \in Seq(Conns) /\ idle_pools[e][i] \in Conns
    BY <1>1 DEF Types
  <2>2. Peers(socks)[idle_pools[e][i]] = e /\ idle_pools[e][i] # sess[s].up
    BY <1>1 DEF P!PooledOnce, P!Endpoints, Endpoints
  <2> QED
    BY <1>3, <2>1, <2>2
<1> QED
  BY <1>4, <1>5

\* A session that does not use its connection for a request says nothing of it.
LEMMA NotWired ==
  ASSUME NEW x, ~UsesUpstream(x), NEW s, NEW k
  PROVE  Wired(s, x, k)
BY DEF Wired, UsesUpstream

\* A step of the others: a server closes, and has all it had.
LEMMA ServerClosesStream ==
  ASSUME SoundInv, NEW c \in Conns, ServerCloses(c)
  PROVE  sess' = sess /\ (WireInv => WireInv')
<1>1. /\ sess' = sess /\ idle_pools' = idle_pools /\ socks' = [socks EXCEPT ![c].alive = FALSE]
      /\ socks \in [Conns -> Sockets] /\ idle_pools \in [Endpoints -> Seq(Conns)]
  BY DEF ServerCloses, PeerCloses, SoundInv, OwnInv, Types
<1>2. \A d \in Conns : /\ socks'[d].rx = socks[d].rx /\ socks'[d].due = socks[d].due
                       /\ socks'[d].alive => socks[d].alive
  BY <1>1 DEF Sockets
<1>3. ASSUME WireInv PROVE WireInv'
  <2>1. ASSUME NEW s \in Sessions PROVE Wired(s, sess[s], socks'[sess[s].up])
    <3>1. Wired(s, sess[s], socks[sess[s].up]) /\ Linked(sess[s], Peers(socks))
          /\ sess[s].up \in Conns \cup {NoConn}
      BY <1>3, InvTypes DEF WireInv, SoundInv
    <3>2. CASE ~UsesUpstream(sess[s])
      BY <3>2, NotWired
    <3>3. CASE UsesUpstream(sess[s])
      <4>1. sess[s].up \in Conns
        BY <3>1, <3>3 DEF Linked
      <4> DEFINE k == socks[sess[s].up]
                 l == socks'[sess[s].up]
      <4>2. l.rx = k.rx /\ l.due = k.due /\ (l.alive => k.alive) /\ Wired(s, sess[s], k)
        BY <1>2, <3>1, <4>1
      <4> HIDE DEF k, l
      <4>3. Wired(s, sess[s], l)
        BY <4>2 DEF Wired, Quiet
      <4> QED
        BY <4>3 DEF l
    <3> QED
      BY <3>2, <3>3
  <2>2. PooledQuiescent'
    <3>1. ASSUME NEW e \in Endpoints, NEW i \in 1..Len(idle_pools[e])
          PROVE  socks'[idle_pools[e][i]].rx = 0 /\ socks'[idle_pools[e][i]].due = <<>>
      BY <1>1, <1>2, <1>3 DEF WireInv, PooledQuiescent
    <3> QED
      BY <1>1, <3>1 DEF PooledQuiescent
  <2> QED
    BY <1>1, <1>3, <2>1, <2>2 DEF WireInv
<1> QED
  BY <1>1, <1>3

\* A step of one session leaves the others, their connections and the pooled ones
\* as they are.
LEMMA SessionStream ==
  ASSUME SoundInv, NEW s \in Sessions, start(s) \/ Handler(s)
  PROVE  /\ \A t \in Sessions : Sound(sess'[t])
         /\ SoundStep(s) /\ \A t \in Sessions \ {s} : sess'[t] = sess[t]
         /\ WireInv => WireInv'
<1>1. SoundStep(s) /\ (WireInv => WireStep(s))
  BY HandlerStream
<1>2. \A t \in Sessions \ {s} : sess'[t] = sess[t]
  BY HandlerStep DEF Good, SoundInv
<1>3. \A t \in Sessions : Sound(sess'[t])
  BY <1>1, <1>2 DEF SoundStep, SoundInv
<1>4. ASSUME WireInv PROVE WireInv'
  <2>1. /\ \A d \in Conns : socks'[d] = socks[d] \/ d = sess[s].up \/ ~socks[d].open
        /\ Wired(s, sess'[s], socks'[sess'[s].up])
        /\ \A e \in Endpoints : \A i \in 1..Len(idle_pools'[e]) :
             \/ \E k \in 1..Len(idle_pools[e]) : idle_pools[e][k] = idle_pools'[e][i]
             \/ idle_pools'[e][i] = sess[s].up /\ Quiet(socks'[idle_pools'[e][i]])
    BY <1>1, <1>4 DEF WireStep
  <2>2. /\ \A t \in Sessions \ {s} : UsesUpstream(sess[t]) =>
             /\ sess[t].up \in Conns /\ sess[t].up # sess[s].up /\ socks[sess[t].up].open
        /\ \A e \in Endpoints : \A i \in 1..Len(idle_pools[e]) :
             /\ idle_pools[e][i] \in Conns /\ idle_pools[e][i] # sess[s].up
             /\ socks[idle_pools[e][i]].open
    BY Apart DEF SoundInv
  <2>3. ASSUME NEW t \in Sessions PROVE Wired(t, sess'[t], socks'[sess'[t].up])
    <3>1. CASE t = s
      BY <2>1, <3>1
    <3>2. CASE t # s /\ ~UsesUpstream(sess[t])
      BY <1>2, <3>2, NotWired
    <3>3. CASE t # s /\ UsesUpstream(sess[t])
      <4>1. socks'[sess[t].up] = socks[sess[t].up]
        BY <2>1, <2>2, <3>3
      <4> QED
        BY <1>2, <1>4, <3>3, <4>1 DEF WireInv
    <3> QED
      BY <3>1, <3>2, <3>3
  <2>4. ASSUME NEW e \in Endpoints, NEW i \in 1..Len(idle_pools'[e])
        PROVE  Quiet(socks'[idle_pools'[e][i]])
    <3>1. CASE \E k \in 1..Len(idle_pools[e]) : idle_pools[e][k] = idle_pools'[e][i]
      <4>1. PICK k \in 1..Len(idle_pools[e]) : idle_pools[e][k] = idle_pools'[e][i]
        BY <3>1
      <4>2. socks'[idle_pools[e][k]] = socks[idle_pools[e][k]]
        BY <2>1, <2>2
      <4> QED
        BY <1>4, <4>1, <4>2 DEF WireInv, PooledQuiescent, Quiet
    <3> QED
      BY <2>1, <3>1
  <2>5. PooledQuiescent'
    BY <2>4 DEF PooledQuiescent, Quiet
  <2> QED
    BY <1>4, <2>3, <2>5 DEF WireInv
<1> QED
  BY <1>1, <1>2, <1>3, <1>4

\* The initial state.
LEMMA StreamInit == Init => SoundInv /\ (NoInterim => WireInv)
<1> SUFFICES ASSUME Init PROVE SoundInv /\ (NoInterim => WireInv)
  OBVIOUS
<1>1. FreshSession = [FreshSession EXCEPT !.pend = "unborn"]
  BY DEF FreshSession
<1>2. SoundInv
  BY <1>1, InitStep, NewSound DEF SoundInv, Init
<1>3. \A s \in Sessions : ~UsesUpstream(sess[s])
  BY DEF Init, FreshSession, UsesUpstream
<1>4. PooledQuiescent
  BY DEF Init, InitUpstream, PooledQuiescent
<1> QED
  BY <1>2, <1>3, <1>4, NotWired DEF WireInv

\* What a step of some session keeps to.
StepsWell ==
  \A s \in Sessions :
    /\ sess'[s].rt.used /\ ~sess[s].rt.used => Invisible(sess[s])
    /\ sess'[s].num > sess[s].num => Honest(sess[s])

\* Every step.
LEMMA StreamNext == SoundInv /\ [Next]_vars => SoundInv' /\ StepsWell /\ (WireInv => WireInv')
<1> SUFFICES ASSUME SoundInv, [Next]_vars PROVE SoundInv' /\ StepsWell /\ (WireInv => WireInv')
  OBVIOUS
<1>0. OwnInv' /\ \A s \in Sessions : sess[s].num \in Nat
  BY NextStep, InvTypes DEF SoundInv, SessionStates
<1>1. CASE UNCHANGED vars
  <2>1. /\ sess' = sess /\ socks' = socks /\ idle_pools' = idle_pools
    BY <1>1 DEF vars
  <2>2. SoundInv' /\ StepsWell
    BY <1>0, <2>1 DEF SoundInv, StepsWell
  <2>3. WireInv => WireInv'
    BY <2>1 DEF WireInv, PooledQuiescent
  <2> QED
    BY <2>2, <2>3
<1>2. CASE \E c \in Conns : ServerCloses(c)
  <2>1. sess' = sess /\ (WireInv => WireInv')
    BY <1>2, ServerClosesStream
  <2>2. SoundInv' /\ StepsWell
    BY <1>0, <2>1 DEF SoundInv, StepsWell
  <2> QED
    BY <2>1, <2>2
<1>3. ASSUME NEW s \in Sessions, start(s) \/ Handler(s)
      PROVE  SoundInv' /\ StepsWell /\ (WireInv => WireInv')
  <2>1. /\ \A t \in Sessions : Sound(sess'[t])
        /\ SoundStep(s) /\ \A t \in Sessions \ {s} : sess'[t] = sess[t]
        /\ WireInv => WireInv'
    BY <1>3, SessionStream
  <2>2. SoundInv'
    BY <1>0, <2>1 DEF SoundInv
  <2>3. StepsWell
    BY <1>0, <2>1 DEF SoundStep, StepsWell
  <2> QED
    BY <2>1, <2>2, <2>3
<1> QED
  BY <1>1, <1>2, <1>3 DEF Next

\* A retry begins only while the client has been sent nothing of the failed attempt:
\* no head and no part of a response, whatever fails and whenever.
THEOREM RetriesAreInvisible == Spec => RetryIsInvisible
<1>1. SoundInv /\ [Next]_vars =>
        [\A s \in Sessions : sess'[s].rt.used /\ ~sess[s].rt.used =>
           sess[s].rs.heads = 0 /\ ~sess[s].rs.started]_vars
  BY StreamNext DEF StepsWell, Invisible
<1> QED
  BY <1>1, StreamInit, StreamNext, PTL DEF Spec, RetryIsInvisible

\* The next request is awaited only when the client asked for keep-alive and has been
\* sent one complete response whose end it can tell.
THEOREM KeepsAliveHonestly == Spec => KeepAliveHonest
<1>1. SoundInv /\ [Next]_vars =>
        [\A s \in Sessions : sess'[s].num > sess[s].num =>
           LET x == sess[s]
           IN /\ x.rq.keep /\ x.rq.done
              /\ x.rs.done /\ FullyPulled(x.rs.ser) /\ x.rs.heads = 1
              /\ ~x.rs.direct /\ x.rs.framing \in {"length", "chunked"}]_vars
  BY StreamNext DEF StepsWell, Honest
<1> QED
  BY <1>1, StreamInit, StreamNext, PTL DEF Spec, KeepAliveHonest

\* A request reaches a server completely at most twice, and twice only when its one
\* retry is spent on a snapshot that held all of it: however often connections fail,
\* and whatever filters and clients do.
THEOREM AtMostTwice == Spec => []RunsAtMostTwice
<1>1. SoundInv => RunsAtMostTwice
  BY DEF SoundInv, Sound, RunsSound, RunsAtMostTwice
<1> QED
  BY <1>1, StreamInit, StreamNext, PTL DEF Spec

\* A body with a Content-Length is relayed whole, in both directions, for every size
\* of body, read, buffer and watermark and for every choice of the filters.
THEOREM BodiesWhole == Spec => []DeclaredBodyWhole
<1>1. ASSUME SoundInv, NEW s \in Sessions
      PROVE  LET x == sess[s] IN
             /\ x.rq.framing = "length" /\ x.rq.ser.last => x.rq.given = x.rq.len
             /\ x.rs.framing = "length" /\ ~x.rs.direct /\ x.rs.ser.last => x.rs.given = x.rs.len
  <2> DEFINE x == sess[s]
  <2>1. RequestSound(x.rq) /\ ResponseSound(x.rs, x.rq.keep)
    BY <1>1 DEF SoundInv, Sound
  <2>2. CASE x.rs.started
    BY <2>1, <2>2 DEF RequestSound, ResponseSound, RelaySound
  <2>3. CASE ~x.rs.started
    <3>0. x.rs = FreshResponse
      BY <2>1, <2>3 DEF ResponseSound
    <3>1. x.rs.ser = StartSerializer(FALSE)
      BY <3>0 DEF FreshResponse
    <3>2. ~x.rs.ser.last
      BY <3>1, StartSound
    <3> QED
      BY <2>1, <3>2 DEF RequestSound
  <2> QED
    BY <2>2, <2>3
<1>2. SoundInv => DeclaredBodyWhole
  BY <1>1 DEF DeclaredBodyWhole
<1> QED
  BY <1>2, StreamInit, StreamNext, PTL DEF Spec

\* A connection in the pool has nothing outstanding, provided no server sends an
\* interim (1xx) response: the session takes one for the answer.
THEOREM PoolIsQuiescent == ASSUME NoInterim PROVE Spec => []PooledQuiescent
<1>1. WireInv => PooledQuiescent
  BY DEF WireInv
<1> QED
  BY <1>1, StreamInit, StreamNext, PTL DEF Spec

\* With the same proviso, a session waits on a server that owes exactly its answer.
THEOREM OwnAnswerAwaited == ASSUME NoInterim PROVE Spec => []AwaitsOwnAnswer
<1>1. WireInv => AwaitsOwnAnswer
  BY DEF WireInv, Wired, AwaitsOwnAnswer
<1> QED
  BY <1>1, StreamInit, StreamNext, PTL DEF Spec

\* With the same proviso, what the server has of a request is what has been written,
\* from its first unit on and without a gap.
THEOREM StreamIsContiguous == ASSUME NoInterim PROVE Spec => []StreamContiguous
<1>1. \A x : PulledSoFar(x) = Sent(x.rq)
  BY DEF PulledSoFar, Sent, LastFrame
<1>2. WireInv => StreamContiguous
  BY <1>1 DEF WireInv, Wired, StreamContiguous
<1> QED
  BY <1>2, StreamInit, StreamNext, PTL DEF Spec

-----------------------------------------------------------------------------
(***************************************************************************)
(* The counters.                                                           *)
(***************************************************************************)
OpenOnes == {s \in Sessions : Open(s)}

\* Sessions whose request, already counted, may still be retried.
Untried == {s \in Sessions : sess[s].rq.started /\ ~sess[s].rt.used}

\* The inductive invariant: a retry uses up what its request was counted for.
CountInv ==
  /\ IsFiniteSet(OpenOnes) /\ metrics.active = Cardinality(OpenOnes)
  /\ metrics.accepted = metrics.active + metrics.closed
  /\ 0 <= metrics.errors /\ metrics.errors <= metrics.closed /\ 0 <= metrics.retries
  /\ IsFiniteSet(Untried) /\ metrics.retries + Cardinality(Untried) <= metrics.requests

\* A finite set to which one element is added, or from which one is taken.
LEMMA OneMore ==
  ASSUME NEW S, IsFiniteSet(S), NEW T, NEW s
  PROVE  /\ Cardinality(S) \in Nat
         /\ T = S \cup {s} =>
              /\ IsFiniteSet(T) /\ Cardinality(T) \in Nat /\ Cardinality(T) <= Cardinality(S) + 1
              /\ s \notin S => Cardinality(T) = Cardinality(S) + 1
         /\ T = S \ {s} =>
              /\ IsFiniteSet(T) /\ Cardinality(T) \in Nat /\ Cardinality(T) <= Cardinality(S)
              /\ s \in S => Cardinality(T) = Cardinality(S) - 1
<1>1. Cardinality(S) \in Nat
  BY FS_CardinalityType
<1>2. /\ IsFiniteSet(S \cup {s})
      /\ Cardinality(S \cup {s}) = IF s \in S THEN Cardinality(S) ELSE Cardinality(S) + 1
  BY FS_AddElement
<1>3. /\ IsFiniteSet(S \ {s})
      /\ Cardinality(S \ {s}) = IF s \in S THEN Cardinality(S) - 1 ELSE Cardinality(S)
  BY FS_RemoveElement
<1>4. Cardinality(S \cup {s}) \in Nat /\ Cardinality(S \ {s}) \in Nat
  BY <1>2, <1>3, FS_CardinalityType
<1> QED
  BY <1>1, <1>2, <1>3, <1>4

\* The counter a handler leaves before it may close, and when it does so.
Tally(s, x, m) ==
  \/ m = metrics /\ (sess[s].rq.started \/ x.pend = "closed")
  \/ m = Counted("requests")
  \/ m = Counted("errors") /\ x.pend = "closed"
  \/ /\ m = Counted("retries") /\ sess[s].rq.started /\ ~sess[s].rt.used
     /\ x.pend # "closed" /\ x.rt.used

\* What counting one event and closing do to each counter.
LEMMA CounterFields ==
  ASSUME metrics \in MetricsTypes
  PROVE  /\ \A m \in MetricsTypes :
              LET k == AfterClose(m) IN
              /\ k.accepted = m.accepted /\ k.active = m.active - 1 /\ k.closed = m.closed + 1
              /\ k.requests = m.requests /\ k.errors = m.errors /\ k.retries = m.retries
         /\ LET k == Counted("requests") IN
              /\ k.accepted = metrics.accepted /\ k.active = metrics.active
              /\ k.closed = metrics.closed /\ k.requests = metrics.requests + 1
              /\ k.errors = metrics.errors /\ k.retries = metrics.retries
         /\ LET k == Counted("errors") IN
              /\ k.accepted = metrics.accepted /\ k.active = metrics.active
              /\ k.closed = metrics.closed /\ k.requests = metrics.requests
              /\ k.errors = metrics.errors + 1 /\ k.retries = metrics.retries
         /\ LET k == Counted("retries") IN
              /\ k.accepted = metrics.accepted /\ k.active = metrics.active
              /\ k.closed = metrics.closed /\ k.requests = metrics.requests
              /\ k.errors = metrics.errors /\ k.retries = metrics.retries + 1
         /\ LET k == AfterAccept(metrics) IN
              /\ k.accepted = metrics.accepted + 1 /\ k.active = metrics.active + 1
              /\ k.closed = metrics.closed /\ k.requests = metrics.requests
              /\ k.errors = metrics.errors /\ k.retries = metrics.retries
<1>1. \A m \in MetricsTypes :
        LET k == AfterClose(m) IN
        /\ k.accepted = m.accepted /\ k.active = m.active - 1 /\ k.closed = m.closed + 1
        /\ k.requests = m.requests /\ k.errors = m.errors /\ k.retries = m.retries
  BY DEF AfterClose, MetricsTypes
<1>2. LET k == Counted("requests") IN
      /\ k.accepted = metrics.accepted /\ k.active = metrics.active
      /\ k.closed = metrics.closed /\ k.requests = metrics.requests + 1
      /\ k.errors = metrics.errors /\ k.retries = metrics.retries
  BY DEF Counted, MetricsTypes
<1>3. LET k == Counted("errors") IN
      /\ k.accepted = metrics.accepted /\ k.active = metrics.active
      /\ k.closed = metrics.closed /\ k.requests = metrics.requests
      /\ k.errors = metrics.errors + 1 /\ k.retries = metrics.retries
  BY DEF Counted, MetricsTypes
<1>4. LET k == Counted("retries") IN
      /\ k.accepted = metrics.accepted /\ k.active = metrics.active
      /\ k.closed = metrics.closed /\ k.requests = metrics.requests
      /\ k.errors = metrics.errors /\ k.retries = metrics.retries + 1
  BY DEF Counted, MetricsTypes
<1>5. LET k == AfterAccept(metrics) IN
      /\ k.accepted = metrics.accepted + 1 /\ k.active = metrics.active + 1
      /\ k.closed = metrics.closed /\ k.requests = metrics.requests
      /\ k.errors = metrics.errors /\ k.retries = metrics.retries
  BY DEF AfterAccept, MetricsTypes
<1> QED
  BY <1>1, <1>2, <1>3, <1>4, <1>5

\* The end of every handler keeps the books.
LEMMA SettleCounts ==
  ASSUME SoundInv, CountInv, NEW s \in Sessions, Open(s), SoundStep(s),
         NEW x, NEW sk, NEW pl, NEW m, Settle(s, x, sk, pl, m), Tally(s, x, m)
  PROVE  CountInv'
<1> DEFINE O == {t \in Sessions : sess'[t].pend \notin {"unborn", "closed"}}
           U == {t \in Sessions : sess'[t].rq.started /\ ~sess'[t].rt.used}
<1>0. /\ Types /\ metrics \in MetricsTypes /\ \A t \in Sessions \ {s} : sess'[t] = sess[t]
      /\ sess'[s] = IF x.pend = "closed" THEN ClosedSession ELSE x
  BY OthersKept, InvTypes DEF SoundInv
<1>1. /\ metrics.accepted \in Int /\ metrics.active \in Int /\ metrics.closed \in Int
      /\ metrics.requests \in Int /\ metrics.errors \in Int /\ metrics.retries \in Int
  BY <1>0 DEF MetricsTypes
<1>2. m \in MetricsTypes
  BY <1>0, MetricsType DEF Tally
<1>3. metrics' = IF x.pend = "closed" THEN AfterClose(m) ELSE m
  BY DEF Settle
<1>4. O = OpenOnes' /\ U = Untried'
  BY DEF OpenOnes, Untried, Open
<1>5. IF x.pend = "closed" THEN O = OpenOnes \ {s} ELSE O = OpenOnes
  <2>1. CASE x.pend = "closed"
    BY <1>0, <2>1, ClosedSound DEF OpenOnes, Open
  <2>2. CASE x.pend # "closed"
    BY <1>0, <2>2 DEF OpenOnes, Open, SoundStep
  <2> QED
    BY <2>1, <2>2
<1>6. /\ s \in U /\ sess[s].rq.started => s \in Untried
      /\ U = Untried \cup {s} \/ U = Untried \ {s}
  BY <1>0 DEF Untried, SoundStep
<1>7. x.pend = "closed" \/ x.rt.used => U = Untried \ {s}
  BY <1>0, <1>6, ClosedSound DEF Untried
<1>8. s \in OpenOnes
  BY DEF OpenOnes
<1> DEFINE o == Cardinality(OpenOnes)
           u == Cardinality(Untried)
<1>9. /\ o \in Nat /\ IsFiniteSet(O) /\ Cardinality(O) = IF x.pend = "closed" THEN o - 1 ELSE o
  BY <1>5, <1>8, OneMore DEF CountInv
<1>10. /\ u \in Nat /\ IsFiniteSet(U) /\ Cardinality(U) \in Nat /\ Cardinality(U) <= u + 1
       /\ sess[s].rq.started => Cardinality(U) <= u
       /\ U = Untried \ {s} => Cardinality(U) <= u /\ (s \in Untried => Cardinality(U) = u - 1)
  <2>1. IsFiniteSet(Untried)
    BY DEF CountInv
  <2>2. CASE U = Untried \ {s}
    BY <2>1, <2>2, OneMore
  <2>3. CASE U = Untried \cup {s}
    <3>1. IsFiniteSet(U) /\ Cardinality(U) \in Nat /\ Cardinality(U) <= u + 1 /\ u \in Nat
      BY <2>1, <2>3, OneMore
    <3>2. sess[s].rq.started => Cardinality(U) <= u
      <4>1. SUFFICES ASSUME sess[s].rq.started PROVE Cardinality(U) <= u
        OBVIOUS
      <4>2. U = Untried
        BY <1>6, <2>3, <4>1
      <4> HIDE DEF U
      <4>3. Cardinality(U) = u
        BY <4>2
      <4> HIDE DEF u
      <4> QED
        BY <3>1, <4>3
    <3>3. U # Untried \ {s}
      BY <2>3
    <3> QED
      BY <3>1, <3>2, <3>3
  <2> QED
    BY <1>6, <2>2, <2>3
<1>11. /\ metrics.active = o /\ metrics.accepted = metrics.active + metrics.closed
       /\ metrics.errors <= metrics.closed /\ metrics.retries + u <= metrics.requests
       /\ 0 <= metrics.errors /\ 0 <= metrics.retries
  BY DEF CountInv
<1>12. /\ metrics'.accepted = m.accepted /\ metrics'.requests = m.requests
       /\ metrics'.errors = m.errors /\ metrics'.retries = m.retries
       /\ metrics'.active = IF x.pend = "closed" THEN m.active - 1 ELSE m.active
       /\ metrics'.closed = IF x.pend = "closed" THEN m.closed + 1 ELSE m.closed
  BY <1>0, <1>2, <1>3, CounterFields
<1> HIDE DEF O, U, o, u
<1>13. /\ m.accepted = metrics.accepted /\ m.active = metrics.active /\ m.closed = metrics.closed
       /\ m.errors = metrics.errors \/ (m.errors = metrics.errors + 1 /\ x.pend = "closed")
       /\ m.retries = metrics.retries \/ m.retries = metrics.retries + 1
  BY <1>0, CounterFields DEF Tally
<1>14. m.retries + Cardinality(U) <= m.requests
  <2>1. CASE m = metrics /\ (sess[s].rq.started \/ x.pend = "closed")
    BY <1>1, <1>7, <1>10, <1>11, <2>1
  <2>2. CASE m = Counted("requests")
    <3>1. m.retries = metrics.retries /\ m.requests = metrics.requests + 1
      BY <1>0, <2>2, CounterFields
    <3> QED
      BY <1>1, <1>10, <1>11, <3>1
  <2>3. CASE m = Counted("errors") /\ x.pend = "closed"
    <3>1. m.retries = metrics.retries /\ m.requests = metrics.requests
      BY <1>0, <2>3, CounterFields
    <3> QED
      BY <1>1, <1>7, <1>10, <1>11, <2>3, <3>1
  <2>4. CASE /\ m = Counted("retries") /\ sess[s].rq.started /\ ~sess[s].rt.used
             /\ x.pend # "closed" /\ x.rt.used
    <3>1. m.retries = metrics.retries + 1 /\ m.requests = metrics.requests
      BY <1>0, <2>4, CounterFields
    <3>2. Cardinality(U) = u - 1
      BY <1>7, <1>10, <2>4 DEF Untried
    <3> QED
      BY <1>1, <1>10, <1>11, <3>1, <3>2
  <2> QED
    BY <2>1, <2>2, <2>3, <2>4 DEF Tally
<1>15. /\ metrics'.active = Cardinality(O) /\ metrics'.accepted = metrics'.active + metrics'.closed
       /\ metrics'.errors <= metrics'.closed /\ 0 <= metrics'.errors /\ 0 <= metrics'.retries
  BY <1>1, <1>9, <1>11, <1>12, <1>13
<1> QED
  BY <1>4, <1>9, <1>10, <1>12, <1>14, <1>15 DEF CountInv

\* Each handler counts at most one event before it may close.
LEMMA HandlerTallies ==
  ASSUME SoundInv, NEW s \in Sessions, Handler(s)
  PROVE  /\ Open(s)
         /\ \E x, sk, pl, m : Settle(s, x, sk, pl, m) /\ Tally(s, x, m)
<1> DEFINE T == \E x, sk, pl, m : Settle(s, x, sk, pl, m) /\ Tally(s, x, m)
<1>1. sess[s] \in SessionStates /\ sess[s].rt \in RetryStates /\ PhaseSound(sess[s])
  BY InvTypes DEF SoundInv, Sound, SessionStates
<1>2. sess[s].pend \notin {"unborn", "closed", "read_down"} => sess[s].rq.started
  BY <1>1 DEF PhaseSound
<1>3. \/ HeadCounted(sess[s]) = Counted("requests")
      \/ sess[s].rq.started /\ HeadCounted(sess[s]) = metrics
  BY DEF HeadCounted
<1>4. ASSUME NEW m, Closes(s, m), m = metrics \/ m = Counted("requests") \/ m = Counted("errors")
      PROVE  T
  <2>1. [sess[s] EXCEPT !.pend = "closed"].pend = "closed"
    BY <1>1 DEF SessionStates
  <2> QED
    BY <1>4, <2>1 DEF Closes, Tally
<1>5. ASSUME NEW p, Retries(s, p), p # "closed", sess[s].rq.started, ~sess[s].rt.used PROVE T
  <2> DEFINE y == [sess[s] EXCEPT !.rt.used = TRUE, !.up = NoConn, !.pend = p]
  <2>1. y.pend = p /\ y.rt = [sess[s].rt EXCEPT !.used = TRUE]
    BY <1>1 DEF SessionStates, RetryStates
  <2>2. y.rt.used
    BY <1>1, <2>1 DEF RetryStates
  <2>3. Settle(s, y, Dropped(socks, sess[s].up), idle_pools, Counted("retries"))
    BY <1>5 DEF Retries
  <2> HIDE DEF y
  <2> QED
    BY <1>5, <2>1, <2>2, <2>3 DEF Tally
<1>6. ASSUME NEW x, NEW sk, NEW pl, Settle(s, x, sk, pl, metrics), sess[s].rq.started PROVE T
  BY <1>6 DEF Tally
<1>7. CASE RequestChunk(s) \/ RequestRefused(s)
  <2>1. \E x, sk, pl : Settle(s, x, sk, pl, HeadCounted(sess[s]))
    BY <1>7 DEF RequestChunk, RequestRefused, connect_upstream
  <2>2. sess[s].pend = "read_down"
    BY <1>7 DEF RequestChunk, RequestRefused
  <2> QED
    BY <1>3, <2>1, <2>2 DEF Tally, Open
<1>8. CASE RequestReadFails(s) \/ ConnectFails(s) \/ RewriteFails(s) \/ ResponseMalformed(s)
           \/ ClientGone(s)
  BY <1>3, <1>4, <1>8
     DEF RequestReadFails, ConnectFails, RewriteFails, ResponseMalformed, ClientGone, Answering, Open
<1>9. CASE WriteFails(s)
  BY <1>2, <1>4, <1>5, <1>9 DEF WriteFails, MayRetryWrite, Open
<1>10. CASE ResponseReadFails(s)
  BY <1>2, <1>4, <1>5, <1>10 DEF ResponseReadFails, MayRetryRead, Open
<1>11. CASE \/ ConnectSucceeds(s) \/ WriteSucceeds(s) \/ ReconnectSucceeds(s)
            \/ SnapshotWritten(s) \/ ResponseHeadBegins(s)
  BY <1>2, <1>6, <1>11
     DEF ConnectSucceeds, WriteSucceeds, ReconnectSucceeds, SnapshotWritten, ResponseHeadBegins,
         Answering, Open
<1>12. CASE ResponseChunk(s) \/ ResponseRefused(s) \/ ResponseWritten(s)
  BY <1>2, <1>6, <1>12
     DEF ResponseChunk, ResponseRefused, ResponseWritten, pull_and_write_response, Answering, Open
<1> QED
  BY <1>7, <1>8, <1>9, <1>10, <1>11, <1>12 DEF Handler

\* A session that starts is one more, and open.
LEMMA StartCounts ==
  ASSUME SoundInv, CountInv, NEW s \in Sessions, start(s)
  PROVE  CountInv'
<1> DEFINE x == [FreshSession EXCEPT !.pend = "read_down"]
           O == {t \in Sessions : sess'[t].pend \notin {"unborn", "closed"}}
           U == {t \in Sessions : sess'[t].rq.started /\ ~sess'[t].rt.used}
<1>0. /\ metrics \in MetricsTypes /\ sess' = [sess EXCEPT ![s] = x]
      /\ sess[s].pend = "unborn" /\ metrics' = AfterAccept(metrics)
  BY InvTypes DEF SoundInv, start
<1>1. x.pend = "read_down" /\ x.rq = FreshRequest /\ ~FreshRequest.started
  BY DEF FreshSession, FreshRequest
<1>2. sess'[s] = x /\ \A t \in Sessions \ {s} : sess'[t] = sess[t]
  BY <1>0 DEF SoundInv, OwnInv, Types
<1> HIDE DEF x
<1>3. O = OpenOnes \cup {s} /\ s \notin OpenOnes
  BY <1>0, <1>1, <1>2 DEF OpenOnes, Open
<1>4. U = Untried \ {s}
  BY <1>1, <1>2 DEF Untried
<1>5. O = OpenOnes' /\ U = Untried'
  BY DEF OpenOnes, Untried, Open
<1> DEFINE o == Cardinality(OpenOnes)
           u == Cardinality(Untried)
<1>6. o \in Nat /\ IsFiniteSet(O) /\ Cardinality(O) = o + 1
  BY <1>3, OneMore DEF CountInv
<1>7. u \in Nat /\ IsFiniteSet(U) /\ Cardinality(U) \in Nat /\ Cardinality(U) <= u
  BY <1>4, OneMore DEF CountInv
<1>8. /\ metrics'.accepted = metrics.accepted + 1 /\ metrics'.active = metrics.active + 1
      /\ metrics'.closed = metrics.closed /\ metrics'.requests = metrics.requests
      /\ metrics'.errors = metrics.errors /\ metrics'.retries = metrics.retries
  BY <1>0, CounterFields
<1>9. /\ metrics.accepted \in Int /\ metrics.active \in Int /\ metrics.closed \in Int
      /\ metrics.requests \in Int /\ metrics.errors \in Int /\ metrics.retries \in Int
  BY <1>0 DEF MetricsTypes
<1>10. /\ metrics.active = o /\ metrics.accepted = metrics.active + metrics.closed
       /\ metrics.errors <= metrics.closed /\ metrics.retries + u <= metrics.requests
       /\ 0 <= metrics.errors /\ 0 <= metrics.retries
  BY DEF CountInv
<1> HIDE DEF O, U, o, u
<1>11. /\ metrics'.active = Cardinality(O) /\ metrics'.accepted = metrics'.active + metrics'.closed
       /\ metrics'.errors <= metrics'.closed
       /\ metrics'.retries + Cardinality(U) <= metrics'.requests
       /\ 0 <= metrics'.errors /\ 0 <= metrics'.retries
  BY <1>6, <1>7, <1>8, <1>9, <1>10
<1> QED
  BY <1>5, <1>6, <1>7, <1>11 DEF CountInv

\* CountInv holds throughout every behaviour.
LEMMA CountInvariant == Spec => [](SoundInv /\ CountInv)
<1>1. Init => CountInv
  <2> SUFFICES ASSUME Init PROVE CountInv
    OBVIOUS
  <2>1. OpenOnes = {} /\ Untried = {}
    BY DEF Init, OpenOnes, Untried, Open, FreshSession, FreshRequest
  <2>2. IsFiniteSet({}) /\ Cardinality({}) = 0
    BY FS_EmptySet
  <2>3. /\ metrics.accepted = 0 /\ metrics.active = 0 /\ metrics.closed = 0
        /\ metrics.requests = 0 /\ metrics.errors = 0 /\ metrics.retries = 0
    BY DEF Init
  <2> QED
    BY <2>1, <2>2, <2>3 DEF CountInv
<1>2. SoundInv /\ CountInv /\ [Next]_vars => CountInv'
  <2> SUFFICES ASSUME SoundInv, CountInv, [Next]_vars PROVE CountInv'
    OBVIOUS
  <2>1. CASE UNCHANGED <<sess, metrics>>
    BY <2>1 DEF CountInv, OpenOnes, Untried, Open
  <2>2. ASSUME NEW s \in Sessions, start(s) PROVE CountInv'
    BY <2>2, StartCounts
  <2>3. ASSUME NEW s \in Sessions, Handler(s) PROVE CountInv'
    <3>1. Open(s) /\ SoundStep(s)
      BY <2>3, HandlerTallies, HandlerStream
    <3>2. \E x, sk, pl, m : Settle(s, x, sk, pl, m) /\ Tally(s, x, m)
      BY <2>3, HandlerTallies
    <3> QED
      BY <3>1, <3>2, SettleCounts
  <2> QED
    BY <2>1, <2>2, <2>3 DEF Next, ServerCloses, vars
<1> QED
  BY <1>1, <1>2, StreamInit, StreamNext, PTL DEF Spec

\* The counters add up in every state, for any number of sessions.
THEOREM CountersAgree == Spec => []CountersAddUp
<1>1. SoundInv /\ CountInv => CountersAddUp
  <2> SUFFICES ASSUME SoundInv, CountInv PROVE CountersAddUp
    OBVIOUS
  <2>1. metrics \in MetricsTypes
    BY DEF SoundInv, OwnInv, Types, MetricsTypes
  <2>2. metrics.retries \in Int /\ metrics.requests \in Int /\ Cardinality(Untried) \in Nat
    BY <2>1, FS_CardinalityType DEF CountInv, MetricsTypes
  <2>3. metrics.retries <= metrics.requests
    BY <2>2 DEF CountInv
  <2>4. OpenOnes = {s \in Sessions : Open(s)}
    BY DEF OpenOnes
  <2> QED
    BY <2>3, <2>4 DEF CountInv, CountersAddUp
<1> QED
  BY <1>1, CountInvariant, PTL

\* The shard's state is well-typed in every reachable state: no field of a session
\* gets out of range, and no counter, connections_active included, goes below zero.
THEOREM TypeCorrect == Spec => []TypeOK
<1>1. SoundInv /\ CountInv => TypeOK
  <2> SUFFICES ASSUME SoundInv, CountInv PROVE TypeOK
    OBVIOUS
  <2>1. Types
    BY DEF SoundInv, OwnInv
  <2>2. metrics \in MetricsTypes
    BY <2>1 DEF Types
  <2>3. Cardinality(OpenOnes) \in Nat /\ Cardinality(Untried) \in Nat
    BY FS_CardinalityType DEF CountInv
  <2>4. /\ metrics.accepted \in Nat /\ metrics.active \in Nat /\ metrics.closed \in Nat
        /\ metrics.requests \in Nat /\ metrics.errors \in Nat /\ metrics.retries \in Nat
    <3>1. /\ metrics.accepted \in Int /\ metrics.active \in Int /\ metrics.closed \in Int
          /\ metrics.requests \in Int /\ metrics.errors \in Int /\ metrics.retries \in Int
      BY <2>2 DEF MetricsTypes
    <3> QED
      BY <2>3, <3>1 DEF CountInv
  <2>5. metrics \in [accepted : Nat, active : Nat, closed : Nat, requests : Nat,
                     errors : Nat, retries : Nat]
    BY <2>2, <2>4 DEF MetricsTypes
  <2> QED
    BY <2>1, <2>5 DEF Types, TypeOK
<1> QED
  BY <1>1, CountInvariant, PTL
-----------------------------------------------------------------------------
(***************************************************************************)
(* What is left to do.                                                     *)
(***************************************************************************)

\* No more is read of a message than it has.
Within(q) == q.started => q.got <= q.len /\ q.len <= MaxBody
Bounded(x) == Within(x.rq) /\ Within(x.rs)

\* What the fields of a session besides the two messages leave possible.
Chances(x) ==
  (IF x.rt.used THEN 0 ELSE 8) + (IF x.rt.any THEN 0 ELSE 1)
    + (IF x.rs.direct THEN 0 ELSE HeadUnits + MaxDirect + 8)

\* What a session is left as, coming from x: closed, at the next request, or with
\* less to do.
Advances(x, y) ==
  \/ y.pend = "closed"
  \/ Bounded(y) /\ y.num > x.num
  \/ Bounded(y) /\ ToDo(y) \in 0..(ToDo(x) - 1)

\* The parts are numbers.
LEMMA PartTypes ==
  ASSUME NEW x \in SessionStates, Bounded(x)
  PROVE  /\ ToRead(x.rq) \in Nat /\ ToRead(x.rs) \in Nat
         /\ ToWrite(x.rq) \in Nat /\ ToWrite(x.rs) \in Nat
         /\ Chances(x) \in Nat /\ Stage[x.pend] \in Nat
         /\ Work(x) = 9 * (ToRead(x.rq) + ToRead(x.rs)) + ToWrite(x.rq) + ToWrite(x.rs) + Chances(x)
         /\ Work(x) \in Nat /\ ToDo(x) = Work(x) + Stage[x.pend] /\ ToDo(x) \in Nat
<1>1. /\ x.rq \in RequestSides /\ x.rs \in ResponseSides /\ x.pend \in Pending
      /\ MaxBody \in Nat /\ MaxDirect \in Nat /\ HeadUnits \in Nat
  BY SessionAssumption, SerializerAssumption DEF SessionStates
<1>2. ToRead(x.rq) \in Nat /\ ToRead(x.rs) \in Nat
  BY <1>1 DEF ToRead, Bounded, Within, RequestSides, ResponseSides
<1>3. ToWrite(x.rq) \in Nat /\ ToWrite(x.rs) \in Nat
  BY <1>1 DEF ToWrite, RequestSides, ResponseSides, Serializers
<1>4. Chances(x) \in Nat
  BY <1>1 DEF Chances
<1>5. Stage[x.pend] \in Nat
  BY <1>1 DEF Stage, Pending
<1>6. Work(x) = 9 * (ToRead(x.rq) + ToRead(x.rs)) + ToWrite(x.rq) + ToWrite(x.rs) + Chances(x)
  <2>1. /\ (IF x.rt.used THEN 0 ELSE 8) \in Nat /\ (IF x.rt.any THEN 0 ELSE 1) \in Nat
        /\ (IF x.rs.direct THEN 0 ELSE HeadUnits + MaxDirect + 8) \in Nat
    BY <1>1
  <2> QED
    BY <1>2, <1>3, <2>1 DEF Work, Chances
<1> QED
  BY <1>2, <1>3, <1>4, <1>5, <1>6 DEF ToDo

\* A read brings some units of a message of which got have been read, and none
\* beyond its length.
LEMMA ReadsLess ==
  ASSUME NEW framing, NEW len \in Nat, NEW got \in Nat, got <= len,
         NEW a \in Arrivals(framing, len, got)
  PROVE  a.k \in Nat /\ a.end \in BOOLEAN /\ got + a.k <= len
BY SessionAssumption DEF Arrivals, Lesser

\* A pull takes off what it reports and leaves the rest.
LEMMA PullLeaves ==
  ASSUME NEW ser \in Serializers, SerSound(ser)
  PROVE  /\ Pulled(ser) \in Nat
         /\ pull(ser).head + pull(ser).pending = ser.head + ser.pending - Pulled(ser)
         /\ pull(ser).head \in Nat /\ pull(ser).pending \in Nat
         /\ ser.head \in Nat /\ ser.pending \in Nat
BY PullType, PullSound DEF Serializers

\* pull_and_write_request_to_upstream(): the write it starts carries some units, and
\* what else it may start is nearer to the end.
LEMMA PullRequestAdvances ==
  ASSUME NEW x \in SessionStates, SerSound(x.rq.ser), Within(x.rq), x.rs = FreshResponse
  PROVE  LET R == PullRequest(x) IN
         \/ R.pend = "closed"
         \/ Bounded(R) /\ ToDo(R) \in 0..(Work(x) + 4)
<1> DEFINE R == PullRequest(x)
           n == Pulled(x.rq.ser)
           ser == pull(x.rq.ser)
<1>1. /\ R \in SessionStates /\ x.rq \in RequestSides /\ x.rq.ser \in Serializers /\ x.rq.held \in Nat
  BY PullRequestType DEF SessionStates, RequestSides
<1>2. /\ R.num = x.num /\ R.rq = [x.rq EXCEPT !.ser = ser]
      /\ R.rt.used = x.rt.used /\ R.rt.any = x.rt.any
      /\ n > 0 => R.pend = "write_up" /\ R.rs = x.rs
      /\ n = 0 /\ done(ser) =>
           /\ R.pend = "read_up"
           /\ R.rs = [x.rs EXCEPT !.got = 0, !.done = FALSE, !.ser = StartSerializer(FALSE)]
      /\ n = 0 /\ ~done(ser) /\ ~x.rq.done => R.pend = "read_down" /\ R.rs = x.rs
      /\ n = 0 /\ ~done(ser) /\ x.rq.done => R.pend = "closed"
  BY PullRequestFields
<1>3. /\ n \in Nat /\ ser.head + ser.pending = x.rq.ser.head + x.rq.ser.pending - n
      /\ ser.head \in Nat /\ ser.pending \in Nat
      /\ x.rq.ser.head \in Nat /\ x.rq.ser.pending \in Nat
  BY <1>1, PullLeaves
<1> HIDE DEF R, n, ser
<1> SUFFICES ASSUME R.pend # "closed" PROVE Bounded(R) /\ ToDo(R) \in 0..(Work(x) + 4)
  BY DEF R
<1>4. R.rs = x.rs
  BY <1>2, <1>3, FreshFacts
<1>5. /\ R.rq.started = x.rq.started /\ R.rq.len = x.rq.len /\ R.rq.got = x.rq.got
      /\ R.rq.done = x.rq.done /\ R.rq.held = x.rq.held /\ R.rq.ser = ser
  BY <1>1, <1>2 DEF RequestSides
<1>6. Within(x.rs)
  BY FreshFacts DEF Within
<1>7. Bounded(x) /\ Bounded(R)
  BY <1>4, <1>5, <1>6 DEF Bounded, Within
<1>8. /\ ToRead(R.rq) = ToRead(x.rq) /\ ToRead(R.rs) = ToRead(x.rs) /\ ToWrite(R.rs) = ToWrite(x.rs)
      /\ Chances(R) = Chances(x)
  BY <1>2, <1>4, <1>5 DEF ToRead, Chances
<1>9. ToWrite(R.rq) = ToWrite(x.rq) - n
  BY <1>1, <1>3, <1>5 DEF ToWrite
<1>10. Work(R) = Work(x) - n /\ Work(x) \in Nat /\ ToDo(R) = Work(R) + Stage[R.pend] /\ ToDo(R) \in Nat
  BY <1>1, <1>3, <1>7, <1>8, <1>9, PartTypes
<1>11. (n > 0 /\ Stage[R.pend] = 5) \/ (n = 0 /\ Stage[R.pend] \in 0..4)
  <2>1. CASE n > 0
    <3>1. R.pend = "write_up"
      BY <1>2, <2>1, Zenon
    <3> QED
      BY <2>1, <3>1 DEF Stage
  <2>2. CASE n = 0
    <3>1. R.pend = "read_up" \/ R.pend = "read_down"
      BY <1>2, <2>2, Zenon
    <3> QED
      BY <2>2, <3>1 DEF Stage
  <2> QED
    BY <1>3, <2>1, <2>2
<1> QED
  BY <1>3, <1>7, <1>10, <1>11

\* pull_and_write_response_to_downstream(): the same.
LEMMA PullResponseAdvances ==
  ASSUME NEW x \in SessionStates, SerSound(x.rs.ser), Bounded(x)
  PROVE  LET R == PullResponse(x) IN
         \/ R.pend = "closed"
         \/ Bounded(R) /\ R.num > x.num
         \/ Bounded(R) /\ ToDo(R) \in 0..(Work(x) + 2)
<1> DEFINE R == PullResponse(x)
           n == Pulled(x.rs.ser)
           ser == pull(x.rs.ser)
           h == IF x.rs.ser.head = HeadUnits THEN x.rs.heads + 1 ELSE x.rs.heads
           q == [x.rs EXCEPT !.ser = ser, !.heads = h]
           u == IF ReleasesUpstream(x) THEN NoConn ELSE x.up
           y == [x EXCEPT !.rs.ser = pull(@),
                          !.rs.heads = IF x.rs.ser.head = HeadUnits THEN @ + 1 ELSE @,
                          !.up = IF ReleasesUpstream(x) THEN NoConn ELSE @]
<1>1. /\ R \in SessionStates /\ x.rs \in ResponseSides /\ x.rs.ser \in Serializers /\ x.rs.held \in Nat
      /\ x.num \in Nat
  BY PullResponseType DEF SessionStates, ResponseSides
<1>2. /\ R.pend \in {"write_down", "read_up"} =>
           R.num = x.num /\ R.rq = x.rq /\ R.rt = x.rt /\ R.rs = q
      /\ R.pend = "read_up" => n = 0
      /\ R.pend = "read_down" => R.num = x.num + 1 /\ R.rq = FreshRequest /\ R.rs = FreshResponse
      /\ R.pend \in {"write_down", "read_up", "read_down", "closed"}
  BY PullResponseFields
<1>3. R.pend = "write_down" => n > 0
  <2>1. y = [pend |-> x.pend, up |-> u, ep |-> x.ep, num |-> x.num,
             rq |-> x.rq, rt |-> x.rt, rs |-> q]
    <3>1. y = [x EXCEPT !.rs = q, !.up = u]
      BY DEF SessionStates, ResponseSides
    <3> HIDE DEF y, q, u
    <3> QED
      BY <3>1 DEF SessionStates
  <2>2. \/ n > 0
        \/ R = ResetForNextRequest(y)
        \/ R = [y EXCEPT !.pend = "read_up"]
        \/ R = [y EXCEPT !.pend = "closed"]
    BY DEF PullResponse
  <2> HIDE DEF y, n, R, q, u
  <2> QED
    BY <2>1, <2>2 DEF ResetForNextRequest
<1>4. /\ n \in Nat /\ ser.head + ser.pending = x.rs.ser.head + x.rs.ser.pending - n
      /\ ser.head \in Nat /\ ser.pending \in Nat
      /\ x.rs.ser.head \in Nat /\ x.rs.ser.pending \in Nat
  BY <1>1, PullLeaves
<1>5. /\ q.started = x.rs.started /\ q.len = x.rs.len /\ q.got = x.rs.got /\ q.done = x.rs.done
      /\ q.held = x.rs.held /\ q.ser = ser /\ q.direct = x.rs.direct
  BY <1>1 DEF ResponseSides
<1> HIDE DEF R, n, ser, q
<1>6. CASE R.pend = "closed"
  BY <1>6 DEF R
<1>7. CASE R.pend = "read_down"
  <2>1. R.num > x.num /\ Bounded(R)
    BY <1>1, <1>2, <1>7, FreshFacts DEF Bounded, Within
  <2> QED
    BY <2>1 DEF R
<1>8. CASE R.pend \in {"write_down", "read_up"}
  <2>1. R.num = x.num /\ R.rq = x.rq /\ R.rt = x.rt /\ R.rs = q
    BY <1>2, <1>8
  <2>2. Bounded(R)
    BY <1>5, <2>1 DEF Bounded, Within
  <2>3. /\ ToRead(R.rq) = ToRead(x.rq) /\ ToRead(R.rs) = ToRead(x.rs) /\ ToWrite(R.rq) = ToWrite(x.rq)
        /\ Chances(R) = Chances(x)
    BY <1>5, <2>1 DEF ToRead, Chances
  <2>4. ToWrite(R.rs) = ToWrite(x.rs) - n
    BY <1>1, <1>4, <1>5, <2>1 DEF ToWrite
  <2>5. /\ Work(R) = Work(x) - n /\ Work(x) \in Nat
        /\ ToDo(R) = Work(R) + Stage[R.pend] /\ ToDo(R) \in Nat
    BY <1>1, <1>4, <2>2, <2>3, <2>4, PartTypes
  <2>6. (n > 0 /\ Stage[R.pend] = 3) \/ Stage[R.pend] = 2
    BY <1>3, <1>8 DEF Stage
  <2>7. ToDo(R) \in 0..(Work(x) + 2)
    BY <1>4, <2>5, <2>6
  <2> QED
    BY <2>2, <2>7 DEF R
<1> QED
  BY <1>2, <1>6, <1>7, <1>8

\* feed() on a read of the request: k units and possibly the end are read, and with
\* the first read the head is.
LEMMA ParsedRequestAdvances ==
  ASSUME NEW x \in SessionStates, Sound(x), Bounded(x), x.pend = "read_down",
         NEW r \in Requests(x), NEW a \in Arrivals(r.framing, r.len, x.rq.got)
  PROVE  LET y == ParsedRequest(x, r, a) IN
         /\ Within(y.rq) /\ ToWrite(y.rq) = ToWrite(x.rq) /\ ToRead(y.rq) \in Nat
         /\ ToRead(y.rq) + a.k + (IF a.end THEN 1 ELSE 0) + (IF x.rq.started THEN 0 ELSE 1)
              <= ToRead(x.rq)
<1> DEFINE ser == IF x.rq.started THEN x.rq.ser ELSE StartSerializer(r.framing = "chunked")
           q == [x.rq EXCEPT !.started = TRUE, !.framing = r.framing, !.len = r.len,
                             !.keep = r.keep, !.got = @ + a.k, !.done = a.end, !.ser = ser]
           y == ParsedRequest(x, r, a)
<1>1. r \in Heads /\ x.rq \in RequestSides /\ MaxBody \in Nat
  BY RequestsType, SessionAssumption DEF SessionStates
<1>2. r.len \in Nat /\ x.rq.got \in Nat /\ x.rq.done \in BOOLEAN /\ x.rq.started \in BOOLEAN
  BY <1>1 DEF Heads, RequestSides
<1>3. RequestSound(x.rq) /\ ~x.rq.done /\ Within(x.rq)
  BY DEF Sound, PhaseSound, Bounded
<1>4. ~x.rq.started => x.rq.got = 0 /\ x.rq.ser = StartSerializer(FALSE)
  <2>1. ~x.rq.started => x.rq = FreshRequest
    BY <1>3 DEF RequestSound
  <2>2. FreshRequest.got = 0 /\ FreshRequest.ser = StartSerializer(FALSE)
    BY DEF FreshRequest
  <2> QED
    BY <2>1, <2>2
<1>5. x.rq.got <= r.len /\ r.len <= MaxBody /\ (x.rq.started => r.len = x.rq.len)
  <2>1. CASE x.rq.started
    <3>1. r.len = x.rq.len
      BY <2>1 DEF Requests
    <3> QED
      BY <1>3, <2>1, <3>1 DEF Within
  <2>2. CASE ~x.rq.started
    <3>1. r \in [framing : ReqFramings, len : 0..MaxBody, keep : BOOLEAN]
      BY <2>2 DEF Requests
    <3>2. r.len \in 0..MaxBody /\ x.rq.got = 0
      BY <1>4, <2>2, <3>1
    <3>3. 0 <= r.len /\ r.len <= MaxBody
      BY <1>1, <3>2
    <3> QED
      BY <2>2, <3>2, <3>3
  <2> QED
    BY <2>1, <2>2
<1>6. a.k \in Nat /\ a.end \in BOOLEAN /\ x.rq.got + a.k <= r.len
  BY <1>2, <1>5, ReadsLess
<1>7. y.rq = q
  BY DEF ParsedRequest, SessionStates, RequestSides
<1>8. ser.head = x.rq.ser.head /\ ser.pending = x.rq.ser.pending
  BY <1>4 DEF StartSerializer
<1> HIDE DEF ser, y
<1>9. /\ q.started /\ q.len = r.len /\ q.got = x.rq.got + a.k /\ q.done = a.end
      /\ q.held = x.rq.held /\ q.ser = ser
  BY <1>1 DEF RequestSides
<1> HIDE DEF q
<1>10. Within(q) /\ ToWrite(q) = ToWrite(x.rq)
  BY <1>5, <1>6, <1>8, <1>9 DEF Within, ToWrite
<1>11. ToRead(q) = r.len - (x.rq.got + a.k) + (IF a.end THEN 0 ELSE 1)
  BY <1>9 DEF ToRead
<1>12. ToRead(x.rq) = IF x.rq.started THEN r.len - x.rq.got + 1 ELSE MaxBody + 2
  BY <1>3, <1>5 DEF ToRead
<1>13. /\ ToRead(q) \in Nat
       /\ ToRead(q) + a.k + (IF a.end THEN 1 ELSE 0) + (IF x.rq.started THEN 0 ELSE 1) <= ToRead(x.rq)
  <2>1. CASE x.rq.started
    BY <1>1, <1>2, <1>5, <1>6, <1>11, <1>12, <2>1
  <2>2. CASE ~x.rq.started
    BY <1>1, <1>2, <1>4, <1>5, <1>6, <1>11, <1>12, <2>2
  <2> QED
    BY <2>1, <2>2
<1> QED
  BY <1>7, <1>10, <1>13 DEF y

\* The drain passes on or holds back what was read, and the end of a chunked body
\* is one unit more.
LEMMA DrainedRequestAdvances ==
  ASSUME NEW y \in SessionStates, NEW a \in Reads, SerSound(y.rq.ser), ~y.rq.ser.last,
         NEW j \in Passed(y.rq.held, a.k, a.end, ReqBody)
  PROVE  LET z == DrainedRequest(y, a, j) IN
         /\ Within(y.rq) => Within(z.rq)
         /\ ToRead(z.rq) = ToRead(y.rq)
         /\ ToWrite(z.rq) <= ToWrite(y.rq) + a.k + (IF a.end THEN 1 ELSE 0)
<1> DEFINE fwd == ForwardedBy(y.rq.held, j)
           h == HeldBy(y.rq.held, a.k, j)
           ser == provide_body(y.rq.ser, fwd, a.end)
           q == [y.rq EXCEPT !.held = HeldBy(@, a.k, j), !.given = @ + fwd, !.ser = ser]
           z == DrainedRequest(y, a, j)
<1>0. /\ y.rq \in RequestSides /\ a.k \in Nat /\ a.end \in BOOLEAN /\ y.rq.held \in Nat
      /\ y.rq.ser \in Serializers /\ y.rq.ser.head \in Nat /\ y.rq.ser.pending \in Nat
  BY DEF SessionStates, Reads, RequestSides, Serializers
<1>1. fwd \in Nat /\ h \in Nat /\ fwd + h = y.rq.held + a.k
  BY <1>0, PassedType DEF ForwardedBy, HeldBy, Passed
<1>2. /\ ser.head = y.rq.ser.head
      /\ ser.pending = y.rq.ser.pending + fwd + (IF y.rq.ser.chunked /\ a.end THEN 1 ELSE 0)
  BY <1>0, <1>1, ProvideSound
<1>3. z.rq = q
  BY DEF DrainedRequest, SessionStates, RequestSides
<1> HIDE DEF ser, fwd, z
<1>4. /\ q.started = y.rq.started /\ q.len = y.rq.len /\ q.got = y.rq.got /\ q.done = y.rq.done
      /\ q.ser = ser /\ q.held = h
  BY <1>0 DEF RequestSides
<1> HIDE DEF q, h
<1>5. (Within(y.rq) => Within(q)) /\ ToRead(q) = ToRead(y.rq)
  BY <1>4 DEF Within, ToRead
<1>6. ToWrite(q) <= ToWrite(y.rq) + a.k + (IF a.end THEN 1 ELSE 0)
  <2>1. ToWrite(q) = h + ser.head + ser.pending /\ ToWrite(y.rq) = y.rq.held + y.rq.ser.head + y.rq.ser.pending
    BY <1>4 DEF ToWrite
  <2> QED
    BY <1>0, <1>1, <1>2, <2>1
<1> QED
  BY <1>3, <1>5, <1>6 DEF z

\* A read of the request that its filters let through.
LEMMA RequestReadAdvances ==
  ASSUME NEW x \in SessionStates, Sound(x), Bounded(x), x.pend = "read_down",
         NEW r \in Requests(x), NEW a \in Arrivals(r.framing, r.len, x.rq.got),
         x.rq.started => a.k > 0 \/ a.end,
         NEW j \in Passed(x.rq.held, a.k, a.end, ReqBody)
  PROVE  LET z == DrainedRequest(ParsedRequest(x, r, a), a, j) IN
         /\ z \in SessionStates /\ Bounded(z) /\ z.num = x.num /\ z.rs = FreshResponse
         /\ SerSound(z.rq.ser) /\ Work(z) + 8 <= Work(x)
<1> DEFINE y == ParsedRequest(x, r, a)
           z == DrainedRequest(y, a, j)
           e == IF a.end THEN 1 ELSE 0
           first == IF x.rq.started THEN 0 ELSE 1
<1>1. r \in Heads /\ x.rq.got \in Nat
  BY RequestsType DEF SessionStates, RequestSides
<1>2. a \in Reads /\ a.k \in Nat /\ a.end \in BOOLEAN
  BY <1>1, ArrivalsType DEF Heads, Reads
<1>3. y \in SessionStates
  BY <1>1, <1>2, ParsedRequestType
<1>4. /\ y.num = x.num /\ y.rt = x.rt /\ y.rs = x.rs /\ RequestSound(y.rq) /\ ~y.rq.ser.last
      /\ y.rq.done = a.end /\ y.rq.started
      /\ y.rq.held = x.rq.held /\ y.rq.given + y.rq.held + a.k = y.rq.got
      /\ a.end => y.rq.got = y.rq.len
      /\ y.rq.framing = "length" /\ a.end /\ a.k = 0 => y.rq.given = y.rq.len
  BY ParsedRequestSound
<1>5. /\ Within(y.rq) /\ ToWrite(y.rq) = ToWrite(x.rq) /\ ToRead(y.rq) \in Nat
      /\ ToRead(y.rq) + a.k + e + first <= ToRead(x.rq)
  BY ParsedRequestAdvances
<1> HIDE DEF y
<1>6. j \in Passed(y.rq.held, a.k, a.end, ReqBody) /\ SerSound(y.rq.ser)
  BY <1>4 DEF RequestSound
<1>7. /\ z \in SessionStates /\ z.num = y.num /\ z.rt = y.rt /\ z.rs = y.rs /\ RequestSound(z.rq)
  BY <1>2, <1>3, <1>4, <1>6, DrainedRequestSound
<1>8. Within(z.rq) /\ ToRead(z.rq) = ToRead(y.rq) /\ ToWrite(z.rq) <= ToWrite(y.rq) + a.k + e
  BY <1>2, <1>3, <1>4, <1>5, <1>6, DrainedRequestAdvances
<1>9. x.rs = FreshResponse
  BY ReadingDown
<1> HIDE DEF z
<1>10. Bounded(z) /\ Chances(z) = Chances(x) /\ SerSound(z.rq.ser)
  BY <1>4, <1>7, <1>8 DEF Bounded, Chances, RequestSound
<1>11. a.k + e + first >= 1
  BY <1>2
<1>12. e \in Nat /\ first \in Nat
  OBVIOUS
<1> HIDE DEF e, first
<1>13. Work(z) + 8 <= Work(x)
  BY <1>2, <1>4, <1>5, <1>7, <1>8, <1>10, <1>11, <1>12, PartTypes
<1> QED
  BY <1>4, <1>7, <1>9, <1>10, <1>13 DEF y, z

\* feed() on a read of the response.
LEMMA ParsedResponseAdvances ==
  ASSUME NEW x \in SessionStates, Sound(x), Bounded(x), x.pend = "read_up",
         NEW r \in Responses(x), NEW a \in Arrivals(r.framing, r.len, x.rs.got)
  PROVE  LET y == ParsedResponse(x, r, a) IN
         /\ Within(y.rs) /\ ToWrite(y.rs) = ToWrite(x.rs) /\ ToRead(y.rs) \in Nat
         /\ ToRead(y.rs) + a.k + (IF a.end THEN 1 ELSE 0) + (IF x.rs.started THEN 0 ELSE 1)
              <= ToRead(x.rs)
<1> DEFINE ser == IF x.rs.started THEN x.rs.ser ELSE StartSerializer(r.framing = "chunked")
           q == [x.rs EXCEPT !.started = TRUE, !.framing = r.framing, !.len = r.len,
                             !.keep = r.keep, !.got = @ + a.k, !.done = a.end,
                             !.eff = EffectiveKeepAlive(x, r.framing), !.ser = ser]
           y == ParsedResponse(x, r, a)
<1>1. r \in Heads /\ x.rs \in ResponseSides /\ MaxBody \in Nat
  BY ResponsesType, SessionAssumption DEF SessionStates
<1>2. r.len \in Nat /\ x.rs.got \in Nat /\ x.rs.done \in BOOLEAN /\ x.rs.started \in BOOLEAN
  BY <1>1 DEF Heads, ResponseSides
<1>3. ResponseSound(x.rs, x.rq.keep) /\ ~x.rs.done /\ Within(x.rs)
  BY DEF Sound, PhaseSound, Bounded
<1>4. ~x.rs.started => x.rs.got = 0 /\ x.rs.ser = StartSerializer(FALSE)
  <2>1. ~x.rs.started => x.rs = FreshResponse
    BY <1>3 DEF ResponseSound
  <2>2. FreshResponse.got = 0 /\ FreshResponse.ser = StartSerializer(FALSE)
    BY DEF FreshResponse
  <2> QED
    BY <2>1, <2>2
<1>5. x.rs.got <= r.len /\ r.len <= MaxBody /\ (x.rs.started => r.len = x.rs.len)
  <2>1. CASE x.rs.started
    <3>1. r.len = x.rs.len
      BY <2>1 DEF Responses
    <3> QED
      BY <1>3, <2>1, <3>1 DEF Within
  <2>2. CASE ~x.rs.started
    <3>1. r \in [framing : RespFramings, len : 0..MaxBody, keep : BOOLEAN]
      BY <2>2 DEF Responses
    <3>2. r.len \in 0..MaxBody /\ x.rs.got = 0
      BY <1>4, <2>2, <3>1
    <3>3. 0 <= r.len /\ r.len <= MaxBody
      BY <1>1, <3>2
    <3> QED
      BY <2>2, <3>2, <3>3
  <2> QED
    BY <2>1, <2>2
<1>6. a.k \in Nat /\ a.end \in BOOLEAN /\ x.rs.got + a.k <= r.len
  BY <1>2, <1>5, ReadsLess
<1>7. y.rs = q
  BY DEF ParsedResponse, SessionStates, ResponseSides
<1>8. ser.head = x.rs.ser.head /\ ser.pending = x.rs.ser.pending
  BY <1>4 DEF StartSerializer
<1> HIDE DEF ser, y
<1>9. /\ q.started /\ q.len = r.len /\ q.got = x.rs.got + a.k /\ q.done = a.end
      /\ q.held = x.rs.held /\ q.ser = ser
  BY <1>1 DEF ResponseSides
<1> HIDE DEF q
<1>10. Within(q) /\ ToWrite(q) = ToWrite(x.rs)
  BY <1>5, <1>6, <1>8, <1>9 DEF Within, ToWrite
<1>11. ToRead(q) = r.len - (x.rs.got + a.k) + (IF a.end THEN 0 ELSE 1)
  BY <1>9 DEF ToRead
<1>12. ToRead(x.rs) = IF x.rs.started THEN r.len - x.rs.got + 1 ELSE MaxBody + 2
  BY <1>3, <1>5 DEF ToRead
<1>13. /\ ToRead(q) \in Nat
       /\ ToRead(q) + a.k + (IF a.end THEN 1 ELSE 0) + (IF x.rs.started THEN 0 ELSE 1) <= ToRead(x.rs)
  <2>1. CASE x.rs.started
    BY <1>1, <1>2, <1>5, <1>6, <1>11, <1>12, <2>1
  <2>2. CASE ~x.rs.started
    BY <1>1, <1>2, <1>4, <1>5, <1>6, <1>11, <1>12, <2>2
  <2> QED
    BY <2>1, <2>2
<1> QED
  BY <1>7, <1>10, <1>13 DEF y

\* The drain of a read of the response.
LEMMA DrainedResponseAdvances ==
  ASSUME NEW y \in SessionStates, NEW a \in Reads, SerSound(y.rs.ser), ~y.rs.ser.last,
         NEW j \in Passed(y.rs.held, a.k, a.end, RespBody)
  PROVE  LET z == DrainedResponse(y, a, j) IN
         /\ z.num = y.num /\ z.rq = y.rq /\ z.rt = y.rt /\ z.rs.direct = y.rs.direct
         /\ SerSound(z.rs.ser)
         /\ Within(y.rs) => Within(z.rs)
         /\ ToRead(z.rs) = ToRead(y.rs)
         /\ ToWrite(z.rs) <= ToWrite(y.rs) + a.k + (IF a.end THEN 1 ELSE 0)
<1> DEFINE fwd == ForwardedBy(y.rs.held, j)
           h == HeldBy(y.rs.held, a.k, j)
           ser == provide_body(y.rs.ser, fwd, a.end)
           q == [y.rs EXCEPT !.held = HeldBy(@, a.k, j), !.given = @ + fwd, !.ser = ser]
           z == DrainedResponse(y, a, j)
<1>0. /\ y.rs \in ResponseSides /\ a.k \in Nat /\ a.end \in BOOLEAN /\ y.rs.held \in Nat
      /\ y.rs.ser \in Serializers /\ y.rs.ser.head \in Nat /\ y.rs.ser.pending \in Nat
  BY DEF SessionStates, Reads, ResponseSides, Serializers
<1>1. fwd \in Nat /\ h \in Nat /\ fwd + h = y.rs.held + a.k
  BY <1>0, PassedType DEF ForwardedBy, HeldBy, Passed
<1>2. /\ SerSound(ser) /\ ser.head = y.rs.ser.head
      /\ ser.pending = y.rs.ser.pending + fwd + (IF y.rs.ser.chunked /\ a.end THEN 1 ELSE 0)
  BY <1>0, <1>1, ProvideSound
<1>3. z = [y EXCEPT !.rs = q]
  BY DEF DrainedResponse, SessionStates, ResponseSides
<1> HIDE DEF ser, fwd, z
<1>4. /\ q.started = y.rs.started /\ q.len = y.rs.len /\ q.got = y.rs.got /\ q.done = y.rs.done
      /\ q.ser = ser /\ q.held = h /\ q.direct = y.rs.direct
  BY <1>0 DEF ResponseSides
<1> HIDE DEF q, h
<1>5. z.num = y.num /\ z.rq = y.rq /\ z.rt = y.rt /\ z.rs = q
  BY <1>3 DEF SessionStates
<1>6. (Within(y.rs) => Within(q)) /\ ToRead(q) = ToRead(y.rs)
  BY <1>4 DEF Within, ToRead
<1>7. ToWrite(q) <= ToWrite(y.rs) + a.k + (IF a.end THEN 1 ELSE 0)
  <2>1. ToWrite(q) = h + ser.head + ser.pending /\ ToWrite(y.rs) = y.rs.held + y.rs.ser.head + y.rs.ser.pending
    BY <1>4 DEF ToWrite
  <2> QED
    BY <1>0, <1>1, <1>2, <2>1
<1> QED
  BY <1>2, <1>4, <1>5, <1>6, <1>7 DEF z

\* A read of the response that its filters let through.
LEMMA ResponseReadAdvances ==
  ASSUME NEW x \in SessionStates, Sound(x), Bounded(x), x.pend = "read_up",
         NEW r \in Responses(x), NEW a \in Arrivals(r.framing, r.len, x.rs.got),
         x.rs.started => a.k > 0 \/ a.end,
         NEW j \in Passed(x.rs.held, a.k, a.end, RespBody)
  PROVE  LET z == DrainedResponse(ParsedResponse(x, r, a), a, j) IN
         /\ z \in SessionStates /\ Bounded(z) /\ z.num = x.num
         /\ SerSound(z.rs.ser) /\ Work(z) + 8 <= Work(x)
<1> DEFINE y == ParsedResponse(x, r, a)
           z == DrainedResponse(y, a, j)
           e == IF a.end THEN 1 ELSE 0
           first == IF x.rs.started THEN 0 ELSE 1
<1>1. r \in Heads /\ x.rs.got \in Nat
  BY ResponsesType DEF SessionStates, ResponseSides
<1>2. a \in Reads /\ a.k \in Nat /\ a.end \in BOOLEAN
  BY <1>1, ArrivalsType DEF Heads, Reads
<1>3. y \in SessionStates
  BY <1>1, <1>2, ParsedResponseType
<1>4. /\ y.num = x.num /\ y.rq = x.rq /\ y.rt.any /\ y.rt.used = x.rt.used
      /\ SerSound(y.rs.ser) /\ ~y.rs.ser.last /\ y.rs.held = x.rs.held /\ ~y.rs.direct
  BY ParsedResponseSound
<1>5. /\ Within(y.rs) /\ ToWrite(y.rs) = ToWrite(x.rs) /\ ToRead(y.rs) \in Nat
      /\ ToRead(y.rs) + a.k + e + first <= ToRead(x.rs)
  BY ParsedResponseAdvances
<1> HIDE DEF y
<1>6. j \in Passed(y.rs.held, a.k, a.end, RespBody)
  BY <1>4
<1>7. z \in SessionStates
  BY <1>2, <1>3, <1>6, DrainedResponseType
<1>8. /\ z.num = y.num /\ z.rq = y.rq /\ z.rt = y.rt /\ z.rs.direct = y.rs.direct /\ SerSound(z.rs.ser)
      /\ Within(z.rs) /\ ToRead(z.rs) = ToRead(y.rs) /\ ToWrite(z.rs) <= ToWrite(y.rs) + a.k + e
  BY <1>2, <1>3, <1>4, <1>5, <1>6, DrainedResponseAdvances
<1>9. ~x.rs.direct /\ HeadUnits \in Nat /\ MaxDirect \in Nat
  BY SerializerAssumption, SessionAssumption DEF Sound, PhaseSound
<1> HIDE DEF z
<1>10. Bounded(z) /\ Chances(z) <= Chances(x)
  BY <1>4, <1>8, <1>9 DEF Bounded, Chances
<1>11. a.k + e + first >= 1
  BY <1>2
<1>12. e \in Nat /\ first \in Nat
  OBVIOUS
<1> HIDE DEF e, first
<1>13. Work(z) + 8 <= Work(x)
  BY <1>2, <1>4, <1>5, <1>7, <1>8, <1>10, <1>11, <1>12, PartTypes
<1> QED
  BY <1>4, <1>7, <1>8, <1>10, <1>13 DEF y, z

\* respond_directly(): a filter answers once, and its answer replaces the other.
LEMMA RespondAdvances ==
  ASSUME NEW w \in SessionStates, Bounded(w), ~w.rs.direct, ~w.rs.started => w.rs = FreshResponse,
         NEW b \in 0..MaxDirect
  PROVE  LET R == RespondDirectly(w, b) IN Bounded(R) /\ ToDo(R) \in 0..(Work(w) - 5)
<1> DEFINE st == StartSerializer(FALSE)
           full == provide_body(st, b, TRUE)
           ser == pull(full)
           q == [w.rs EXCEPT !.direct = TRUE, !.started = TRUE, !.ser = ser, !.heads = @ + 1]
           R == RespondDirectly(w, b)
<1>0. HeadUnits \in Nat /\ MaxDirect \in Nat /\ MaxBody \in Nat /\ b \in Nat /\ b <= MaxDirect
  BY SerializerAssumption, SessionAssumption
<1>1. st \in Serializers /\ SerSound(st) /\ ~st.last /\ st.head = HeadUnits /\ st.pending = 0 /\ ~st.chunked
  BY StartType, StartSound
<1>2. full \in Serializers
  BY <1>0, <1>1, ProvideType
<1> HIDE DEF st
<1>3. SerSound(full) /\ full.head = HeadUnits /\ full.pending = b
  <2>1. /\ SerSound(full) /\ full.head = st.head
        /\ full.pending = st.pending + b + (IF st.chunked /\ TRUE THEN 1 ELSE 0)
    BY <1>0, <1>1, ProvideSound
  <2>2. (IF st.chunked /\ TRUE THEN 1 ELSE 0) = 0
    BY <1>1
  <2> HIDE DEF full
  <2> QED
    BY <1>0, <1>1, <2>1, <2>2
<1> HIDE DEF full
<1>4. ser.head \in Nat /\ ser.pending \in Nat /\ ser.head + ser.pending <= HeadUnits + b
  BY <1>0, <1>2, <1>3, PullLeaves
<1>5. R = [w EXCEPT !.pend = "write_down", !.rs = q]
  BY DEF RespondDirectly, SessionStates, ResponseSides, st, full
<1>6. R \in SessionStates /\ R.pend = "write_down" /\ w.rs \in ResponseSides
  BY <1>0, RespondDirectlyType DEF SessionStates
<1> HIDE DEF ser
<1>7. /\ q.direct /\ q.started /\ q.ser = ser /\ q.held = w.rs.held /\ q.len = w.rs.len
      /\ q.got = w.rs.got /\ q.done = w.rs.done
  BY <1>6 DEF ResponseSides
<1> HIDE DEF q
<1>8. R.rs = q /\ R.rq = w.rq /\ R.rt = w.rt
  BY <1>5 DEF SessionStates
<1> HIDE DEF R
<1>9. ~w.rs.started => w.rs.got = 0 /\ w.rs.len = 0 /\ ~w.rs.done
  <2>1. FreshResponse.got = 0 /\ FreshResponse.len = 0 /\ ~FreshResponse.done
    BY DEF FreshResponse
  <2> QED
    BY <2>1
<1>10. Within(q)
  BY <1>0, <1>7, <1>9 DEF Bounded, Within
<1>11. Bounded(R)
  BY <1>8, <1>10 DEF Bounded
<1>12. ToRead(q) <= ToRead(w.rs)
  <2>1. CASE w.rs.started
    <3>1. ToRead(q) = ToRead(w.rs) /\ ToRead(w.rs) \in Nat
      BY <1>7, <2>1, PartTypes DEF ToRead
    <3> QED
      BY <3>1
  <2>2. CASE ~w.rs.started
    <3>1. ToRead(q) = 1 /\ ToRead(w.rs) = MaxBody + 2
      BY <1>7, <1>9, <2>2 DEF ToRead
    <3> QED
      BY <1>0, <3>1
  <2> QED
    BY <2>1, <2>2
<1>13. ToWrite(q) <= ToWrite(w.rs) + HeadUnits + b
  <2>1. w.rs.held \in Nat /\ w.rs.ser.head \in Nat /\ w.rs.ser.pending \in Nat
    BY <1>6 DEF ResponseSides, Serializers
  <2> QED
    BY <1>0, <1>4, <1>7, <2>1 DEF ToWrite
<1>14. Chances(w) = Chances(R) + HeadUnits + MaxDirect + 8
  <2>1. /\ (IF w.rt.used THEN 0 ELSE 8) \in Nat /\ (IF w.rt.any THEN 0 ELSE 1) \in Nat
    OBVIOUS
  <2> QED
    BY <1>0, <1>7, <1>8, <2>1 DEF Chances
<1>15. Stage[R.pend] = 3
  BY <1>6 DEF Stage
<1>16. ToDo(R) \in 0..(Work(w) - 5)
  BY <1>0, <1>6, <1>8, <1>11, <1>12, <1>13, <1>14, <1>15, PartTypes
<1> QED
  BY <1>11, <1>16 DEF R

\* What is shown of a step of session s.
AdvanceInv ==
  /\ SoundInv
  /\ \A s \in Sessions : Bounded(sess[s]) /\ (sess[s].pend = "unborn" => sess[s] = FreshSession)
AdvanceStep(s) == Advances(sess[s], sess'[s]) /\ Bounded(sess'[s])

\* Settle, with a session that has advanced.
LEMMA SettleAdvances ==
  ASSUME SoundInv, NEW s \in Sessions, NEW y, NEW sk, NEW pl, NEW m, Settle(s, y, sk, pl, m),
         Advances(sess[s], y)
  PROVE  AdvanceStep(s)
<1>1. ClosedSession.pend = "closed" /\ Bounded(ClosedSession)
  <2>1. ClosedSession.pend = "closed" /\ ClosedSession.rq = FreshRequest /\ ClosedSession.rs = FreshResponse
    BY DEF ClosedSession, FreshSession
  <2> QED
    BY <2>1, FreshFacts DEF Bounded, Within
<1>2. s \in DOMAIN sess
  BY DEF SoundInv, OwnInv, Types
<1>3. CASE y.pend = "closed"
  <2>1. sess'[s] = ClosedSession
    BY <1>2, <1>3 DEF Settle
  <2> QED
    BY <1>1, <2>1 DEF AdvanceStep, Advances
<1>4. CASE y.pend # "closed"
  <2>1. sess'[s] = y
    BY <1>2, <1>4 DEF Settle
  <2> QED
    BY <1>4, <2>1 DEF AdvanceStep, Advances
<1> QED
  BY <1>3, <1>4

\* close() ends it.
LEMMA ClosesAdvances ==
  ASSUME SoundInv, NEW s \in Sessions, NEW m, Closes(s, m)
  PROVE  AdvanceStep(s)
<1> DEFINE y == [sess[s] EXCEPT !.pend = "closed"]
<1>1. y.pend = "closed"
  BY InvTypes DEF SoundInv, SessionStates
<1>2. Settle(s, y, socks, idle_pools, m)
  BY DEF Closes
<1> HIDE DEF y
<1> QED
  BY <1>1, <1>2, SettleAdvances DEF Advances

\* A session, what is left of it and what the operation under way adds.
LEMMA AdvanceTypes ==
  ASSUME AdvanceInv, NEW s \in Sessions
  PROVE  /\ SoundInv /\ sess[s] \in SessionStates /\ Sound(sess[s]) /\ Bounded(sess[s])
         /\ Work(sess[s]) \in Nat /\ ToDo(sess[s]) = Work(sess[s]) + Stage[sess[s].pend]
         /\ sess[s].pend = "read_down" => ToDo(sess[s]) = Work(sess[s]) + 4
         /\ sess[s].pend = "connect" => ToDo(sess[s]) = Work(sess[s]) + 6
         /\ sess[s].pend = "write_up" => ToDo(sess[s]) = Work(sess[s]) + 5
         /\ sess[s].pend = "rewrite_w" => ToDo(sess[s]) = Work(sess[s]) + 6
         /\ sess[s].pend = "read_up" => ToDo(sess[s]) = Work(sess[s]) + 2
         /\ sess[s].pend = "write_down" => ToDo(sess[s]) = Work(sess[s]) + 3
<1>1. SoundInv /\ sess[s] \in SessionStates /\ Sound(sess[s]) /\ Bounded(sess[s])
  BY InvTypes DEF AdvanceInv, SoundInv
<1>2. Work(sess[s]) \in Nat /\ ToDo(sess[s]) = Work(sess[s]) + Stage[sess[s].pend]
  BY <1>1, PartTypes
<1>3. /\ Stage["read_down"] = 4 /\ Stage["connect"] = 6 /\ Stage["write_up"] = 5
      /\ Stage["rewrite_w"] = 6 /\ Stage["read_up"] = 2 /\ Stage["write_down"] = 3
  BY DEF Stage
<1> QED
  BY <1>1, <1>2, <1>3

\* Only the operation under way has changed, and the connection it is on.
LEMMA SameWork ==
  ASSUME NEW x \in SessionStates, Bounded(x), NEW y \in SessionStates,
         y.rs = x.rs, y.rt.used = x.rt.used, y.rt.any = x.rt.any,
         y.rq.started = x.rq.started, y.rq.len = x.rq.len, y.rq.got = x.rq.got,
         y.rq.done = x.rq.done, y.rq.held = x.rq.held, y.rq.ser = x.rq.ser
  PROVE  Bounded(y) /\ Work(y) = Work(x) /\ ToDo(y) = Work(x) + Stage[y.pend] /\ Work(x) \in Nat
<1>1. Bounded(y)
  BY DEF Bounded, Within
<1>2. /\ ToRead(y.rq) = ToRead(x.rq) /\ ToWrite(y.rq) = ToWrite(x.rq) /\ Chances(y) = Chances(x)
      /\ ToRead(y.rs) = ToRead(x.rs) /\ ToWrite(y.rs) = ToWrite(x.rs)
  BY DEF ToRead, ToWrite, Chances
<1> QED
  BY <1>1, <1>2, PartTypes

\* A session whose response has not begun.
LEMMA NoResponseYet ==
  ASSUME NEW x \in SessionStates, Sound(x), x.pend \notin {"read_up", "write_down"}
  PROVE  x.rs = FreshResponse /\ SerSound(x.rq.ser)
BY DEF Sound, PhaseSound, ResponseSound, RequestSound

\* A read of the request is relayed.
LEMMA RequestChunkAdvances ==
  ASSUME AdvanceInv, NEW s \in Sessions, RequestChunk(s)
  PROVE  AdvanceStep(s)
<1> DEFINE x == sess[s]
           Rest(y) == IF ~x.rq.connecting
                      THEN connect_upstream(s, y, HeadCounted(x))
                      ELSE /\ Settle(s, IF x.up = NoConn THEN [y EXCEPT !.pend = "none"]
                                        ELSE PullRequest(y),
                                     socks, idle_pools, HeadCounted(x))
                           /\ UNCHANGED next_endpoint
<1>0. PICK r \in Requests(x) :
        \E a \in Arrivals(r.framing, r.len, x.rq.got) :
          /\ x.rq.started => a.k > 0 \/ a.end
          /\ \E j \in Passed(x.rq.held, a.k, a.end, ReqBody) :
               Rest(DrainedRequest(ParsedRequest(x, r, a), a, j))
  BY DEF RequestChunk
<1>1. PICK a \in Arrivals(r.framing, r.len, x.rq.got) :
        /\ x.rq.started => a.k > 0 \/ a.end
        /\ \E j \in Passed(x.rq.held, a.k, a.end, ReqBody) :
             Rest(DrainedRequest(ParsedRequest(x, r, a), a, j))
  BY <1>0
<1>2. PICK j \in Passed(x.rq.held, a.k, a.end, ReqBody) :
        Rest(DrainedRequest(ParsedRequest(x, r, a), a, j))
  BY <1>1
<1>3. /\ x \in SessionStates /\ Sound(x) /\ Bounded(x) /\ SoundInv /\ x.pend = "read_down"
      /\ Work(x) \in Nat /\ ToDo(x) = Work(x) + 4
  BY AdvanceTypes DEF RequestChunk
<1> DEFINE y == DrainedRequest(ParsedRequest(x, r, a), a, j)
<1>4. /\ y \in SessionStates /\ Bounded(y) /\ y.num = x.num /\ y.rs = FreshResponse
      /\ SerSound(y.rq.ser) /\ Work(y) + 8 <= Work(x)
  BY <1>1, <1>3, RequestReadAdvances
<1>5. Rest(y)
  BY <1>2
<1> HIDE DEF y
<1>6. Work(y) \in Nat /\ y.rq \in RequestSides
  BY <1>4, PartTypes DEF SessionStates
<1>7. ASSUME NEW w \in SessionStates, w.rs = y.rs, w.rt = y.rt, w.rq.started = y.rq.started,
             w.rq.len = y.rq.len, w.rq.got = y.rq.got, w.rq.done = y.rq.done,
             w.rq.held = y.rq.held, w.rq.ser = y.rq.ser
      PROVE  /\ Advances(x, PullRequest(w))
             /\ w.pend \in {"connect", "none"} => Advances(x, w)
  <2>1. Bounded(w) /\ Work(w) = Work(y) /\ ToDo(w) = Work(y) + Stage[w.pend]
    BY <1>4, <1>7, SameWork
  <2>2. \/ PullRequest(w).pend = "closed"
        \/ Bounded(PullRequest(w)) /\ ToDo(PullRequest(w)) \in 0..(Work(w) + 4)
    BY <1>4, <1>7, <2>1, PullRequestAdvances DEF Bounded
  <2>3. Advances(x, PullRequest(w))
    BY <1>3, <1>4, <1>6, <2>1, <2>2 DEF Advances
  <2>4. w.pend \in {"connect", "none"} => Stage[w.pend] \in 0..6
    BY DEF Stage
  <2> QED
    BY <1>3, <1>4, <1>6, <2>1, <2>3, <2>4 DEF Advances
<1>8. CASE ~x.rq.connecting
  <2> DEFINE e == next_endpoint
             z == [y EXCEPT !.ep = e, !.rq.connecting = TRUE]
             v == [z EXCEPT !.up = PooledConn(e)]
             u == [z EXCEPT !.pend = "connect"]
  <2>1. e \in Endpoints /\ idle_pools \in [Endpoints -> Seq(Conns)] /\ Types
    BY <1>3, InvTypes DEF SoundInv
  <2>2. /\ z \in SessionStates /\ z.rt = y.rt /\ z.rs = y.rs
        /\ z.rq = [y.rq EXCEPT !.connecting = TRUE]
    BY <1>4, <2>1 DEF SessionStates, RequestSides
  <2>3. /\ z.rq.started = y.rq.started /\ z.rq.len = y.rq.len /\ z.rq.got = y.rq.got
        /\ z.rq.done = y.rq.done /\ z.rq.held = y.rq.held /\ z.rq.ser = y.rq.ser
    BY <1>6, <2>2 DEF RequestSides
  <2>4. connect_upstream(s, y, HeadCounted(x))
    BY <1>5, <1>8
  <2>5. CASE PoolHit(e)
    <3>1. PooledConn(e) \in Conns
      BY <1>3, <2>1, <2>5, PoppedType DEF PoolHit, SoundInv
    <3>2. Settle(s, PullRequest(v), Dropped(socks, y.up), AfterPop(e), HeadCounted(x))
      BY <2>4, <2>5 DEF connect_upstream
    <3> HIDE DEF z
    <3>3. v \in SessionStates /\ v.rq = z.rq /\ v.rt = z.rt /\ v.rs = z.rs
      BY <2>2, <3>1 DEF SessionStates
    <3> HIDE DEF v
    <3>4. Advances(x, PullRequest(v))
      BY <1>7, <2>2, <2>3, <3>3
    <3> QED
      BY <1>3, <3>2, <3>4, SettleAdvances
  <2>6. CASE ~PoolHit(e)
    <3>1. Settle(s, u, socks, idle_pools, HeadCounted(x))
      BY <2>4, <2>6 DEF connect_upstream
    <3> HIDE DEF z
    <3>2. u \in SessionStates /\ u.rq = z.rq /\ u.rt = z.rt /\ u.rs = z.rs /\ u.pend = "connect"
      BY <2>2 DEF SessionStates, Pending
    <3> HIDE DEF u
    <3>3. Advances(x, u)
      BY <1>7, <2>2, <2>3, <3>2
    <3> QED
      BY <1>3, <3>1, <3>3, SettleAdvances
  <2> QED
    BY <2>5, <2>6
<1>9. CASE x.rq.connecting
  <2> DEFINE v == [y EXCEPT !.pend = "none"]
  <2>1. v \in SessionStates /\ v.rq = y.rq /\ v.rt = y.rt /\ v.rs = y.rs /\ v.pend = "none"
    BY <1>4 DEF SessionStates, Pending
  <2>2. Settle(s, IF x.up = NoConn THEN v ELSE PullRequest(y), socks, idle_pools, HeadCounted(x))
    BY <1>5, <1>9
  <2> HIDE DEF v
  <2>3. Advances(x, v) /\ Advances(x, PullRequest(y))
    BY <1>4, <1>7, <2>1
  <2> QED
    BY <1>3, <2>2, <2>3, SettleAdvances
<1> QED
  BY <1>8, <1>9

\* A filter answers the request.
LEMMA RequestRefusedAdvances ==
  ASSUME AdvanceInv, NEW s \in Sessions, RequestRefused(s)
  PROVE  AdvanceStep(s)
<1> DEFINE x == sess[s]
<1> DEFINE Ends(r, a, b) ==
             Settle(s, RespondDirectly(ParsedRequest(x, r, a), b), socks, idle_pools, HeadCounted(x))
<1>13. PICK r \in Requests(x) : \E a \in Arrivals(r.framing, r.len, x.rq.got) :
         \E b \in 0..MaxDirect : Ends(r, a, b)
  BY DEF RequestRefused
<1>14. PICK a \in Arrivals(r.framing, r.len, x.rq.got) : \E b \in 0..MaxDirect : Ends(r, a, b)
  BY <1>13
<1>0. PICK b \in 0..MaxDirect : Ends(r, a, b)
  BY <1>14
<1> DEFINE y == ParsedRequest(x, r, a)
<1>1. /\ x \in SessionStates /\ Sound(x) /\ Bounded(x) /\ SoundInv /\ x.pend = "read_down"
      /\ Work(x) \in Nat /\ ToDo(x) = Work(x) + 4
  BY AdvanceTypes DEF RequestRefused
<1>2. r \in Heads /\ x.rq.got \in Nat
  BY <1>1, RequestsType DEF SessionStates, RequestSides
<1>3. a \in Reads /\ a.k \in Nat /\ a.end \in BOOLEAN
  BY <1>2, ArrivalsType DEF Heads, Reads
<1>4. y \in SessionStates
  BY <1>1, <1>2, <1>3, ParsedRequestType
<1>5. y.num = x.num /\ y.rt = x.rt /\ y.rs = x.rs
  BY <1>1, ParsedRequestSound
<1>6. /\ Within(y.rq) /\ ToWrite(y.rq) = ToWrite(x.rq) /\ ToRead(y.rq) \in Nat
      /\ ToRead(y.rq) + a.k + (IF a.end THEN 1 ELSE 0) + (IF x.rq.started THEN 0 ELSE 1)
           <= ToRead(x.rq)
  BY <1>1, ParsedRequestAdvances
<1> HIDE DEF y
<1>7. ToRead(y.rq) <= ToRead(x.rq)
  BY <1>1, <1>3, <1>6, PartTypes
<1>8. Bounded(y) /\ Chances(y) = Chances(x)
  BY <1>1, <1>5, <1>6 DEF Bounded, Chances
<1>9. Work(y) <= Work(x) /\ Work(y) \in Nat
  BY <1>1, <1>4, <1>5, <1>6, <1>7, <1>8, PartTypes
<1>10. y.rs = FreshResponse
  BY <1>1, <1>5, ReadingDown
<1>11. Bounded(RespondDirectly(y, b)) /\ ToDo(RespondDirectly(y, b)) \in 0..(Work(y) - 5)
  BY <1>4, <1>8, <1>10, FreshFacts, RespondAdvances
<1>12. Advances(x, RespondDirectly(y, b))
  BY <1>1, <1>9, <1>11 DEF Advances
<1> QED
  BY <1>0, <1>1, <1>12, SettleAdvances DEF y

\* A connection is made, or a write completes: what is pulled goes out next.
LEMMA RequestWriteAdvances ==
  ASSUME AdvanceInv, NEW s \in Sessions, ConnectSucceeds(s) \/ WriteSucceeds(s)
  PROVE  AdvanceStep(s)
<1> DEFINE x == sess[s]
           runs == IF Completes(x, x.rt.n) THEN x.rq.runs + 1 ELSE x.rq.runs
           v == [x EXCEPT !.up = FreshConn]
           w == [x EXCEPT !.rt.wrote = TRUE, !.rt.n = 0,
                          !.rq.runs = IF Completes(x, x.rt.n) THEN @ + 1 ELSE @]
<1>1. /\ x \in SessionStates /\ Sound(x) /\ Bounded(x) /\ SoundInv /\ OwnInv
      /\ x.rq \in RequestSides /\ x.rt \in RetryStates
  BY AdvanceTypes DEF SoundInv, SessionStates
<1>2. /\ Work(x) \in Nat /\ ToDo(x) \in {Work(x) + 5, Work(x) + 6}
      /\ x.rs = FreshResponse /\ SerSound(x.rq.ser)
  <2>1. x.pend \in {"connect", "write_up", "rewrite_w"}
    BY DEF ConnectSucceeds, WriteSucceeds
  <2> QED
    BY <1>1, <2>1, AdvanceTypes, NoResponseYet
<1>3. ASSUME NEW y \in SessionStates, NEW sk, Settle(s, PullRequest(y), sk, idle_pools, metrics),
             y.rs = x.rs, y.rt.used = x.rt.used, y.rt.any = x.rt.any,
             y.rq.started = x.rq.started, y.rq.len = x.rq.len, y.rq.got = x.rq.got,
             y.rq.done = x.rq.done, y.rq.held = x.rq.held, y.rq.ser = x.rq.ser
      PROVE  AdvanceStep(s)
  <2>1. Bounded(y) /\ Work(y) = Work(x)
    BY <1>1, <1>3, SameWork
  <2>2. \/ PullRequest(y).pend = "closed"
        \/ Bounded(PullRequest(y)) /\ ToDo(PullRequest(y)) \in 0..(Work(x) + 4)
    BY <1>2, <1>3, <2>1, PullRequestAdvances DEF Bounded
  <2>3. Advances(x, PullRequest(y))
    BY <1>2, <2>2 DEF Advances
  <2> QED
    BY <1>1, <1>3, <2>3, SettleAdvances
<1>4. CASE ConnectSucceeds(s)
  <2>1. FreshConn \in Conns
    BY <1>1, <1>4, FreshConnType DEF ConnectSucceeds
  <2>2. v \in SessionStates /\ v.rq = x.rq /\ v.rt = x.rt /\ v.rs = x.rs
    BY <1>1, <2>1 DEF SessionStates
  <2>3. \E sk : Settle(s, PullRequest(v), sk, idle_pools, metrics)
    BY <1>4 DEF ConnectSucceeds
  <2> HIDE DEF v
  <2> QED
    BY <1>3, <2>2, <2>3
<1>5. CASE WriteSucceeds(s)
  <2>1. runs \in Nat
    BY <1>1 DEF RequestSides
  <2>2. w = [x EXCEPT !.rt = [x.rt EXCEPT !.wrote = TRUE, !.n = 0], !.rq = [x.rq EXCEPT !.runs = runs]]
    BY <1>1 DEF SessionStates, RetryStates, RequestSides
  <2>3. \E sk : Settle(s, PullRequest(w), sk, idle_pools, metrics)
    BY <1>5 DEF WriteSucceeds
  <2> HIDE DEF w, runs
  <2> DEFINE rt == [x.rt EXCEPT !.wrote = TRUE, !.n = 0]
             rq == [x.rq EXCEPT !.runs = runs]
  <2>4. /\ rt \in RetryStates /\ rt.used = x.rt.used /\ rt.any = x.rt.any
    BY <1>1 DEF RetryStates
  <2>5. /\ rq \in RequestSides /\ rq.started = x.rq.started /\ rq.len = x.rq.len /\ rq.got = x.rq.got
        /\ rq.done = x.rq.done /\ rq.held = x.rq.held /\ rq.ser = x.rq.ser
    BY <1>1, <2>1 DEF RequestSides
  <2>6. w = [x EXCEPT !.rt = rt, !.rq = rq]
    BY <2>2
  <2> HIDE DEF rt, rq
  <2>7. w \in SessionStates /\ w.rs = x.rs /\ w.rt = rt /\ w.rq = rq
    BY <1>1, <2>4, <2>5, <2>6 DEF SessionStates
  <2> QED
    BY <1>3, <2>3, <2>4, <2>5, <2>7
<1> QED
  BY <1>4, <1>5

\* A retry is used up, and the rest of it comes nearer to the next read.
LEMMA RetryAdvances ==
  ASSUME AdvanceInv, NEW s \in Sessions,
         WriteFails(s) \/ ResponseReadFails(s) \/ ReconnectSucceeds(s) \/ SnapshotWritten(s)
  PROVE  AdvanceStep(s)
<1> DEFINE x == sess[s]
<1>1. /\ x \in SessionStates /\ Sound(x) /\ Bounded(x) /\ SoundInv /\ OwnInv
      /\ x.rq \in RequestSides /\ x.rt \in RetryStates /\ x.rs \in ResponseSides /\ x.pend \in Pending
      /\ Work(x) \in Nat /\ ToDo(x) = Work(x) + Stage[x.pend]
  BY AdvanceTypes DEF SoundInv, SessionStates
<1>2. ASSUME NEW p \in {"reconnect_w", "reconnect_r"}, Retries(s, p), ~x.rt.used PROVE AdvanceStep(s)
  <2> DEFINE rt == [x.rt EXCEPT !.used = TRUE]
             y == [x EXCEPT !.rt.used = TRUE, !.up = NoConn, !.pend = p]
  <2>1. y = [x EXCEPT !.rt = rt, !.up = NoConn, !.pend = p]
    BY <1>1 DEF SessionStates, RetryStates
  <2>2. \E sk : Settle(s, y, sk, idle_pools, Counted("retries"))
    BY <1>2 DEF Retries
  <2>3. rt \in RetryStates /\ rt.used /\ rt.any = x.rt.any
    BY <1>1 DEF RetryStates
  <2> HIDE DEF y, rt
  <2>4. y \in SessionStates /\ y.rt = rt /\ y.rq = x.rq /\ y.rs = x.rs /\ y.pend = p
    BY <1>1, <1>2, <2>1, <2>3 DEF SessionStates, Pending
  <2>5. Bounded(y)
    BY <1>1, <2>4 DEF Bounded
  <2>6. Chances(y) + 8 = Chances(x)
    <3>1. /\ (IF x.rt.any THEN 0 ELSE 1) \in Nat /\ HeadUnits \in Nat /\ MaxDirect \in Nat
          /\ (IF x.rs.direct THEN 0 ELSE HeadUnits + MaxDirect + 8) \in Nat
      BY SerializerAssumption, SessionAssumption
    <3> QED
      BY <1>2, <2>3, <2>4, <3>1 DEF Chances
  <2>7. Work(y) + 8 = Work(x) /\ Work(y) \in Nat /\ ToDo(y) = Work(y) + Stage[y.pend] /\ ToDo(y) \in Nat
    BY <1>1, <2>4, <2>5, <2>6, PartTypes
  <2>8. Stage[y.pend] \in {4, 7} /\ Stage[x.pend] \in Nat
    BY <1>1, <2>4 DEF Stage, Pending
  <2>9. Advances(x, y)
    BY <1>1, <2>5, <2>7, <2>8 DEF Advances
  <2> QED
    BY <1>1, <2>2, <2>9, SettleAdvances
<1>3. CASE WriteFails(s)
  BY <1>1, <1>2, <1>3, ClosesAdvances DEF WriteFails, MayRetryWrite
<1>4. CASE ResponseReadFails(s)
  BY <1>1, <1>2, <1>4, ClosesAdvances DEF ResponseReadFails, MayRetryRead
<1>5. CASE ReconnectSucceeds(s)
  <2> DEFINE p == IF x.pend = "reconnect_w" THEN "rewrite_w" ELSE "rewrite_r"
             y == [x EXCEPT !.up = FreshConn, !.pend = p]
  <2>1. FreshConn \in Conns /\ x.pend \in {"reconnect_w", "reconnect_r"}
    BY <1>1, <1>5, FreshConnType DEF ReconnectSucceeds
  <2>2. \E sk : Settle(s, y, sk, idle_pools, metrics)
    BY <1>5 DEF ReconnectSucceeds
  <2>3. y \in SessionStates /\ y.rt = x.rt /\ y.rq = x.rq /\ y.rs = x.rs /\ y.pend = p
    BY <1>1, <2>1 DEF SessionStates, Pending
  <2>4. Stage[p] = Stage[x.pend] - 1 /\ Stage[x.pend] \in {4, 7}
    BY <2>1 DEF Stage
  <2> HIDE DEF y, p
  <2>5. Bounded(y) /\ ToDo(y) = Work(x) + Stage[p]
    BY <1>1, <2>3, SameWork
  <2>6. Advances(x, y)
    BY <1>1, <2>4, <2>5 DEF Advances
  <2> QED
    BY <1>1, <2>2, <2>6, SettleAdvances
<1>6. CASE SnapshotWritten(s)
  <2> DEFINE runs == IF Completes(x, x.rt.snap) THEN x.rq.runs + 1 ELSE x.rq.runs
             rq == [x.rq EXCEPT !.runs = runs]
             w == [x EXCEPT !.rq.runs = IF Completes(x, x.rt.snap) THEN @ + 1 ELSE @]
             y == StartResponsePhase(w)
  <2>1. x.pend = "rewrite_r" /\ \E sk : Settle(s, y, sk, idle_pools, metrics)
    BY <1>6 DEF SnapshotWritten
  <2>2. w = [x EXCEPT !.rq = rq] /\ runs \in Nat
    BY <1>1 DEF SessionStates, RequestSides
  <2> HIDE DEF runs, w
  <2>3. /\ rq \in RequestSides /\ rq.started = x.rq.started /\ rq.len = x.rq.len /\ rq.got = x.rq.got
        /\ rq.done = x.rq.done /\ rq.held = x.rq.held /\ rq.ser = x.rq.ser
    BY <1>1, <2>2 DEF RequestSides
  <2> HIDE DEF rq
  <2>4. w \in SessionStates /\ w.rq = rq /\ w.rt = x.rt /\ w.rs = x.rs
    BY <1>1, <2>2, <2>3 DEF SessionStates
  <2>5. y \in SessionStates
    BY <2>4, StartResponseType
  <2>6. /\ y.pend = "read_up" /\ y.rq = rq /\ y.rt = x.rt
        /\ y.rs = [x.rs EXCEPT !.got = 0, !.done = FALSE, !.ser = StartSerializer(FALSE)]
    BY <1>1, <2>4 DEF StartResponsePhase, SessionStates, ResponseSides
  <2>7. x.rs = FreshResponse
    BY <1>1, <2>1, NoResponseYet
  <2>8. y.rs = x.rs
    BY <2>6, <2>7, FreshFacts
  <2> HIDE DEF y
  <2>9. Bounded(y) /\ ToDo(y) = Work(x) + Stage[y.pend]
    BY <1>1, <2>3, <2>5, <2>6, <2>8, SameWork
  <2>10. Stage[y.pend] = 2 /\ Stage[x.pend] = 3
    BY <2>1, <2>6 DEF Stage
  <2>11. Advances(x, y)
    BY <1>1, <2>9, <2>10 DEF Advances
  <2> QED
    BY <1>1, <2>1, <2>11, SettleAdvances
<1> QED
  BY <1>3, <1>4, <1>5, <1>6

\* The first bytes of an answer come once.
LEMMA ResponseHeadBeginsAdvances ==
  ASSUME AdvanceInv, NEW s \in Sessions, ResponseHeadBegins(s)
  PROVE  AdvanceStep(s)
<1> DEFINE x == sess[s]
           rt == [x.rt EXCEPT !.any = TRUE]
           y == [x EXCEPT !.rt.any = TRUE]
<1>1. /\ x \in SessionStates /\ Bounded(x) /\ SoundInv /\ x.rt \in RetryStates
      /\ Work(x) \in Nat /\ ToDo(x) = Work(x) + Stage[x.pend] /\ ~x.rt.any
  BY AdvanceTypes DEF ResponseHeadBegins, SessionStates
<1>2. Settle(s, y, socks, idle_pools, metrics) /\ y = [x EXCEPT !.rt = rt]
  BY <1>1 DEF ResponseHeadBegins, SessionStates, RetryStates
<1>3. rt \in RetryStates /\ rt.any /\ rt.used = x.rt.used
  BY <1>1 DEF RetryStates
<1> HIDE DEF y, rt
<1>4. y \in SessionStates /\ y.rt = rt /\ y.rq = x.rq /\ y.rs = x.rs /\ y.pend = x.pend
  BY <1>1, <1>2, <1>3 DEF SessionStates
<1>5. Bounded(y)
  BY <1>1, <1>4 DEF Bounded
<1>6. Chances(y) + 1 = Chances(x)
  <2>1. /\ (IF x.rt.used THEN 0 ELSE 8) \in Nat /\ HeadUnits \in Nat /\ MaxDirect \in Nat
        /\ (IF x.rs.direct THEN 0 ELSE HeadUnits + MaxDirect + 8) \in Nat
    BY SerializerAssumption, SessionAssumption
  <2> QED
    BY <1>1, <1>3, <1>4, <2>1 DEF Chances
<1>7. ToDo(y) + 1 = ToDo(x) /\ ToDo(y) \in Nat
  BY <1>1, <1>4, <1>5, <1>6, PartTypes
<1>8. Advances(x, y)
  BY <1>5, <1>7 DEF Advances
<1> QED
  BY <1>1, <1>2, <1>8, SettleAdvances

\* A read of the response is relayed.
LEMMA ResponseChunkAdvances ==
  ASSUME AdvanceInv, NEW s \in Sessions, ResponseChunk(s)
  PROVE  AdvanceStep(s)
<1> DEFINE x == sess[s]
           Ends(r, a, j) ==
             pull_and_write_response(s, DrainedResponse(ParsedResponse(x, r, a), a, j),
                                     AfterAnswer(x.up, r, a))
<1>1. PICK r \in Responses(x) :
        \E a \in Arrivals(r.framing, r.len, x.rs.got) :
          /\ x.rs.started => a.k > 0 \/ a.end
          /\ \E j \in Passed(x.rs.held, a.k, a.end, RespBody) : Ends(r, a, j)
  BY DEF ResponseChunk
<1>2. PICK a \in Arrivals(r.framing, r.len, x.rs.got) :
        /\ x.rs.started => a.k > 0 \/ a.end
        /\ \E j \in Passed(x.rs.held, a.k, a.end, RespBody) : Ends(r, a, j)
  BY <1>1
<1>3. PICK j \in Passed(x.rs.held, a.k, a.end, RespBody) : Ends(r, a, j)
  BY <1>2
<1>4. /\ x \in SessionStates /\ Sound(x) /\ Bounded(x) /\ SoundInv /\ x.pend = "read_up"
      /\ Work(x) \in Nat /\ ToDo(x) = Work(x) + 2
  BY AdvanceTypes DEF ResponseChunk, Answering
<1> DEFINE z == DrainedResponse(ParsedResponse(x, r, a), a, j)
<1>5. /\ z \in SessionStates /\ Bounded(z) /\ z.num = x.num
      /\ SerSound(z.rs.ser) /\ Work(z) + 8 <= Work(x)
  BY <1>2, <1>4, ResponseReadAdvances
<1>6. \E sk, pl : Settle(s, PullResponse(z), sk, pl, metrics)
  BY <1>3 DEF pull_and_write_response
<1> HIDE DEF z
<1>7. Work(z) \in Nat
  BY <1>5, PartTypes
<1>8. \/ PullResponse(z).pend = "closed"
      \/ Bounded(PullResponse(z)) /\ PullResponse(z).num > z.num
      \/ Bounded(PullResponse(z)) /\ ToDo(PullResponse(z)) \in 0..(Work(z) + 2)
  BY <1>5, PullResponseAdvances
<1>9. Advances(x, PullResponse(z))
  BY <1>4, <1>5, <1>7, <1>8 DEF Advances
<1> QED
  BY <1>4, <1>6, <1>9, SettleAdvances

\* A filter answers in place of the server.
LEMMA ResponseRefusedAdvances ==
  ASSUME AdvanceInv, NEW s \in Sessions, ResponseRefused(s)
  PROVE  AdvanceStep(s)
<1> DEFINE x == sess[s]
           Ends(r, a, b) ==
             Settle(s, RespondDirectly(ParsedResponse(x, r, a), b), AfterAnswer(x.up, r, a),
                    idle_pools, metrics)
<1>1. PICK r \in Responses(x) : \E a \in Arrivals(r.framing, r.len, x.rs.got) :
        \E b \in 0..MaxDirect : Ends(r, a, b)
  BY DEF ResponseRefused
<1>2. PICK a \in Arrivals(r.framing, r.len, x.rs.got) : \E b \in 0..MaxDirect : Ends(r, a, b)
  BY <1>1
<1>3. PICK b \in 0..MaxDirect : Ends(r, a, b)
  BY <1>2
<1> DEFINE y == ParsedResponse(x, r, a)
<1>4. /\ x \in SessionStates /\ Sound(x) /\ Bounded(x) /\ SoundInv /\ x.pend = "read_up"
      /\ Work(x) \in Nat /\ ToDo(x) = Work(x) + 2
  BY AdvanceTypes DEF ResponseRefused, Answering
<1>5. r \in Heads /\ x.rs.got \in Nat
  BY <1>4, ResponsesType DEF SessionStates, ResponseSides
<1>6. a \in Reads /\ a.k \in Nat /\ a.end \in BOOLEAN
  BY <1>5, ArrivalsType DEF Heads, Reads
<1>7. y \in SessionStates
  BY <1>4, <1>5, <1>6, ParsedResponseType
<1>8. /\ y.num = x.num /\ y.rq = x.rq /\ y.rt.any /\ y.rt.used = x.rt.used
      /\ y.rs.started /\ ~y.rs.direct
  BY <1>4, ParsedResponseSound
<1>9. /\ Within(y.rs) /\ ToWrite(y.rs) = ToWrite(x.rs) /\ ToRead(y.rs) \in Nat
      /\ ToRead(y.rs) + a.k + (IF a.end THEN 1 ELSE 0) + (IF x.rs.started THEN 0 ELSE 1)
           <= ToRead(x.rs)
  BY <1>4, ParsedResponseAdvances
<1> HIDE DEF y
<1>10. ~x.rs.direct /\ HeadUnits \in Nat /\ MaxDirect \in Nat
  BY <1>4, SerializerAssumption, SessionAssumption DEF Sound, PhaseSound
<1>11. ToRead(y.rs) <= ToRead(x.rs)
  BY <1>4, <1>6, <1>9, PartTypes
<1>12. Bounded(y) /\ Chances(y) <= Chances(x)
  BY <1>4, <1>8, <1>9, <1>10 DEF Bounded, Chances
<1>13. Work(y) <= Work(x) /\ Work(y) \in Nat
  BY <1>4, <1>7, <1>8, <1>9, <1>11, <1>12, PartTypes
<1>14. Bounded(RespondDirectly(y, b)) /\ ToDo(RespondDirectly(y, b)) \in 0..(Work(y) - 5)
  BY <1>7, <1>8, <1>12, RespondAdvances
<1>15. Advances(x, RespondDirectly(y, b))
  BY <1>4, <1>13, <1>14 DEF Advances
<1> QED
  BY <1>3, <1>4, <1>15, SettleAdvances DEF y

\* A write to the client completes.
LEMMA ResponseWrittenAdvances ==
  ASSUME AdvanceInv, NEW s \in Sessions, ResponseWritten(s)
  PROVE  AdvanceStep(s)
<1> DEFINE x == sess[s]
<1>1. /\ x \in SessionStates /\ Sound(x) /\ Bounded(x) /\ SoundInv
      /\ Work(x) \in Nat /\ ToDo(x) = Work(x) + 3
  BY AdvanceTypes DEF ResponseWritten
<1>2. SerSound(x.rs.ser)
  BY <1>1 DEF Sound, ResponseSound
<1>3. \E sk, pl : Settle(s, PullResponse(x), sk, pl, metrics)
  BY DEF ResponseWritten, pull_and_write_response
<1>4. Advances(x, PullResponse(x))
  BY <1>1, <1>2, PullResponseAdvances DEF Advances
<1> QED
  BY <1>1, <1>3, <1>4, SettleAdvances

\* Every handler ends its session, goes on to the next request or leaves less to do.
LEMMA HandlerAdvances ==
  ASSUME AdvanceInv, NEW s \in Sessions, Handler(s)
  PROVE  AdvanceStep(s)
<1>1. SoundInv
  BY DEF AdvanceInv
<1>2. CASE RequestReadFails(s) \/ ConnectFails(s) \/ RewriteFails(s) \/ ResponseMalformed(s)
           \/ ClientGone(s)
  BY <1>1, <1>2, ClosesAdvances
     DEF RequestReadFails, ConnectFails, RewriteFails, ResponseMalformed, ClientGone
<1>3. CASE RequestChunk(s) \/ RequestRefused(s)
  BY <1>3, RequestChunkAdvances, RequestRefusedAdvances
<1>4. CASE ConnectSucceeds(s) \/ WriteSucceeds(s)
  BY <1>4, RequestWriteAdvances
<1>5. CASE WriteFails(s) \/ ResponseReadFails(s) \/ ReconnectSucceeds(s) \/ SnapshotWritten(s)
  BY <1>5, RetryAdvances
<1>6. CASE ResponseHeadBegins(s) \/ ResponseChunk(s) \/ ResponseRefused(s) \/ ResponseWritten(s)
  BY <1>6, ResponseHeadBeginsAdvances, ResponseChunkAdvances, ResponseRefusedAdvances,
     ResponseWrittenAdvances
<1> QED
  BY <1>2, <1>3, <1>4, <1>5, <1>6 DEF Handler

\* start() leaves the read it has started.
LEMMA StartAdvances ==
  ASSUME AdvanceInv, NEW s \in Sessions, start(s)
  PROVE  AdvanceStep(s) /\ sess'[s].pend # "unborn"
<1> DEFINE x == sess[s]
           y == [FreshSession EXCEPT !.pend = "read_down"]
<1>1. /\ x = FreshSession /\ x \in SessionStates /\ Bounded(x) /\ s \in DOMAIN sess
      /\ Work(x) \in Nat /\ ToDo(x) = Work(x) + Stage[x.pend]
  BY AdvanceTypes DEF AdvanceInv, SoundInv, OwnInv, Types, start
<1>2. sess'[s] = y /\ y = [x EXCEPT !.pend = "read_down"]
  BY <1>1 DEF start
<1> HIDE DEF y
<1>3. y \in SessionStates /\ y.pend = "read_down" /\ y.rq = x.rq /\ y.rt = x.rt /\ y.rs = x.rs
  BY <1>1, <1>2 DEF SessionStates, Pending
<1>4. Bounded(y) /\ ToDo(y) = Work(x) + Stage[y.pend]
  BY <1>1, <1>3, SameWork
<1>5. x.pend = "unborn"
  BY DEF start
<1>6. Stage[y.pend] = 4 /\ Stage[x.pend] = 5
  BY <1>3, <1>5 DEF Stage
<1>7. Advances(x, y)
  BY <1>1, <1>4, <1>6 DEF Advances
<1> QED
  BY <1>2, <1>3, <1>4, <1>7 DEF AdvanceStep

\* What every step does to every session.
AdvancesOrStays ==
  \A s \in Sessions : sess'[s] = sess[s] \/ AdvanceStep(s)

\* No handler leaves its session as it found it.
LEMMA HandlerActs ==
  ASSUME AdvanceInv, NEW s \in Sessions, Handler(s)
  PROVE  sess'[s] # sess[s]
<1>1. SoundInv /\ ToDo(sess[s]) \in Int /\ sess[s].num \in Nat
  BY AdvanceTypes, PartTypes DEF SessionStates
<1>2. sess[s].pend # "closed"
  BY <1>1, HandlerTallies DEF Open
<1>3. Advances(sess[s], sess'[s])
  BY HandlerAdvances DEF AdvanceStep
<1> QED
  BY <1>1, <1>2, <1>3 DEF Advances

\* Nothing has been read.
LEMMA AdvanceInit == Init => AdvanceInv
<1> SUFFICES ASSUME Init PROVE AdvanceInv
  OBVIOUS
<1>1. ASSUME NEW s \in Sessions PROVE Bounded(sess[s]) /\ sess[s] = FreshSession
  <2>1. sess[s] = FreshSession
    BY DEF Init
  <2>2. FreshSession.rq = FreshRequest /\ FreshSession.rs = FreshResponse
    BY DEF FreshSession
  <2> QED
    BY <2>1, <2>2, FreshFacts DEF Bounded, Within
<1> QED
  BY <1>1, StreamInit DEF AdvanceInv

\* Every step.
LEMMA AdvanceNext == AdvanceInv /\ [Next]_vars => AdvanceInv' /\ AdvancesOrStays
<1> SUFFICES ASSUME AdvanceInv, [Next]_vars PROVE AdvanceInv' /\ AdvancesOrStays
  OBVIOUS
<1> DEFINE Kept(t) == sess'[t] = sess[t]
<1>1. SoundInv'
  BY StreamNext DEF AdvanceInv
<1>2. SoundInv /\ DOMAIN sess = Sessions
  BY DEF AdvanceInv, SoundInv, OwnInv, Types
<1>3. CASE UNCHANGED sess
  BY <1>1, <1>3 DEF AdvanceInv, AdvancesOrStays, Bounded, Within
<1>4. ASSUME NEW s \in Sessions, AdvanceStep(s), sess'[s].pend # "unborn",
             \A t \in Sessions \ {s} : Kept(t)
      PROVE  AdvanceInv' /\ AdvancesOrStays
  <2>1. ASSUME NEW t \in Sessions
        PROVE  /\ Bounded(sess'[t]) /\ (sess'[t].pend = "unborn" => sess'[t] = FreshSession)
               /\ sess'[t] = sess[t] \/ AdvanceStep(t)
    <3>1. CASE t = s
      BY <1>4, <3>1 DEF AdvanceStep
    <3>2. CASE t # s
      BY <1>4, <3>2 DEF AdvanceInv
    <3> QED
      BY <3>1, <3>2
  <2>2. (\A t \in Sessions : Bounded(sess[t]) /\ (sess[t].pend = "unborn" => sess[t] = FreshSession))'
    BY <2>1 DEF Bounded, Within
  <2> QED
    BY <1>1, <2>1, <2>2 DEF AdvanceInv, AdvancesOrStays
<1>5. ASSUME NEW s \in Sessions, start(s) PROVE AdvanceInv' /\ AdvancesOrStays
  <2>1. \A t \in Sessions \ {s} : Kept(t)
    BY <1>2, <1>5 DEF start
  <2> QED
    BY <1>4, <1>5, <2>1, StartAdvances
<1>6. ASSUME NEW s \in Sessions, Handler(s) PROVE AdvanceInv' /\ AdvancesOrStays
  <2>1. \E x, sk, pl, m : Settle(s, x, sk, pl, m)
    BY <1>2, <1>6, HandlerTallies
  <2>2. \A t \in Sessions \ {s} : Kept(t)
    BY <1>2, <2>1 DEF Settle
  <2>3. sess'[s].pend # "unborn"
    BY <1>2, <1>6, HandlerStream DEF SoundStep
  <2> QED
    BY <1>4, <1>6, <2>2, <2>3, HandlerAdvances
<1> QED
  BY <1>3, <1>5, <1>6 DEF Next, ServerCloses, vars

\* Nothing runs in circles: every step of a session ends it, goes on to the next
\* request or leaves less to do, for bodies and reads of any size.
THEOREM SessionsRunOut == Spec => HandlersRunOut
<1>1. AdvanceInv /\ [Next]_vars =>
        [\A s \in Sessions :
           sess'[s] # sess[s] =>
             \/ sess'[s].pend = "closed"
             \/ sess'[s].num > sess[s].num
             \/ ToDo(sess'[s]) \in 0..(ToDo(sess[s]) - 1)]_vars
  BY AdvanceNext DEF AdvancesOrStays, AdvanceStep, Advances
<1> QED
  BY <1>1, AdvanceInit, AdvanceNext, PTL DEF Spec, HandlersRunOut

\* And no handler leaves its session as it was: at most ToDo of them run before the
\* session is closed or has gone on to the next request.
THEOREM HandlersAct == Spec => [][\A s \in Sessions : Handler(s) => sess'[s] # sess[s]]_vars
<1>1. AdvanceInv /\ [Next]_vars => [\A s \in Sessions : Handler(s) => sess'[s] # sess[s]]_vars
  BY HandlerActs
<1> QED
  BY <1>1, AdvanceInit, AdvanceNext, PTL DEF Spec
=============================================================================
