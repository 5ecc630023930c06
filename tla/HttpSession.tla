---------------------------- MODULE HttpSession ----------------------------
(***************************************************************************)
(* HttpSession (src/session/http_session.cpp): the sessions of one shard,  *)
(* sharing its UpstreamManager, BufferPool and LocalMetrics.               *)
(*                                                                         *)
(* All handlers of a shard run on its loop thread, so a handler is one     *)
(* atomic step: an action is a completion handler together with every call *)
(* it makes, down to the asynchronous operation it starts.  A session is   *)
(* half-duplex and has at most one operation under way, named by pend.     *)
(* What interleaves is the sessions, the clients and the servers.          *)
(*                                                                         *)
(* Bytes are counted in the units of Serializer and BodyFilterGate.        *)
(***************************************************************************)
EXTENDS Integers, UpstreamManager, Serializer, BodyFilterGate

CONSTANTS
  Sessions,       \* downstream connections the listener may hand to the shard
  MaxRequests,    \* bound: requests a client sends on one connection
  MaxBody,        \* bound: units of a request or response body
  MaxRead,        \* bound: body units one socket read delivers
  MaxDirect,      \* bound: body units of a response made by a filter
  MaxFree,        \* config.buffer_pool_max_free
  ReqFramings,    \* how clients delimit bodies: subset of {"length", "chunked"}
  RespFramings,   \* how servers delimit responses: see Framings
  ReqHead, ReqBody, RespHead, RespBody   \* verdicts the filters may return

\* "length": Content-Length.  "chunked": Transfer-Encoding.  "eof": ends when
\* the server closes.  "bodyless": complete with its head and without either
\* header (204, 304).  "interim": a 1xx head, the real answer still to come.
Framings == {"length", "chunked", "eof", "bodyless", "interim"}

ASSUME SessionAssumption ==
  /\ MaxRequests \in Nat /\ MaxBody \in Nat /\ MaxRead \in Nat \ {0}
  /\ MaxDirect \in Nat /\ MaxFree \in Nat
  /\ ReqFramings \subseteq {"length", "chunked"}
  /\ RespFramings \subseteq Framings
  /\ ReqHead \subseteq {"continue", "respond"}
  /\ RespHead \subseteq {"continue", "respond"}
  /\ ReqBody \subseteq Verdicts /\ RespBody \subseteq Verdicts

VARIABLES
  sess,      \* the fields of each session
  metrics,   \* LocalMetrics of the shard, byte counters left out
  free       \* length of BufferPool's free_list_

vars == <<next_endpoint, idle_pools, socks, sess, metrics, free>>

\* The operation under way.  "none" would be an open session that nothing will
\* ever wake up.
Pending ==
  {"unborn", "read_down", "connect", "write_up", "reconnect_w", "rewrite_w",
   "reconnect_r", "rewrite_r", "read_up", "write_down", "none", "closed"}

(***************************************************************************)
(* Request side: request_parser_ (framing, len, got, done), the gate's     *)
(* request state (held), request_serializer_ (ser; its last field is       *)
(* request_final_body_provided_), request_serializer_started_,             *)
(* upstream_connecting_ and downstream_wants_keep_alive_ (keep).  given    *)
(* and runs are history: body units given to the serialiser, and how often *)
(* a server received the request completely.                               *)
(***************************************************************************)
FreshRequest ==
  [started |-> FALSE, framing |-> "length", len |-> 0, keep |-> FALSE, got |-> 0,
   done |-> FALSE, held |-> 0, given |-> 0, ser |-> StartSerializer(FALSE),
   connecting |-> FALSE, runs |-> 0]

\* upstream_wrote_once_, upstream_retry_used_, upstream_whole_request_captured_
\* and the snapshot (its units and, as history, the request it was taken of),
\* upstream_response_read_any_, and n, the units of write_buf_ being written.
FreshRetry ==
  [wrote |-> FALSE, used |-> FALSE, captured |-> FALSE, snap |-> 0, snapOf |-> 0,
   any |-> FALSE, n |-> 0]

\* Response side, as for the request; direct_response_mode_ is direct and
\* downstream_keep_alive_effective_ is eff.  heads is history: response heads
\* begun towards the client for this request.
FreshResponse ==
  [started |-> FALSE, framing |-> "length", len |-> 0, keep |-> FALSE, got |-> 0,
   done |-> FALSE, held |-> 0, given |-> 0, ser |-> StartSerializer(FALSE),
   direct |-> FALSE, eff |-> FALSE, heads |-> 0]

FreshSession ==
  [pend |-> "unborn", up |-> NoConn, ep |-> 0, num |-> 1,
   rq |-> FreshRequest, rt |-> FreshRetry, rs |-> FreshResponse]

Init ==
  /\ InitUpstream
  /\ sess = [s \in Sessions |-> FreshSession]
  /\ metrics = [accepted |-> 0, active |-> 0, closed |-> 0, requests |-> 0,
                errors |-> 0, retries |-> 0]
  /\ free = 0
-----------------------------------------------------------------------------
\* close(): both sockets closed, both buffers back to the pool (which keeps at
\* most MaxFree), on_close().  The session is destroyed with its last handler.
ClosedSession == [FreshSession EXCEPT !.pend = "closed"]

\* LocalMetrics::on_accept()
AfterAccept(m) == [m EXCEPT !.accepted = @ + 1, !.active = @ + 1]

MutantAfterClose(m) == [m EXCEPT !.closed = @ + 1]

\* LocalMetrics::on_close()
AfterClose(m) == [m EXCEPT !.closed = @ + 1, !.active = @ - 1]

\* BufferPool::acquire() and release(), for the two buffers of a session.
BuffersTaken == free - Lesser(free, 2)
BuffersReturned == Lesser(free + 2, MaxFree)

\* The end of every handler: session s is left as x, sockets as sk, pools as pl
\* and counters as m; a handler that called close() leaves pend = "closed".
Settle(s, x, sk, pl, m) ==
  /\ idle_pools' = pl
  /\ IF x.pend = "closed"
     THEN /\ sess' = [sess EXCEPT ![s] = ClosedSession]
          /\ socks' = Dropped(sk, x.up)
          /\ metrics' = AfterClose(m)
          /\ free' = BuffersReturned
     ELSE /\ sess' = [sess EXCEPT ![s] = x]
          /\ socks' = sk
          /\ metrics' = m
          /\ UNCHANGED free

Closes(s, m) ==
  /\ Settle(s, [sess[s] EXCEPT !.pend = "closed"], socks, idle_pools, m)
  /\ UNCHANGED next_endpoint

Counted(field) == [metrics EXCEPT ![field] = @ + 1]

\* start() on a new session: the listener has handed over an accepted connection.
start(s) ==
  /\ sess[s].pend = "unborn"
  /\ sess' = [sess EXCEPT ![s] = [FreshSession EXCEPT !.pend = "read_down"]]
  /\ metrics' = AfterAccept(metrics)
  /\ free' = BuffersTaken
  /\ UNCHANGED upstream_vars
-----------------------------------------------------------------------------
(***************************************************************************)
(* Request: downstream read -> filters -> upstream write                   *)
(***************************************************************************)

MutantCapturesWhole(x, ser) == done(ser)

\* The first write carries the whole request: keep a copy for a read retry.
CapturesWhole(x, ser) == ~x.rt.wrote /\ done(ser)

\* start_response_phase(): a new parser and serialiser, then read.
StartResponsePhase(x) ==
  [x EXCEPT !.pend = "read_up", !.rs.got = 0, !.rs.done = FALSE,
            !.rs.ser = StartSerializer(FALSE)]

\* pull_and_write_request_to_upstream()
PullRequest(x) ==
  LET n == Pulled(x.rq.ser)
      y == [x EXCEPT !.rq.ser = pull(@)]
  IN CASE n > 0 /\ CapturesWhole(x, y.rq.ser) ->
            [y EXCEPT !.pend = "write_up", !.rt.n = n, !.rt.captured = TRUE,
                      !.rt.snap = n, !.rt.snapOf = x.num]
       [] n > 0 /\ ~CapturesWhole(x, y.rq.ser) ->
            [y EXCEPT !.pend = "write_up", !.rt.n = n]
       [] n = 0 /\ done(y.rq.ser) -> StartResponsePhase(y)
       [] n = 0 /\ ~done(y.rq.ser) /\ ~x.rq.done -> [y EXCEPT !.pend = "read_down"]
       [] OTHER -> [y EXCEPT !.pend = "closed"]

\* connect_upstream(): a pooled connection continues synchronously with the
\* write, a fresh one when it is connected.  A connection the session still
\* holds is destroyed when upstream_ is assigned.
connect_upstream(s, x, m) ==
  LET e == next_endpoint
      y == [x EXCEPT !.ep = e, !.rq.connecting = TRUE]
  IN /\ next_endpoint' = AfterSelect
     /\ IF PoolHit(e)
        THEN Settle(s, PullRequest([y EXCEPT !.up = PooledConn(e)]),
                    Dropped(socks, x.up), AfterPop(e), m)
        ELSE Settle(s, [y EXCEPT !.pend = "connect"], socks, idle_pools, m)

\* What a socket read may deliver of a message of which got units have been
\* read: k more units and, with end, the end of the message.  Only the end of
\* a chunked body can come apart from its last unit.
Arrivals(framing, len, got) ==
  {a \in [k : 0..Lesser(MaxRead, len - got), end : BOOLEAN] :
     /\ a.end => got + a.k = len
     /\ framing \in {"length", "bodyless", "interim"} => (got + a.k = len => a.end)
     /\ framing = "eof" => ~a.end}

Bodyless(framing) == framing \in {"bodyless", "interim"}

\* The request being read, or any request a client may begin.  A client sends
\* its next request after the answer to the last one (no pipelining).
Requests(x) ==
  IF x.rq.started
  THEN {[framing |-> x.rq.framing, len |-> x.rq.len, keep |-> x.rq.keep]}
  ELSE IF x.num > MaxRequests THEN {}
  ELSE [framing : ReqFramings, len : 0..MaxBody, keep : BOOLEAN]

\* feed() and, once the head is there, the request's filters and serialiser.
ParsedRequest(x, r, a) ==
  [x EXCEPT !.rq.started = TRUE, !.rq.framing = r.framing, !.rq.len = r.len,
            !.rq.keep = r.keep, !.rq.got = @ + a.k, !.rq.done = a.end,
            !.rq.ser = IF x.rq.started THEN @ ELSE StartSerializer(r.framing = "chunked")]

\* drain_request_body_into_serializer() lets through what the gate forwards up
\* to the j-th chunk of the read.  The end of the message closes the
\* serialiser's input, with the last chunk or with an empty one.
DrainedRequest(x, a, j) ==
  LET fwd == ForwardedBy(x.rq.held, j)
  IN [x EXCEPT !.rq.held = HeldBy(@, a.k, j), !.rq.given = @ + fwd,
               !.rq.ser = provide_body(@, fwd, a.end)]

\* The head filters are asked once, with the head: every one lets it pass, or one
\* of them answers.
HeadPasses(started, V) == started \/ "continue" \in V
HeadRefused(started, V) == ~started /\ "respond" \in V

HeadCounted(x) == IF x.rq.started THEN metrics ELSE Counted("requests")

\* respond_directly() followed by pull_and_write_response_to_downstream(): a
\* filter's answer of b body units replaces whatever was being relayed.
RespondDirectly(x, b) ==
  LET ser == provide_body(StartSerializer(FALSE), b, TRUE)
  IN [x EXCEPT !.pend = "write_down", !.rs.direct = TRUE, !.rs.started = TRUE,
               !.rs.ser = pull(ser), !.rs.heads = @ + 1]

\* process_downstream_chunk() when every filter lets the read through.
RequestChunk(s) ==
  LET x == sess[s]
  IN /\ x.pend = "read_down"
     /\ \E r \in Requests(x) : \E a \in Arrivals(r.framing, r.len, x.rq.got) :
          /\ x.rq.started => a.k > 0 \/ a.end
          /\ HeadPasses(x.rq.started, ReqHead)
          /\ \E j \in Passed(x.rq.held, a.k, a.end, ReqBody) :
               LET y == DrainedRequest(ParsedRequest(x, r, a), a, j)
               IN IF ~x.rq.connecting
                  THEN connect_upstream(s, y, HeadCounted(x))
                  ELSE /\ Settle(s, IF x.up = NoConn THEN [y EXCEPT !.pend = "none"]
                                    ELSE PullRequest(y),
                                 socks, idle_pools, HeadCounted(x))
                       /\ UNCHANGED next_endpoint

\* process_downstream_chunk() when a filter answers: the head is refused, or a
\* body chunk is (413 over the watermark included).
RequestRefused(s) ==
  LET x == sess[s]
  IN /\ x.pend = "read_down"
     /\ \E r \in Requests(x) : \E a \in Arrivals(r.framing, r.len, x.rq.got) :
          /\ \/ HeadRefused(x.rq.started, ReqHead)
             \/ HeadPasses(x.rq.started, ReqHead) /\ Rejected(x.rq.held, a.k, ReqBody)
          /\ \E b \in 0..MaxDirect :
               Settle(s, RespondDirectly(ParsedRequest(x, r, a), b), socks, idle_pools,
                      HeadCounted(x))
          /\ UNCHANGED next_endpoint

\* The client is gone, or what it sent cannot be parsed (possibly after a good
\* head in the same read).
RequestReadFails(s) ==
  /\ sess[s].pend = "read_down"
  /\ \E m \in {metrics, HeadCounted(sess[s])} : Closes(s, m)
-----------------------------------------------------------------------------
(***************************************************************************)
(* Upstream connection, first attempt and the one retry                    *)
(***************************************************************************)

\* Has the server received the request completely?  It counts the units of a
\* chunked body up to the terminator, the others up to Content-Length.
ReceivedWhole(x, units) ==
  /\ FullyPulled(x.rq.ser)
  /\ units = HeadUnits + x.rq.given + (IF x.rq.framing = "chunked" THEN 1 ELSE 0)
  /\ x.rq.framing = "length" => x.rq.given = x.rq.len

\* n more units reach the server, unless it has closed the connection: they may
\* complete the request.
Completes(x, n) == socks[x.up].alive /\ ReceivedWhole(x, socks[x.up].rx + n)

AfterDelivery(x, n, request) ==
  LET c == x.up
  IN [socks EXCEPT ![c].rx = IF Completes(x, n) THEN 0
                             ELSE IF socks[c].alive THEN @ + n ELSE @,
                   ![c].due = IF Completes(x, n) THEN Append(@, request) ELSE @]

ConnectSucceeds(s) ==
  LET x == sess[s]
  IN /\ x.pend = "connect"
     /\ Unused # {}
     /\ Settle(s, PullRequest([x EXCEPT !.up = FreshConn]),
               [Dropped(socks, x.up) EXCEPT ![FreshConn] = NewSocket(x.ep)],
               idle_pools, metrics)
     /\ UNCHANGED next_endpoint

\* Refused, unreachable, or timed out, on any of the three paths that connect.
ConnectFails(s) ==
  /\ sess[s].pend \in {"connect", "reconnect_w", "reconnect_r"}
  /\ Closes(s, Counted("errors"))

\* A write completes.  Without error it has reached the kernel; it has reached
\* the server only if that has not closed the connection.
WriteSucceeds(s) ==
  LET x == sess[s]
      y == [x EXCEPT !.rt.wrote = TRUE, !.rt.n = 0,
                     !.rq.runs = IF Completes(x, x.rt.n) THEN @ + 1 ELSE @]
  IN /\ x.pend \in {"write_up", "rewrite_w"}
     /\ Settle(s, PullRequest(y), AfterDelivery(x, x.rt.n, <<s, x.num>>), idle_pools, metrics)
     /\ UNCHANGED next_endpoint

MutantRetries(s, reconnect) ==
  /\ Settle(s, [sess[s] EXCEPT !.rt.used = TRUE, !.up = NoConn, !.pend = reconnect],
            socks, AfterRelease(sess[s].ep, sess[s].up), Counted("retries"))
  /\ UNCHANGED next_endpoint

\* upstream_retry_used_ is set, the dead connection is closed, never pooled, and
\* a fresh one is requested for the same endpoint.
Retries(s, reconnect) ==
  /\ Settle(s, [sess[s] EXCEPT !.rt.used = TRUE, !.up = NoConn, !.pend = reconnect],
            Dropped(socks, sess[s].up), idle_pools, Counted("retries"))
  /\ UNCHANGED next_endpoint

MutantMayRetryWrite(x) == ~x.rt.used

MayRetryWrite(x) == ~x.rt.wrote /\ ~x.rt.used

WriteFails(s) ==
  LET x == sess[s]
  IN /\ x.pend = "write_up"
     /\ ~socks[x.up].alive
     /\ IF MayRetryWrite(x) THEN Retries(s, "reconnect_w") ELSE Closes(s, metrics)

\* The retry's connection is up: the same n units of write_buf_ are written, or
\* the snapshot.
ReconnectSucceeds(s) ==
  LET x == sess[s]
      rewrite == IF x.pend = "reconnect_w" THEN "rewrite_w" ELSE "rewrite_r"
  IN /\ x.pend \in {"reconnect_w", "reconnect_r"}
     /\ Unused # {}
     /\ Settle(s, [x EXCEPT !.up = FreshConn, !.pend = rewrite],
               [socks EXCEPT ![FreshConn] = NewSocket(x.ep)], idle_pools, metrics)
     /\ UNCHANGED next_endpoint

\* The snapshot has been written; upstream_wrote_once_ is left alone.
SnapshotWritten(s) ==
  LET x == sess[s]
      y == [x EXCEPT !.rq.runs = IF Completes(x, x.rt.snap) THEN @ + 1 ELSE @]
  IN /\ x.pend = "rewrite_r"
     /\ Settle(s, StartResponsePhase(y), AfterDelivery(x, x.rt.snap, <<s, x.rt.snapOf>>),
               idle_pools, metrics)
     /\ UNCHANGED next_endpoint

RewriteFails(s) ==
  /\ sess[s].pend \in {"rewrite_w", "rewrite_r"}
  /\ ~socks[sess[s].up].alive
  /\ Closes(s, metrics)
-----------------------------------------------------------------------------
(***************************************************************************)
(* Response: upstream read -> filters -> downstream write                  *)
(***************************************************************************)

MutantMayRetryRead(x) == x.rt.captured /\ ~x.rt.used
MutantRetryAgain(x) == ~x.rt.any /\ x.rt.captured

MayRetryRead(x) == ~x.rt.any /\ x.rt.captured /\ ~x.rt.used

ResponseReadFails(s) ==
  LET x == sess[s]
  IN /\ x.pend = "read_up"
     /\ ~socks[x.up].alive
     /\ IF MayRetryRead(x) THEN Retries(s, "reconnect_r") ELSE Closes(s, metrics)

\* The server is sending on the connection the session reads from.
Answering(x) == x.pend = "read_up" /\ socks[x.up].alive /\ socks[x.up].due # <<>>

\* The first bytes of a head, not yet the whole of it.
ResponseHeadBegins(s) ==
  /\ Answering(sess[s])
  /\ ~sess[s].rs.started /\ ~sess[s].rt.any
  /\ Settle(s, [sess[s] EXCEPT !.rt.any = TRUE], socks, idle_pools, metrics)
  /\ UNCHANGED next_endpoint

ResponseMalformed(s) ==
  /\ Answering(sess[s])
  /\ Closes(s, metrics)

\* should_keep_alive() of a response that ends with the connection is false.
Responses(x) ==
  IF x.rs.started
  THEN {[framing |-> x.rs.framing, len |-> x.rs.len, keep |-> x.rs.keep]}
  ELSE {r \in [framing : RespFramings, len : 0..MaxBody, keep : BOOLEAN] :
          /\ r.framing = "eof" => ~r.keep
          /\ Bodyless(r.framing) => r.len = 0}

MutantResponseFramed(framing) == TRUE

\* Content-Length or chunked: the client can tell where the response ends.
ResponseFramed(framing) == framing \in {"length", "chunked"}

\* downstream_keep_alive_effective_
EffectiveKeepAlive(x, framing) == x.rq.keep /\ ResponseFramed(framing)

\* feed() and, with the head, the response's filters, keep-alive and serialiser.
ParsedResponse(x, r, a) ==
  [x EXCEPT !.rs.started = TRUE, !.rs.framing = r.framing, !.rs.len = r.len,
            !.rs.keep = r.keep, !.rs.got = @ + a.k, !.rs.done = a.end,
            !.rs.eff = EffectiveKeepAlive(x, r.framing),
            !.rs.ser = IF x.rs.started THEN @ ELSE StartSerializer(r.framing = "chunked"),
            !.rt.any = TRUE]

\* drain_response_body_into_serializer()
DrainedResponse(x, a, j) ==
  LET fwd == ForwardedBy(x.rs.held, j)
  IN [x EXCEPT !.rs.held = HeldBy(@, a.k, j), !.rs.given = @ + fwd,
               !.rs.ser = provide_body(@, fwd, a.end)]

\* The server has sent this much; the end of its answer settles the debt, the
\* end of an interim head does not.
AfterAnswer(c, r, a) ==
  [socks EXCEPT ![c].due = IF a.end /\ r.framing # "interim" THEN Tail(@) ELSE @]

MutantResetForNextRequest(x) ==
  [x EXCEPT !.pend = "read_down", !.num = @ + 1, !.rq = FreshRequest,
            !.rt = [@ EXCEPT !.used = FALSE, !.any = FALSE], !.rs = FreshResponse]

\* reset_for_next_request(): upstream_ is not among the fields it resets.
ResetForNextRequest(x) ==
  [x EXCEPT !.pend = "read_down", !.num = @ + 1, !.rq = FreshRequest,
            !.rt = FreshRetry, !.rs = FreshResponse]

\* The response is out and the connection may be reused.
ReleasesUpstream(x) ==
  /\ Pulled(x.rs.ser) = 0 /\ done(pull(x.rs.ser))
  /\ ~x.rs.direct /\ x.rs.keep /\ x.up # NoConn

\* pull_and_write_response_to_downstream(), the session's part.
PullResponse(x) ==
  LET n == Pulled(x.rs.ser)
      y == [x EXCEPT !.rs.ser = pull(@),
                     !.rs.heads = IF x.rs.ser.head = HeadUnits THEN @ + 1 ELSE @,
                     !.up = IF ReleasesUpstream(x) THEN NoConn ELSE @]
  IN CASE n > 0 -> [y EXCEPT !.pend = "write_down"]
       [] n = 0 /\ done(y.rs.ser) /\ ~x.rs.direct /\ x.rs.eff -> ResetForNextRequest(y)
       [] n = 0 /\ ~done(y.rs.ser) /\ ~x.rs.direct /\ ~x.rs.done ->
            [y EXCEPT !.pend = "read_up"]
       [] OTHER -> [y EXCEPT !.pend = "closed"]

\* The same, with what release_connection() does to the pool.
pull_and_write_response(s, x, sk) ==
  /\ Settle(s, PullResponse(x),
            IF ReleasesUpstream(x) /\ PoolFull(x.ep) THEN Dropped(sk, x.up) ELSE sk,
            IF ReleasesUpstream(x) THEN AfterRelease(x.ep, x.up) ELSE idle_pools,
            metrics)
  /\ UNCHANGED next_endpoint

\* process_upstream_chunk() when every filter lets the read through.
ResponseChunk(s) ==
  LET x == sess[s]
  IN /\ Answering(x)
     /\ \E r \in Responses(x) : \E a \in Arrivals(r.framing, r.len, x.rs.got) :
          /\ x.rs.started => a.k > 0 \/ a.end
          /\ HeadPasses(x.rs.started, RespHead)
          /\ \E j \in Passed(x.rs.held, a.k, a.end, RespBody) :
               pull_and_write_response(s, DrainedResponse(ParsedResponse(x, r, a), a, j),
                                       AfterAnswer(x.up, r, a))

\* process_upstream_chunk() when a filter answers instead (502 over the
\* watermark included), at the head or in the middle of the body.
ResponseRefused(s) ==
  LET x == sess[s]
  IN /\ Answering(x)
     /\ \E r \in Responses(x) : \E a \in Arrivals(r.framing, r.len, x.rs.got) :
          /\ \/ HeadRefused(x.rs.started, RespHead)
             \/ HeadPasses(x.rs.started, RespHead) /\ Rejected(x.rs.held, a.k, RespBody)
          /\ \E b \in 0..MaxDirect :
               Settle(s, RespondDirectly(ParsedResponse(x, r, a), b),
                      AfterAnswer(x.up, r, a), idle_pools, metrics)
          /\ UNCHANGED next_endpoint

ResponseWritten(s) ==
  /\ sess[s].pend = "write_down"
  /\ pull_and_write_response(s, sess[s], socks)

ClientGone(s) ==
  /\ sess[s].pend = "write_down"
  /\ Closes(s, metrics)
-----------------------------------------------------------------------------
\* A handler of session s.
Handler(s) ==
  \/ RequestChunk(s)      \/ RequestRefused(s)     \/ RequestReadFails(s)
  \/ ConnectSucceeds(s)   \/ ConnectFails(s)
  \/ WriteSucceeds(s)     \/ WriteFails(s)
  \/ ReconnectSucceeds(s) \/ SnapshotWritten(s)    \/ RewriteFails(s)
  \/ ResponseHeadBegins(s) \/ ResponseChunk(s)     \/ ResponseRefused(s)
  \/ ResponseReadFails(s) \/ ResponseMalformed(s)
  \/ ResponseWritten(s)   \/ ClientGone(s)

ServerCloses(c) == PeerCloses(c) /\ UNCHANGED <<sess, metrics, free>>

Next ==
  \/ \E s \in Sessions : start(s) \/ Handler(s)
  \/ \E c \in Conns : ServerCloses(c)

Spec == Init /\ [][Next]_vars

\* Peers that keep up: every operation under way completes sooner or later, with
\* a result or an error.  The loop runs a completed operation's handler; that the
\* operation completes at all is the peer's doing, as no read or write of a
\* session has a deadline.
FairSpec == Spec /\ \A s \in Sessions : WF_vars(Handler(s))
-----------------------------------------------------------------------------
(***************************************************************************)
(* Properties                                                              *)
(***************************************************************************)
RequestSides ==
  [started : BOOLEAN, framing : Framings, len : Nat, keep : BOOLEAN, got : Nat,
   done : BOOLEAN, held : Nat, given : Nat, ser : Serializers,
   connecting : BOOLEAN, runs : Nat]

RetryStates ==
  [wrote : BOOLEAN, used : BOOLEAN, captured : BOOLEAN, snap : Nat, snapOf : Nat,
   any : BOOLEAN, n : Nat]

ResponseSides ==
  [started : BOOLEAN, framing : Framings, len : Nat, keep : BOOLEAN, got : Nat,
   done : BOOLEAN, held : Nat, given : Nat, ser : Serializers,
   direct : BOOLEAN, eff : BOOLEAN, heads : Nat]

SessionStates ==
  [pend : Pending, up : Conns \cup {NoConn}, ep : Endpoints, num : Nat,
   rq : RequestSides, rt : RetryStates, rs : ResponseSides]

Sockets ==
  [open : BOOLEAN, ep : Endpoints, alive : BOOLEAN, rx : Nat,
   due : Seq(Sessions \X Nat)]

\* Types of every field of the shard's state.
TypeOK ==
  /\ next_endpoint \in Endpoints
  /\ idle_pools \in [Endpoints -> Seq(Conns)]
  /\ socks \in [Conns -> Sockets]
  /\ sess \in [Sessions -> SessionStates]
  /\ metrics \in [accepted : Nat, active : Nat, closed : Nat, requests : Nat,
                  errors : Nat, retries : Nat]
  /\ free \in 0..MaxFree

Open(s) == sess[s].pend \notin {"unborn", "closed"}

\* Where the open connections go.
Peers(sk) == [c \in Conns |-> IF sk[c].open THEN sk[c].ep ELSE -1]

\* A session in a state where the next step may use upstream_ for this request.
UsesUpstream(x) ==
  \/ x.pend \in {"write_up", "rewrite_w", "rewrite_r", "read_up"}
  \/ x.pend = "read_down" /\ x.rq.connecting
  \/ x.pend = "write_down" /\ ~x.rs.direct

Linked(x, peers) ==
  /\ x.pend # "none"
  /\ x.pend \in {"unborn", "closed", "reconnect_w", "reconnect_r"} => x.up = NoConn
  /\ UsesUpstream(x) => x.up # NoConn
  /\ x.up # NoConn /\ x.pend # "connect" => peers[x.up] = x.ep
  /\ x.pend = "read_down" /\ x.rq.started => x.rq.connecting
  /\ x.pend \in {"connect", "reconnect_w", "reconnect_r"} \/ UsesUpstream(x) => x.rq.connecting

\* A session that is open always has an operation under way (pend is never
\* "none"), and the operation has the connection it works on: no handler writes
\* to or reads from a null or closed upstream_, what upstream_ points to is open
\* to endpoint_index_ (except while a replacement is being connected), and a retry
\* starts with no connection left behind.
OperationHasConnection == \A s \in Sessions : Linked(sess[s], Peers(socks))

Pool == INSTANCE ConnectionPool WITH
  Users <- Sessions,
  hold  <- [s \in Sessions |-> sess[s].up],
  pools <- idle_pools,
  peer  <- Peers(socks)

\* Whatever the sessions do with upstream_, retries, refusals, resets and closes
\* included, is a correct use of unique ownership: every handler connects, reuses,
\* releases (to the connection's own endpoint) or closes one connection, or leaves
\* them all alone.  So none is shared, pooled while in use, or leaked.
ImplementsPool == Pool!Spec

\* What acquire_connection() hands out is ready for use: nothing is outstanding on
\* a pooled connection, the server has no request half received and owes no answer.
\* (Whether it is still alive the gateway cannot know.)
PooledQuiescent ==
  \A e \in Endpoints : \A i \in 1..Len(idle_pools[e]) :
    LET c == idle_pools[e][i] IN socks[c].rx = 0 /\ socks[c].due = <<>>

\* A session that waits for an answer waits on a server that owes exactly this
\* answer, or on a connection that will fail: the request went out whole, on this
\* connection, and nothing of an earlier request precedes it.  Otherwise it would
\* wait forever, or relay somebody else's response.
AwaitsOwnAnswer ==
  \A s \in Sessions :
    sess[s].pend = "read_up" /\ socks[sess[s].up].alive =>
      socks[sess[s].up].due = << <<s, sess[s].num>> >>

PulledSoFar(x) ==
  HeadUnits + x.rq.given + (IF x.rq.framing = "chunked" /\ x.rq.ser.last THEN 1 ELSE 0)
    - x.rq.ser.head - x.rq.ser.pending

\* While a request is being streamed, the server on the other end has received it
\* from its first unit on, without a gap, up to the write under way: the one write
\* retry starts the new connection from the first unit again.
StreamContiguous ==
  \A s \in Sessions :
    LET x == sess[s]
        c == x.up
    IN /\ x.pend \in {"write_up", "rewrite_w"} /\ socks[c].alive =>
            socks[c].rx + x.rt.n = PulledSoFar(x) /\ socks[c].due = <<>>
       /\ x.pend = "read_down" /\ x.rq.connecting /\ socks[c].alive =>
            socks[c].rx = PulledSoFar(x)

\* Nothing of a failed attempt reaches the client: when an attempt is given up for
\* a second one, no response head has been begun towards the client.
RetryIsInvisible ==
  [][\A s \in Sessions :
       sess'[s].rt.used /\ ~sess[s].rt.used =>
         sess[s].rs.heads = 0 /\ ~sess[s].rs.started]_vars

\* A request reaches a server completely at most twice, and twice only when its one
\* retry is spent and the snapshot that was resent held all of it.
RunsAtMostTwice ==
  \A s \in Sessions :
    sess[s].rq.runs <= 1 + (IF sess[s].rt.used /\ sess[s].rt.captured THEN 1 ELSE 0)

\* The body of a Content-Length message reaches the other side whole, whatever
\* the body filters hold back on the way and however it is cut into reads.
DeclaredBodyWhole ==
  \A s \in Sessions :
    LET x == sess[s]
    IN /\ x.rq.framing = "length" /\ x.rq.ser.last => x.rq.given = x.rq.len
       /\ x.rs.framing = "length" /\ ~x.rs.direct /\ x.rs.ser.last => x.rs.given = x.rs.len

\* The next request is awaited on a downstream connection only when the client
\* asked for it and has been sent one complete response whose end it can tell.
KeepAliveHonest ==
  [][\A s \in Sessions :
       sess'[s].num > sess[s].num =>
         LET x == sess[s]
         IN /\ x.rq.keep /\ x.rq.done
            /\ x.rs.done /\ FullyPulled(x.rs.ser) /\ x.rs.heads = 1
            /\ ~x.rs.direct /\ x.rs.framing \in {"length", "chunked"}]_vars

\* The counters the operator sees add up in every state: the gauge is the number
\* of open sessions, no connection is counted closed twice, a request is retried
\* at most once, and a connect error ends its session.
CountersAddUp ==
  /\ metrics.active = Cardinality({s \in Sessions : Open(s)})
  /\ metrics.accepted = metrics.active + metrics.closed
  /\ metrics.retries <= metrics.requests
  /\ metrics.errors <= metrics.closed

(***************************************************************************)
(* What is left to do for a request, as a number: the units still to be    *)
(* read, the units read and still to be written, a retry, the first bytes  *)
(* of an answer and a filter's own answer still possible, and how far the  *)
(* operation under way is from the next read.  The weights make up for the *)
(* operations that a read, a retry or a filter's answer may start.         *)
(***************************************************************************)
Stage ==
  [unborn |-> 5, reconnect_w |-> 7, rewrite_w |-> 6, connect |-> 6, write_up |-> 5,
   read_down |-> 4, reconnect_r |-> 4, rewrite_r |-> 3, write_down |-> 3, read_up |-> 2,
   none |-> 0, closed |-> 0]

ToRead(q) == IF q.started THEN q.len - q.got + (IF q.done THEN 0 ELSE 1) ELSE MaxBody + 2

ToWrite(q) == q.held + q.ser.head + q.ser.pending

Work(x) ==
  9 * (ToRead(x.rq) + ToRead(x.rs)) + ToWrite(x.rq) + ToWrite(x.rs)
    + (IF x.rt.used THEN 0 ELSE 8) + (IF x.rt.any THEN 0 ELSE 1)
    + (IF x.rs.direct THEN 0 ELSE HeadUnits + MaxDirect + 8)

ToDo(x) == Work(x) + Stage[x.pend]

\* Nothing runs in circles: each step of a session ends it, goes on to the next
\* request or leaves less to do, however reads and writes are cut, filters decide and
\* connections fail.  A request takes at most ToDo(FreshSession) handlers, and what
\* keeps a session from its end is only a peer.
HandlersRunOut ==
  [][\A s \in Sessions :
       sess'[s] # sess[s] =>
         \/ sess'[s].pend = "closed"
         \/ sess'[s].num > sess[s].num
         \/ ToDo(sess'[s]) \in 0..(ToDo(sess[s]) - 1)]_vars

\* With peers that keep up, a session neither hangs nor runs in circles through
\* reads, retries and empty pulls: it comes to its end or to the next request.
SessionSettles ==
  \A s \in Sessions :
    Open(s) ~> \/ sess[s].pend = "closed"
               \/ sess[s].pend = "read_down" /\ ~sess[s].rq.started

(***************************************************************************)
(* What comments and tests say and the code does not do                    *)
(***************************************************************************)

\* body_filter_gate_test: what a filter holds back over several chunks goes out at
\* the end of the stream, whole.
BodyWhole ==
  \A s \in Sessions :
    LET x == sess[s]
    IN /\ x.rq.ser.last => x.rq.given = x.rq.len
       /\ ~x.rs.direct /\ x.rs.ser.last => x.rs.given = x.rs.len

\* One request gets one response: a client never sees a second response head.
OneHeadPerRequest == \A s \in Sessions : sess[s].rs.heads <= 1
=============================================================================
