--------------------------- MODULE SyncTransport ---------------------------
(***************************************************************************)
(* One sync call through the transport layers: SyncPeerMiddleware with a   *)
(* request budget, HttpSyncPeer, HttpSyncClientMiddleware, the wire,       *)
(* HttpSyncServerMiddleware with an identity policy and a fixed-window     *)
(* rate limit, HttpSyncServer and the engine, and the answer back through  *)
(* them.  Calls of several clients run at the same time on the server.     *)
(*                                                                         *)
(* Bodies are reduced to whether they decode, exceed a bound, or name      *)
(* another node; statuses are kept as numbers; trace headers and texts are *)
(* left out.                                                               *)
(***************************************************************************)
EXTENDS Integers, FiniteSets, Functions, FiniteSetsExt

CONSTANTS
    Callers,        \* threads, each with its own peer stack
    Identities,     \* bearer tokens bound to a node
    Strangers,      \* tokens without a binding
    Operations,     \* of "pull", "push", "recovery", "delivery"
    Requests,       \* [op, who, frame]: a frame is "good", "malformed",
                    \* "oversized" or "forged" (another node's id)
    MaxRequests,    \* max_requests of the rate limit
    Window,         \* its window, in clock ticks of one second
    MaxBuckets,     \* max_buckets
    Budget,         \* FixedBudgetSyncTransportPolicy, one dimension per operation
    MaxClock,       \* bound: ticks of steady_clock
    MaxCalls        \* bound: calls begun in all

VARIABLES
    clock,      \* steady_clock, in seconds
    buckets,    \* m_buckets: identity -> [remaining, resetAt]
    budget,     \* remaining budget of each operation
    call,       \* call[t]: the call thread t is making, with its peer's retry hint
    metrics,    \* SyncTransportMetricsSnapshot of each layer's own observer
    admitted,   \* history: admissions of each identity at each time, and how
                \* many of them had read the clock earlier
    begun       \* history: calls begun, and posts that reached the client

transportVars == <<clock, buckets, budget, call, metrics, admitted, begun>>

Layers == {"peer", "client", "server"}
NoHint == [class |-> "none", after |-> -1]
NoCall == [pc |-> "idle", op |-> "pull", who |-> "none", frame |-> "good", now |-> 0,
           status |-> 0, after |-> -1, applied |-> FALSE, cause |-> "none",
           hint |-> NoHint]
NoMetrics == [requests |-> 0, results |-> 0, rejected |-> 0, failed |-> 0, exceptions |-> 0]

TransportInit ==
    /\ clock = 1
    /\ buckets = <<>>
    /\ budget = [op \in Operations |-> Budget]
    /\ call = [t \in Callers |-> NoCall]
    /\ metrics = [l \in Layers |-> NoMetrics]
    /\ admitted = [i \in Identities |-> [n \in 1..MaxClock |-> [all |-> 0, waited |-> 0]]]
    /\ begun = 0

Tick ==
    /\ clock < MaxClock
    /\ clock' = clock + 1
    /\ UNCHANGED <<buckets, budget, call, metrics, admitted, begun>>

-----------------------------------------------------------------------------
(* Observers: what a layer counts for a call it forwarded                  *)

Result(l, ok) == [metrics[l] EXCEPT !.results = @ + 1, !.failed = @ + (IF ok THEN 0 ELSE 1)]
Rejected(l) == [metrics[l] EXCEPT !.rejected = @ + 1]

Thrown(l) == [metrics[l] EXCEPT !.exceptions = @ + 1, !.failed = @ + 1]

-----------------------------------------------------------------------------
(* The calling side                                                        *)

\* FixedBudgetSyncTransportPolicy::consume
HasBudget(op) == budget[op] > 0

\* SyncPeerMiddleware: an operation beyond the budget is answered or thrown
\* at once; the wrapped peer, and its hint, are not touched.
BeginCall(t) ==
    /\ call[t].pc = "idle"
    /\ begun < MaxCalls
    /\ begun' = begun + 1
    /\ \E q \in Requests :
        /\ IF HasBudget(q.op)
           THEN /\ budget' = [budget EXCEPT ![q.op] = @ - 1]
                /\ call' = [call EXCEPT ![t] = [NoCall EXCEPT !.pc = "post", !.op = q.op,
                                                     !.who = q.who, !.frame = q.frame]]
                /\ UNCHANGED metrics
           ELSE /\ metrics' = [metrics EXCEPT !["peer"] = Rejected("peer")]
                /\ UNCHANGED <<budget, call>>
    /\ UNCHANGED <<clock, buckets, admitted>>

\* The call ends in an exception before any status arrived.
Throw(t) ==
    /\ metrics' = [metrics EXCEPT !["peer"] = Thrown("peer"), !["client"] = Thrown("client")]
    /\ call' = [call EXCEPT ![t] = NoCall]

\* The concrete client throws: connection refused, timeout, lost response.
WireFails(t) ==
    /\ call[t].pc \in {"post", "reply"}
    /\ Throw(t)
    /\ UNCHANGED <<clock, buckets, budget, admitted, begun>>

-----------------------------------------------------------------------------
(* The serving side                                                        *)

Arrive(t) ==
    /\ call[t].pc = "post"
    /\ metrics' = [metrics EXCEPT !["server"].requests = @ + 1]
    /\ call' = [call EXCEPT ![t].pc = "identify"]
    /\ UNCHANGED <<clock, buckets, budget, admitted, begun>>

AnsweredCall(c, status, after, cause) ==
    [c EXCEPT !.pc = "reply", !.status = status, !.after = after, !.cause = cause]

\* HttpBearerNodeIdentityPolicy: 401 for an unbound token; for the routes that
\* carry a node id, 413 and 400 for bodies that do not decode and 403 for
\* another node's id.
IdentityStatus(c) ==
    CASE c.who \in Strangers -> 401
      [] c.who \notin Strangers /\ c.op # "delivery" /\ c.frame = "oversized" -> 413
      [] c.who \notin Strangers /\ c.op # "delivery" /\ c.frame = "malformed" -> 400
      [] c.who \notin Strangers /\ c.op # "delivery" /\ c.frame = "forged" -> 403
      [] OTHER -> 200

\* The identity policy, then the clock reading of the rate limit, which is
\* taken before its lock.
Identify(t) ==
    /\ call[t].pc = "identify"
    /\ LET status == IdentityStatus(call[t])
       IN IF status = 200
          THEN /\ call' = [call EXCEPT ![t].pc = "limit", ![t].now = clock]
               /\ UNCHANGED metrics
          ELSE /\ call' = [call EXCEPT ![t] = AnsweredCall(@, status, -1, "policy")]
               /\ metrics' = [metrics EXCEPT !["server"] = Rejected("server")]
    /\ UNCHANGED <<clock, buckets, budget, admitted, begun>>

\* evict_expired_buckets
Unexpired(now) == {i \in DOMAIN buckets : buckets[i].resetAt > now}

AtCap(known) == MaxBuckets # 0 /\ Cardinality(known) >= MaxBuckets

\* retry_after_seconds: whole seconds left, rounded down but not to zero.
RetryAfter(now, resetAt) == IF resetAt <= now THEN 0 ELSE resetAt - now

\* Mutant: the decrement is made on a copy of the bucket.
TakenFromCopy(b) == b
Taken(b) == [b EXCEPT !.remaining = @ - 1]

\* FixedWindowHttpRateLimitPolicy::check_http_request, under its mutex.
Limit(t) ==
    /\ call[t].pc = "limit"
    /\ LET now    == call[t].now
           who    == call[t].who
           known  == IF who \in DOMAIN buckets THEN DOMAIN buckets ELSE Unexpired(now)
           kept   == Restrict(buckets, known)
           full   == who \notin known /\ AtCap(known)
           fresh  == [remaining |-> MaxRequests, resetAt |-> now + Window]
           bucket == IF who \in known /\ kept[who].resetAt > now THEN kept[who] ELSE fresh
           Reject(resetAt) ==
               /\ call' = [call EXCEPT ![t] = AnsweredCall(@, 429, RetryAfter(now, resetAt), "policy")]
               /\ metrics' = [metrics EXCEPT !["server"] = Rejected("server")]
               /\ UNCHANGED admitted
           With(b) == [i \in known \cup {who} |-> IF i = who THEN b ELSE kept[i]]
       IN CASE full ->
                 /\ buckets' = kept
                 /\ Reject(Min({kept[i].resetAt : i \in known}))
            [] ~full /\ bucket.remaining = 0 ->
                 /\ buckets' = With(bucket)
                 /\ Reject(bucket.resetAt)
            [] ~full /\ bucket.remaining > 0 ->
                 /\ buckets' = With(Taken(bucket))
                 /\ call' = [call EXCEPT ![t].pc = "serve", ![t].now = 0]
                 /\ admitted' = [admitted EXCEPT
                        ![who][clock].all = @ + 1,
                        ![who][clock].waited = @ + (IF now < clock THEN 1 ELSE 0)]
                 /\ UNCHANGED metrics
    /\ UNCHANGED <<clock, budget, begun>>

\* What HttpSyncServer answers when decoding, the engine or encoding throws.
\* A delivery's handler has one try block: the engine's errors are 400 too.
DecodeStatus(frame) == IF frame = "oversized" THEN 413 ELSE 400
EngineStatus(op) == IF op = "delivery" THEN 400 ELSE 500

\* HttpSyncServer::handle of an admitted request: the body does not decode,
\* the engine throws and applies nothing, or it answers; a sync-level refusal
\* is an answer with status 200.
Serve(t) ==
    /\ call[t].pc = "serve"
    /\ LET c == call[t]
           undecodable == c.frame \in {"malformed", "oversized"}
       IN \/ /\ undecodable
             /\ call' = [call EXCEPT ![t] = AnsweredCall(@, DecodeStatus(c.frame), -1, "framing")]
             /\ metrics' = [metrics EXCEPT !["server"] = Result("server", FALSE)]
          \/ /\ ~undecodable
             /\ call' = [call EXCEPT ![t] = AnsweredCall(@, EngineStatus(c.op), -1, "engine")]
             /\ metrics' = [metrics EXCEPT !["server"] = Result("server", FALSE)]
          \/ /\ ~undecodable
             /\ call' = [call EXCEPT ![t] = [AnsweredCall(@, 200, -1, "none")
                                               EXCEPT !.applied = c.op # "pull"]]
             /\ metrics' = [metrics EXCEPT !["server"] = Result("server", TRUE)]
    /\ UNCHANGED <<clock, buckets, budget, admitted, begun>>

-----------------------------------------------------------------------------
(* The answer                                                              *)

Retryable == {408, 425, 429, 500, 502, 503, 504}

\* classify_http_sync_status and http_sync_retry_hint
HintOf(status, after) ==
    IF status \in 200..299 THEN NoHint
    ELSE IF status \in Retryable THEN [class |-> "retryable", after |-> after]
    ELSE [class |-> "permanent", after |-> -1]

\* The client middleware counts the response, HttpSyncPeer::require_ok_response
\* throws on a failure status, and the peer middleware counts the outcome.
Reply(t) ==
    /\ call[t].pc = "reply"
    /\ LET ok == call[t].status = 200
       IN /\ metrics' = [metrics EXCEPT !["client"] = Result("client", ok),
                                        !["peer"] = IF ok THEN Result("peer", TRUE)
                                                    ELSE Thrown("peer")]
          /\ call' = [call EXCEPT ![t] =
                 IF ok THEN NoCall
                 ELSE [@ EXCEPT !.pc = "failed", 
                             !.hint = HintOf(call[t].status, call[t].after)]]
    /\ UNCHANGED <<clock, buckets, budget, admitted, begun>>

\* The caller reads last_retry_hint and goes on.
GiveUpCall(t) ==
    /\ call[t].pc = "failed"
    /\ call' = [call EXCEPT ![t] = NoCall]
    /\ UNCHANGED <<clock, buckets, budget, metrics, admitted, begun>>

-----------------------------------------------------------------------------

TransportNext ==
    \/ Tick
    \/ \E t \in Callers : \/ BeginCall(t) \/ WireFails(t) \/ Arrive(t) \/ Identify(t)
                          \/ Limit(t) \/ Serve(t) \/ Reply(t) \/ GiveUpCall(t)

TransportSpec == TransportInit /\ [][TransportNext]_transportVars

-----------------------------------------------------------------------------
(* Properties                                                              *)

TransportTypeOK ==
    /\ clock \in 1..MaxClock
    /\ DOMAIN buckets \subseteq Identities
    /\ \A i \in DOMAIN buckets : buckets[i].remaining \in 0..MaxRequests
    /\ budget \in [Operations -> 0..Budget]
    /\ \A t \in Callers : call[t].pc \in {"idle", "post", "identify", "limit", "serve",
                                          "reply", "failed"}
    /\ begun \in 0..MaxCalls

\* FixedWindowHttpRateLimitPolicy never tracks more identities than max_buckets.
BucketsCapped == MaxBuckets # 0 => Cardinality(DOMAIN buckets) <= MaxBuckets

\* However an identity's requests are timed and whichever buckets are evicted
\* for others, no more than two windows' worth is admitted within any span of
\* one window, and one window's worth more for each request that waited
\* between reading the clock and the limiter's lock.
AdmissionsBounded ==
    \A i \in Identities, from \in 1..MaxClock :
        LET span == {n \in 1..MaxClock : from <= n /\ n < from + Window}
            all == MapThenSumSet(LAMBDA n : admitted[i][n].all, span)
            waited == MapThenSumSet(LAMBDA n : admitted[i][n].waited, span)
        IN all <= (2 + waited) * MaxRequests

InLayer(l) ==
    {t \in Callers : call[t].pc \in
        IF l = "server" THEN {"identify", "limit", "serve"}
        ELSE {"post", "identify", "limit", "serve", "reply"}}

\* Every call a layer saw is counted exactly once, as rejected, as a result or
\* as an exception, and a failure is never counted without one of these, with
\* calls of all clients in flight.
CallsAccounted ==
    /\ begun = metrics["peer"].rejected + metrics["peer"].results
               + metrics["peer"].exceptions + Cardinality(InLayer("peer"))
    /\ metrics["server"].requests = metrics["server"].rejected
               + metrics["server"].results + Cardinality(InLayer("server"))
    /\ \A l \in Layers : metrics[l].failed <= metrics[l].results + metrics[l].exceptions

\* A caller told to wait is refused by the rate limit only, and is never told
\* that its failure is permanent; one told that it is permanent was refused by
\* a policy or could not be decoded, and nothing of its request was applied.
\* (A delivery is the exception: its engine errors are answered with 400.)
HintsMatchCauses ==
    \A t \in Callers : call[t].pc = "failed" =>
        /\ call[t].hint.after >= 0 => call[t].status = 429
        /\ call[t].status = 429 => call[t].hint.class = "retryable" /\ call[t].hint.after >= 0
        /\ call[t].hint.class = "permanent" =>
               /\ ~call[t].applied
               /\ call[t].op # "delivery" => call[t].cause \in {"policy", "framing"}
=============================================================================
