----------------------------- MODULE SyncWorker -----------------------------
(***************************************************************************)
(* SyncWorker: one pull/apply round after another on a background thread,  *)
(* or one round on the caller's thread, with stop requests from any        *)
(* thread, snapshot and recovery fallbacks, logical delivery after the     *)
(* raw pages, retry backoff, and SyncNodeSession around it.                *)
(*                                                                         *)
(* A step is one critical section of m_mutex, one call to the peer or one  *)
(* call to the engine.  A page carries one batch; the engine is reduced to *)
(* the pages applied, the snapshot pages staged and the outbox length      *)
(* (RawReplication and OrderedDelivery hold the rest).  Stage events, page *)
(* counts, progress estimates and error texts feed observers only and are  *)
(* left out.                                                               *)
(***************************************************************************)
EXTENDS Integers, FiniteSets

CONSTANTS
    Stoppers,       \* threads that call request_stop
    Options,        \* the SyncWorkerOptions to check
    Remote,         \* pages the peer serves
    SnapshotPages,  \* pages of one snapshot session
    Outbox,         \* logical deliveries pending at the start
    InitialBackoff, MaxBackoff, MaxMillis,
    RetryAfters,    \* Retry-After values, in seconds, a peer may report
    MaxRounds       \* bound: rounds of one background session

VARIABLES
    opt,        \* m_options, and whether a SyncPeerMiddleware wraps the peer
    m,          \* m_state, m_stop_requested, m_peer_call_active, m_peer_cancel_requested
    token,      \* the current call's CancellationToken is cancelled
    thread,     \* m_thread: "none", "running", or "done" (joinable)
    owner,      \* the lifecycle caller: "free", "spawning" or "round"
    session,    \* SyncNodeSession: stage of its life, capture and observer held
    r,          \* the round being run, and the retry state of thread_main
    engine,     \* SyncEngine: applied pages, staged snapshot pages, outbox
    status,     \* SyncWorkerStatus counters
    hook,       \* hook[s]: s is about to call ISyncPeer::request_cancel
    ghost       \* history: what happened since the last stop or call began

workerVars == <<opt, m, token, thread, owner, session, r, engine, status, hook, ghost>>

WorkerStates == {"Stopped", "Starting", "Idle", "Pulling", "Applying", "Backoff",
           "Stopping", "Failed"}
Phases == {"pull", "snapshot", "recovery", "hello", "delivery"}
NoRetryHint == [class |-> "none", after |-> -1]
Hints == {NoRetryHint, [class |-> "permanent", after |-> -1]}
         \cup [class: {"retryable"}, after: RetryAfters \cup {-1}]

\* What the peer may answer in each phase; the engine and the peer are honest
\* or not, and every answer the code distinguishes is here.
Responses(phase) ==
    CASE phase = "pull" ->
           {"throw", "error", "snapshotRequired", "emptyMore", "stale"}
           \cup (IF engine.have < Remote THEN {"page"} ELSE {"none"})
      [] phase \in {"snapshot", "recovery"} ->
           {"throw", "error", "sessionInvalid", "badShape", "chunk"}
      [] phase = "hello" -> {"throw", "hello"}
      [] phase = "delivery" -> {"throw", "refused", "acked"}
AllResponses == {"nothing"} \cup UNION {
    {"throw", "error", "snapshotRequired", "emptyMore", "stale", "page", "none"},
    {"sessionInvalid", "badShape", "chunk", "hello", "refused", "acked"}}

Round == [pc: {"none", "main", "loop", "start", "check", "begin", "calling",
               "returned", "answered", "page", "stage", "gate", "apply",
               "complete", "settle", "set", "notify", "wait"},
          phase: Phases, resp: AllResponses, ok: BOOLEAN, hint: Hints,
          target: WorkerStates, sent: 0..Outbox,
          backoff: Nat, delay: Nat]

NoRound == [pc |-> "none", phase |-> "pull", resp |-> "nothing", ok |-> TRUE,
            hint |-> NoRetryHint, target |-> "Stopped", sent |-> 0,
            backoff |-> InitialBackoff, delay |-> 0]

NoStatus == [started |-> 0, completed |-> 0, succeeded |-> 0, failed |-> 0,
             active |-> FALSE, backoff |-> FALSE]

WorkerInit ==
    /\ opt \in Options
    /\ m = [state |-> "Stopped", stop |-> FALSE, active |-> FALSE, cancel |-> FALSE]
    /\ token = FALSE
    /\ thread = "none"
    /\ owner = "free"
    /\ session = [stage |-> "none", capture |-> FALSE, observer |-> FALSE]
    /\ r = NoRound
    /\ engine = [have |-> 0, staged |-> 0, outbox |-> Outbox]
    /\ status = NoStatus
    /\ hook = [s \in Stoppers |-> FALSE]
    /\ ghost = [hooks |-> 0, grace |-> 0, after |-> 0, permanent |-> FALSE]

-----------------------------------------------------------------------------
(* Lifecycle calls, serialised by the owner                                *)

Joinable == thread # "none"
MayStart == owner = "free" /\ ~Joinable /\ m.state \in {"Stopped", "Failed"}

\* The locked part of start() and of run_once(): flags and status are reset.
Reset(state) ==
    /\ m' = [state |-> state, stop |-> FALSE, active |-> FALSE, cancel |-> FALSE]
    /\ status' = NoStatus
    /\ ghost' = [ghost EXCEPT !.grace = 0, !.after = 0]

\* start(): the state is published before the thread exists.
Start ==
    /\ MayStart
    /\ session.stage \in {"none", "observed"}
    /\ Reset("Starting")
    /\ owner' = "spawning"
    /\ UNCHANGED <<opt, token, thread, session, r, engine, hook>>

SpawnThread ==
    /\ owner = "spawning"
    /\ owner' = "free"
    /\ thread' = "running"
    /\ r' = [NoRound EXCEPT !.pc = "main"]
    /\ session' = [session EXCEPT !.stage = IF @ = "observed" THEN "open" ELSE @]
    /\ UNCHANGED <<opt, m, token, engine, status, hook, ghost>>

\* std::thread throws: the flags fall back to a stopped worker; a session
\* constructor cleans up and rethrows.
SpawnFails ==
    /\ owner = "spawning"
    /\ owner' = "free"
    /\ m' = [state |-> "Stopped", stop |-> TRUE, active |-> FALSE, cancel |-> FALSE]
    /\ session' = [session EXCEPT !.stage = IF @ = "observed" THEN "joined" ELSE @]
    /\ UNCHANGED <<opt, token, thread, r, engine, status, hook, ghost>>

RunOnce ==
    /\ MayStart
    /\ session.stage = "none"
    /\ Reset(m.state)
    /\ owner' = "round"
    /\ r' = [NoRound EXCEPT !.pc = "start"]
    /\ UNCHANGED <<opt, token, thread, session, engine, hook>>

\* join() returns once thread_main returned.
JoinThread ==
    /\ thread = "done"
    /\ thread' = "none"
    /\ session' = [session EXCEPT !.stage = IF @ = "closing" THEN "joined" ELSE @]
    /\ UNCHANGED <<opt, m, token, owner, r, engine, status, hook, ghost>>

\* SyncNodeSession: capture, then observer, then the worker.
AttachCapture ==
    /\ session.stage = "none" /\ MayStart
    /\ session' = [session EXCEPT !.stage = "captured", !.capture = TRUE]
    /\ UNCHANGED <<opt, m, token, thread, owner, r, engine, status, hook, ghost>>

SessionAddsObserver ==
    /\ session.stage = "captured"
    /\ session' = [session EXCEPT !.stage = "observed", !.observer = TRUE]
    /\ UNCHANGED <<opt, m, token, thread, owner, r, engine, status, hook, ghost>>

\* The registration throws: cleanup_noexcept has no worker to stop.
AddObserverFails ==
    /\ session.stage = "captured"
    /\ session' = [session EXCEPT !.stage = "unobserved"]
    /\ UNCHANGED <<opt, m, token, thread, owner, r, engine, status, hook, ghost>>

\* The observer goes once the worker was stopped and joined.
MayUnhook == session.stage = "joined"

SessionRemovesObserver ==
    /\ MayUnhook
    /\ session' = [session EXCEPT !.stage = "unobserved", !.observer = FALSE]
    /\ UNCHANGED <<opt, m, token, thread, owner, r, engine, status, hook, ghost>>

DetachCapture ==
    /\ session.stage = "unobserved"
    /\ session' = [stage |-> "none", capture |-> FALSE, observer |-> FALSE]
    /\ UNCHANGED <<opt, m, token, thread, owner, r, engine, status, hook, ghost>>

-----------------------------------------------------------------------------
(* request_stop, from any thread                                           *)

CancelsPeer == m.active /\ ~m.cancel

StopState == IF m.state \in {"Stopped", "Failed"} THEN m.state ELSE "Stopping"

\* A stop that finds a page past the apply gate, or an envelope being sent,
\* lets that one through.
Grace == IF r.pc = "apply" \/ (r.pc = "calling" /\ r.phase = "delivery")
         THEN 1 ELSE 0

StopLocked ==
    /\ m' = [m EXCEPT !.stop = TRUE, !.cancel = @ \/ CancelsPeer, !.state = StopState]
    /\ token' = (token \/ CancelsPeer)
    /\ ghost' = [ghost EXCEPT !.hooks = @ + (IF CancelsPeer THEN 1 ELSE 0),
                              !.grace = IF m.stop THEN @ ELSE Grace]

RequestStop(s) ==
    /\ ~hook[s]
    /\ StopLocked
    /\ hook' = [hook EXCEPT ![s] = CancelsPeer]
    /\ UNCHANGED <<opt, thread, owner, session, r, engine, status>>

\* request_peer_cancel, outside the lock; the call it was meant for may be over.
CancelPeer(s) ==
    /\ hook[s]
    /\ hook' = [hook EXCEPT ![s] = FALSE]
    /\ UNCHANGED <<opt, m, token, thread, owner, session, r, engine, status, ghost>>

\* SyncNodeSession::stop and its destructor: the guard's stop, then join.
CloseSession(s) ==
    /\ session.stage = "open"
    /\ ~hook[s]
    /\ StopLocked
    /\ hook' = [hook EXCEPT ![s] = CancelsPeer]
    /\ session' = [session EXCEPT !.stage = "closing"]
    /\ UNCHANGED <<opt, thread, owner, r, engine, status>>

-----------------------------------------------------------------------------
(* One round: run_once_impl and the fallbacks                              *)

worker == <<opt, thread, owner, session, hook>>

GoTo(pc) == r' = [r EXCEPT !.pc = pc]
Complete == GoTo("complete")
RoundFails(hint) == r' = [r EXCEPT !.pc = "complete", !.ok = FALSE, !.hint = hint]

\* m_peer.last_retry_hint(): SyncPeerMiddleware keeps the base class's answer.
LastRetryHint(hint) == IF opt.wrapped THEN NoRetryHint ELSE hint

\* FullSnapshotImportResetGuard and the explicit discards: a fallback that
\* does not finish leaves no staged page, unless staging is kept to resume.
KeepsStaging == r.phase = "pull" \/ (r.phase = "snapshot" /\ opt.persist)
Abandon == engine' = [engine EXCEPT !.staged = IF KeepsStaging THEN @ ELSE 0]

RoundStarted ==
    /\ r.pc = "start"
    /\ status' = [status EXCEPT !.started = @ + 1, !.active = TRUE, !.backoff = FALSE]
    /\ r' = [NoRound EXCEPT !.pc = "check", !.backoff = r.backoff]
    /\ UNCHANGED <<worker, m, token, engine, ghost>>

\* stop_requested() before each call, and the limits of the delivery loop.
CheckStop ==
    /\ r.pc = "check"
    /\ IF m.stop \/ (r.phase = "hello" /\ opt.deliveries = r.sent)
       THEN Complete /\ Abandon
       ELSE IF r.phase = "hello" /\ ~opt.peerDelivers
       THEN UNCHANGED engine /\ IF engine.outbox = 0 THEN Complete ELSE RoundFails(NoRetryHint)
       ELSE UNCHANGED engine /\ GoTo("begin")
    /\ UNCHANGED <<worker, m, token, status, ghost>>

\* Mutant: a call may begin after a stop.
MayBeginCallAlways == TRUE
MayBeginCall == ~m.stop

BeginPeerCall ==
    /\ r.pc = "begin"
    /\ IF MayBeginCall
       THEN /\ m' = [m EXCEPT !.state = "Pulling", !.active = TRUE, !.cancel = FALSE]
            /\ token' = FALSE
            /\ ghost' = [ghost EXCEPT !.hooks = 0]
            /\ GoTo("calling")
            /\ UNCHANGED engine
       ELSE Complete /\ Abandon /\ UNCHANGED <<m, token, ghost>>
    /\ UNCHANGED <<worker, status>>

Applied(n) == [ghost EXCEPT !.after = @ + (IF m.stop THEN n ELSE 0)]

\* The peer answers or throws; an envelope's acknowledgement is persisted
\* inside the dispatch call.
PeerReturns ==
    /\ r.pc = "calling"
    /\ \E resp \in Responses(r.phase), hint \in Hints :
        /\ resp # "throw" => hint = NoRetryHint
        /\ r' = [r EXCEPT !.pc = "returned", !.resp = resp, !.hint = LastRetryHint(hint)]
        /\ engine' = [engine EXCEPT !.outbox = @ - (IF resp = "acked" THEN 1 ELSE 0)]
        /\ ghost' = [Applied(IF resp = "acked" THEN 1 ELSE 0)
                        EXCEPT !.permanent = hint.class = "permanent"]
    /\ UNCHANGED <<worker, m, token, status>>

EndPeerCall ==
    /\ r.pc = "returned"
    /\ m' = [m EXCEPT !.active = FALSE, !.cancel = FALSE]
    /\ token' = FALSE
    /\ ghost' = [ghost EXCEPT !.hooks = 0]
    /\ GoTo("answered")
    /\ UNCHANGED <<worker, engine, status>>

AnswerFails ==
    /\ r.pc = "answered"
    /\ r.resp \in {"throw", "error", "sessionInvalid", "badShape", "refused"}
    /\ IF r.resp \in {"sessionInvalid", "badShape"}
       THEN engine' = [engine EXCEPT !.staged = 0]
       ELSE Abandon
    /\ RoundFails(r.hint)
    /\ UNCHANGED <<worker, m, token, status, ghost>>

\* SnapshotRequired: logical recovery starts afresh, a snapshot may resume.
SnapshotRequired ==
    /\ r.pc = "answered" /\ r.resp = "snapshotRequired"
    /\ IF opt.fallback = "none" THEN RoundFails(NoRetryHint)
       ELSE r' = [r EXCEPT !.pc = "check", !.phase = opt.fallback]
    /\ engine' = [engine EXCEPT !.staged = IF opt.fallback = "recovery" THEN 0 ELSE @]
    /\ UNCHANGED <<worker, m, token, status, ghost>>

AnswerHolds ==
    /\ r.pc = "answered"
    /\ CASE r.resp \in {"page", "stale", "none", "emptyMore", "chunk"} -> GoTo("page")
         [] r.resp = "hello" ->
              IF engine.outbox = 0 THEN Complete
              ELSE r' = [r EXCEPT !.pc = "begin", !.phase = "delivery"]
         [] r.resp = "acked" ->
              r' = [r EXCEPT !.pc = "check", !.phase = "hello", !.sent = @ + 1]
         [] OTHER -> FALSE
    /\ UNCHANGED <<worker, m, token, engine, status, ghost>>

\* The raw pages are drained: deliver, or end the round.
AfterPages ==
    IF opt.deliveries > 0
    THEN r' = [r EXCEPT !.pc = "check", !.phase = "hello"]
    ELSE Complete

PageArrived ==
    /\ r.pc = "page"
    /\ CASE m.stop -> Complete /\ Abandon
         [] ~m.stop /\ r.resp = "none" -> AfterPages /\ UNCHANGED engine
         [] ~m.stop /\ r.resp = "emptyMore" -> RoundFails(NoRetryHint) /\ UNCHANGED engine
         [] OTHER -> GoTo("stage") /\ UNCHANGED engine
    /\ UNCHANGED <<worker, m, token, status, ghost>>

BeginApplyStage ==
    /\ r.pc = "stage"
    /\ IF m.stop THEN Complete /\ Abandon /\ UNCHANGED <<m, status>>
       ELSE /\ m' = [m EXCEPT !.state = "Applying"]
            /\ status' = [status EXCEPT !.backoff = FALSE]
            /\ GoTo("gate")
            /\ UNCHANGED engine
    /\ UNCHANGED <<worker, token, ghost>>

\* Mutant: the last check before the write is dropped.
GateOpenAlways == TRUE
GateOpen == ~m.stop

EnterApplyGate ==
    /\ r.pc = "gate"
    /\ IF GateOpen THEN GoTo("apply") /\ UNCHANGED engine ELSE Complete /\ Abandon
    /\ UNCHANGED <<worker, m, token, status, ghost>>

\* handle_push of a pulled page: applied, or refused.
HandlePush ==
    /\ r.pc = "apply" /\ r.phase = "pull"
    /\ \/ /\ RoundFails(NoRetryHint)
          /\ UNCHANGED <<engine, ghost>>
       \/ LET have == engine.have + (IF r.resp = "page" THEN 1 ELSE 0)
              more == r.resp = "stale" \/ have < Remote
          IN  /\ engine' = [engine EXCEPT !.have = have]
              /\ ghost' = Applied(1)
              /\ IF more /\ have = engine.have THEN RoundFails(NoRetryHint)  \* no cursor progress
                 ELSE IF ~more THEN AfterPages
                 ELSE IF opt.drain THEN GoTo("check") ELSE Complete
    /\ UNCHANGED <<worker, m, token, status>>

LastPage == engine.staged + 1 = SnapshotPages

\* apply_full_snapshot_chunk and apply_logical_recovery_chunk: the last page
\* replaces the database; a refused page throws.
ApplyChunk ==
    /\ r.pc = "apply" /\ r.phase \in {"snapshot", "recovery"}
    /\ \/ /\ Abandon /\ RoundFails(NoRetryHint)
          /\ UNCHANGED ghost
       \/ /\ ghost' = Applied(1)
          /\ IF LastPage
             THEN Complete /\ engine' = [engine EXCEPT !.have = Remote, !.staged = 0]
             ELSE GoTo("check") /\ engine' = [engine EXCEPT !.staged = @ + 1]
    /\ UNCHANGED <<worker, m, token, status>>

-----------------------------------------------------------------------------
(* Between rounds: run_once after its round, and thread_main               *)

\* record_round_status
\* Mutant: a completed round stays active.
RecordedActive ==
    [status EXCEPT !.completed = @ + 1, !.succeeded = @ + (IF r.ok THEN 1 ELSE 0),
                   !.failed = @ + (IF r.ok THEN 0 ELSE 1)]
Recorded ==
    [status EXCEPT !.completed = @ + 1, !.succeeded = @ + (IF r.ok THEN 1 ELSE 0),
                   !.failed = @ + (IF r.ok THEN 0 ELSE 1), !.active = FALSE]

RoundCompleted ==
    /\ r.pc = "complete"
    /\ status' = Recorded
    /\ GoTo("settle")
    /\ UNCHANGED <<worker, m, token, engine, ghost>>

\* should_stop_on_permanent_failure
StopsOnPermanentFailure == opt.stopOnPermanent /\ r.hint.class = "permanent"

Foreground == owner = "round"
Settle ==
    /\ r.pc = "settle"
    /\ LET target == CASE m.stop -> "Stopped"
                       [] ~m.stop /\ r.ok -> IF Foreground THEN "Stopped" ELSE "Idle"
                       [] OTHER -> IF Foreground \/ StopsOnPermanentFailure
                                   THEN "Failed" ELSE "Backoff"
       IN r' = [r EXCEPT !.pc = "set", !.target = target,
                         !.backoff = IF target = "Idle" THEN InitialBackoff ELSE @,
                         !.phase = "pull", !.sent = 0]
    /\ UNCHANGED <<worker, m, token, engine, status, ghost>>

\* set_state, and what the caller does next.
SetState ==
    /\ r.pc = "set"
    /\ m' = [m EXCEPT !.state = r.target]
    /\ status' = [status EXCEPT !.backoff = @ /\ r.target = "Backoff"]
    /\ IF r.target \in {"Stopped", "Failed"}
       THEN /\ r' = NoRound
            /\ thread' = IF Foreground THEN thread ELSE "done"
            /\ owner' = "free"
       ELSE /\ GoTo(IF r.target = "Idle" THEN "wait" ELSE "notify")
            /\ UNCHANGED <<thread, owner>>
    /\ UNCHANGED <<opt, token, session, engine, hook, ghost>>

ThreadMain ==
    /\ r.pc = "main"
    /\ m' = [m EXCEPT !.state = "Idle"]
    /\ status' = [status EXCEPT !.backoff = FALSE]
    /\ GoTo("loop")
    /\ UNCHANGED <<worker, token, engine, ghost>>

Loop ==
    /\ r.pc = "loop"
    /\ r' = IF m.stop THEN [r EXCEPT !.pc = "set", !.target = "Stopped"]
            ELSE [r EXCEPT !.pc = "start"]
    /\ UNCHANGED <<worker, m, token, engine, status, ghost>>

ToMillis(seconds) == IF seconds > MaxMillis \div 1000 THEN MaxMillis ELSE seconds * 1000

Least(a, b) == IF a < b THEN a ELSE b

RetryDelay ==
    IF r.hint.class = "retryable" /\ r.hint.after >= 0
    THEN Least(ToMillis(r.hint.after), MaxBackoff) ELSE r.backoff

NotifyBackoff ==
    /\ r.pc = "notify"
    /\ status' = [status EXCEPT !.backoff = TRUE]
    /\ r' = [r EXCEPT !.pc = "wait", !.delay = RetryDelay]
    /\ UNCHANGED <<worker, m, token, engine, ghost>>

NextBackoff(current) ==
    IF current >= MaxBackoff \div 2 THEN MaxBackoff ELSE current + current

\* wait_for_stop: woken by the stop, or by the timeout.
StopWakes ==
    /\ r.pc = "wait" /\ m.stop
    /\ r' = [r EXCEPT !.pc = "set", !.target = "Stopped"]
    /\ UNCHANGED <<worker, m, token, engine, status, ghost>>

Timeout ==
    /\ r.pc = "wait" /\ ~m.stop
    /\ status.started < MaxRounds
    /\ r' = [r EXCEPT !.pc = "loop",
                      !.backoff = IF r.target = "Backoff" THEN NextBackoff(@) ELSE @]
    /\ UNCHANGED <<worker, m, token, engine, status, ghost>>

-----------------------------------------------------------------------------

Own == \/ RoundStarted \/ CheckStop \/ BeginPeerCall \/ EndPeerCall
       \/ AnswerFails \/ SnapshotRequired \/ AnswerHolds \/ PageArrived
       \/ BeginApplyStage \/ EnterApplyGate \/ HandlePush \/ ApplyChunk
       \/ RoundCompleted \/ Settle \/ SetState
       \/ ThreadMain \/ Loop \/ NotifyBackoff \/ StopWakes \/ Timeout

WorkerNext ==
    \/ Start \/ SpawnThread \/ SpawnFails \/ RunOnce \/ JoinThread
    \/ AttachCapture \/ SessionAddsObserver \/ AddObserverFails
    \/ SessionRemovesObserver \/ DetachCapture
    \/ \E s \in Stoppers : RequestStop(s) \/ CancelPeer(s) \/ CloseSession(s)
    \/ Own \/ PeerReturns

WorkerSpec == WorkerInit /\ [][WorkerNext]_workerVars

\* The scheduler runs the worker's thread and the owner once it joins; a peer
\* that was told to cancel through its token returns.
WorkerFairness == WF_workerVars(Own) /\ WF_workerVars(token /\ PeerReturns)
WorkerFairSpec == WorkerSpec /\ WorkerFairness

-----------------------------------------------------------------------------
(* Properties                                                              *)

WorkerTypeOK ==
    /\ opt \in Options
    /\ m \in [state: WorkerStates, stop: BOOLEAN, active: BOOLEAN, cancel: BOOLEAN]
    /\ token \in BOOLEAN
    /\ thread \in {"none", "running", "done"}
    /\ owner \in {"free", "spawning", "round"}
    /\ session \in [stage: {"none", "captured", "observed", "open", "closing",
                            "joined", "unobserved"},
                    capture: BOOLEAN, observer: BOOLEAN]
    /\ r \in Round
    /\ engine \in [have: 0..Remote, staged: 0..SnapshotPages - 1, outbox: 0..Outbox]
    /\ hook \in [Stoppers -> BOOLEAN]

\* SyncWorker::request_stop (SyncWorker.hpp:367): once a stop is requested
\* nothing is applied or delivered any more, except the one page that already
\* passed the apply gate or the one envelope already being sent.
NothingAppliedAfterStop == ghost.after <= ghost.grace

\* ISyncPeer::request_cancel is called at most once for each peer call, however
\* many threads request a stop (SyncWorker.hpp:292).
CancelOncePerCall == ghost.hooks <= 1

\* A fallback that ends without its last page, by an error, an exception or a
\* stop at any point, leaves no staged snapshot page behind, unless persistent
\* staging is configured (FullSnapshotImportResetGuard).
StagingDiscarded ==
    engine.staged > 0 =>
        \/ opt.persist /\ opt.fallback = "snapshot"
        \/ r.phase \in {"snapshot", "recovery"}
           /\ r.pc \in {"check", "begin", "calling", "returned", "answered",
                        "page", "stage", "gate", "apply"}

\* A worker that is not running is Stopped or Failed, whatever stop requests
\* raced with its end, so that start() and run_once() accept it again.
SettledWhenIdle ==
    owner = "free" /\ thread # "running" => m.state \in {"Stopped", "Failed"}

\* SyncWorkerStatus adds up: every started round is completed or active, every
\* completed one succeeded or failed, and backoff_active is only reported by a
\* worker that waits to retry or was just told to stop.
StatusAddsUp ==
    /\ status.started = status.completed + (IF status.active THEN 1 ELSE 0)
    /\ status.completed = status.succeeded + status.failed
    /\ status.backoff => m.state \in {"Backoff", "Stopping"}

\* A retry waits exactly as long as the peer's Retry-After asks, or max_backoff
\* when that is shorter, however large the value is; without one the
\* exponential backoff stays within max_backoff (retry_delay, next_backoff).
DelayHonoursHint ==
    r.pc = "wait" /\ r.target = "Backoff" =>
        IF r.hint.class = "retryable" /\ r.hint.after >= 0
        THEN r.delay = Least(r.hint.after * 1000, MaxBackoff)
        ELSE r.delay <= MaxBackoff

\* While a SyncNodeSession's worker runs, the capture sink and the apply
\* observer it registered are in place: they are added before the worker starts
\* and removed after it was joined.
HooksOutliveWorker ==
    session.stage \in {"open", "closing", "joined", "unobserved"} /\ thread = "running"
        => session.capture /\ session.observer

\* Every stop ends the background thread, provided a peer whose token was
\* cancelled returns: no call begins that the stop did not cancel.
StopEnds == (m.stop /\ thread = "running") ~> (thread # "running")

\* SyncWorkerOptions::permanent_failure_policy: with StopWorker, a round that
\* failed because the transport classified its failure as permanent is not
\* followed by a retry.
PermanentFailureStops ==
    opt.stopOnPermanent /\ r.resp = "throw" /\ ghost.permanent => r.pc # "notify"
=============================================================================
