-------------------------- MODULE WebSocketChannel --------------------------
(***************************************************************************)
(* simple_web::WebSocketSyncChannel: exchange_binary on one thread, its    *)
(* deadline thread, the library's callbacks and request_cancel on other    *)
(* threads; and the start and stop of WebSocketSyncListener.               *)
(*                                                                         *)
(* The library (external) is modelled from how it is used: start() runs    *)
(* the callbacks until the connection closes, fails or stop() is called;   *)
(* a stop() may or may not run on_error before start() returns.            *)
(***************************************************************************)
EXTENDS Integers, FiniteSets

CONSTANTS
    Cancellers,         \* threads that call request_cancel
    ExchangeTimeout,    \* whether exchange_timeout is positive
    Overlap,            \* whether an exchange may begin during a request_cancel
    MaxExchanges        \* bound: exchanges, and cancels of each thread

VARIABLES
    exchangeGeneration, \* m_cancel_generation
    active,     \* m_active_client: the exchange it belongs to, 0 when reset
    ex,         \* the exchange: number, control point, generation, token, outcome
    client,     \* the library client: "new", "running", "returned"
    promise,    \* WebSocketExchangeState: "empty", "value", "error"
    deadline,   \* the deadline thread: "none", "waiting", "expired", "ended"
    finished,   \* WebSocketDeadlineSignal::m_finished
    cancel,     \* cancel[c]: "idle", "bumped", or the client it will stop
    listener    \* WebSocketSyncListener: m_running, m_thread, and the caller

channelVars == <<exchangeGeneration, active, ex, client, promise, deadline, finished, cancel, listener>>
channel == <<exchangeGeneration, active, ex, client, promise, deadline, finished, cancel>>

IdleExchange == "idle"

ChannelInit ==
    /\ exchangeGeneration = 0
    /\ active = 0
    /\ ex = [n |-> 0, pc |-> IdleExchange, gen |-> 0, token |-> FALSE, outcome |-> "none"]
    /\ client = "new"
    /\ promise = "empty"
    /\ deadline = "none"
    /\ finished = FALSE
    /\ cancel = [c \in Cancellers |-> [pc |-> IdleExchange, target |-> 0, left |-> MaxExchanges]]
    /\ listener = [pc |-> "stopped", thread |-> "none", running |-> FALSE]

-----------------------------------------------------------------------------
(* exchange_binary                                                         *)

\* The size check, the token check, and the generation of this call.
BeginExchange ==
    /\ ex.pc = IdleExchange /\ ex.n < MaxExchanges
    /\ Overlap \/ \A c \in Cancellers : cancel[c].pc = IdleExchange
    /\ ex' = [n |-> ex.n + 1, pc |-> "guard", gen |-> exchangeGeneration, token |-> FALSE,
              outcome |-> "none"]
    /\ client' = "new" /\ promise' = "empty" /\ finished' = FALSE /\ deadline' = "none"
    /\ UNCHANGED <<exchangeGeneration, active, cancel, listener>>

\* ActiveClientGuard: the client is visible to request_cancel from here on.
SetActiveClient ==
    /\ ex.pc = "guard"
    /\ active' = ex.n
    /\ ex' = [ex EXCEPT !.pc = "check"]
    /\ UNCHANGED <<exchangeGeneration, client, promise, deadline, finished, cancel, listener>>

Cancelled == exchangeGeneration # ex.gen \/ ex.token

\* The exchange ends: the guard resets m_active_client if it is still its own.
Leave(outcome) ==
    /\ ex' = [ex EXCEPT !.pc = IdleExchange, !.outcome = outcome]
    /\ active' = IF active = ex.n THEN 0 ELSE active

\* The check before start, and the deadline thread.
CheckBeforeStart ==
    /\ ex.pc = "check"
    /\ IF Cancelled
       THEN Leave("cancelled") /\ UNCHANGED deadline
       ELSE /\ ex' = [ex EXCEPT !.pc = "start"]
            /\ deadline' = IF ExchangeTimeout THEN "waiting" ELSE "none"
            /\ UNCHANGED active
    /\ UNCHANGED <<exchangeGeneration, client, promise, finished, cancel, listener>>

\* client->start(): runs unless the client was stopped already.
ClientStart ==
    /\ ex.pc = "start"
    /\ client' = IF client = "new" THEN "running" ELSE client
    /\ ex' = [ex EXCEPT !.pc = "started"]
    /\ UNCHANGED <<exchangeGeneration, active, promise, deadline, finished, cancel, listener>>

\* WebSocketExchangeState: only the first outcome is kept.
\* Mutant: a later callback replaces the outcome.
SetPromiseLast(outcome) == promise' = outcome
SetPromise(outcome) == promise' = IF promise = "empty" THEN outcome ELSE promise

\* on_message, then the close that ends start().
OnMessage ==
    /\ client = "running"
    /\ SetPromise("value")
    /\ client' = "returned"
    /\ UNCHANGED <<exchangeGeneration, active, ex, deadline, finished, cancel, listener>>

\* on_open cannot send, an oversized response, on_close or on_error.
OnFailure ==
    /\ client = "running"
    /\ SetPromise("error")
    /\ client' = "returned"
    /\ UNCHANGED <<exchangeGeneration, active, ex, deadline, finished, cancel, listener>>

\* start() returned: the deadline thread is told and joined.
FinishSignal ==
    /\ ex.pc = "started" /\ client = "returned"
    /\ finished' = TRUE
    /\ ex' = [ex EXCEPT !.pc = "join"]
    /\ UNCHANGED <<exchangeGeneration, active, client, promise, deadline, cancel, listener>>

MayLeave == deadline \in {"none", "ended"}

JoinDeadline ==
    /\ ex.pc = "join" /\ MayLeave
    /\ ex' = [ex EXCEPT !.pc = "result"]
    /\ UNCHANGED <<exchangeGeneration, active, client, promise, deadline, finished, cancel, listener>>

\* The check after start, then result.get(), which waits for the promise.
ThrowsCancelled == Cancelled

TakeResult ==
    /\ ex.pc = "result"
    /\ \/ ThrowsCancelled /\ Leave("cancelled")
       \/ ~ThrowsCancelled /\ promise # "empty" /\ Leave(promise)
    /\ UNCHANGED <<exchangeGeneration, client, promise, deadline, finished, cancel, listener>>

-----------------------------------------------------------------------------
(* The deadline thread                                                     *)

\* client->stop(): a running client returns, with or without an error callback.
Stop(target) ==
    IF target = ex.n /\ client # "returned"
    THEN client' = "returned" /\ (UNCHANGED promise \/ SetPromise("error"))
    ELSE UNCHANGED <<client, promise>>

DeadlineWakes ==
    /\ deadline = "waiting" /\ finished
    /\ deadline' = "ended"
    /\ UNCHANGED <<exchangeGeneration, active, ex, client, promise, finished, cancel, listener>>

ExpirySets == SetPromise("error")

DeadlineExpires ==
    /\ deadline = "waiting" /\ ~finished
    /\ deadline' = "expired"
    /\ ExpirySets
    /\ UNCHANGED <<exchangeGeneration, active, ex, client, finished, cancel, listener>>

DeadlineStops ==
    /\ deadline = "expired"
    /\ deadline' = "ended"
    /\ Stop(ex.n)
    /\ UNCHANGED <<exchangeGeneration, active, ex, finished, cancel, listener>>

-----------------------------------------------------------------------------
(* request_cancel                                                          *)

\* CancellationSource::request_cancel for the call's token.
CancelToken ==
    /\ ex.pc # IdleExchange /\ ~ex.token
    /\ ex' = [ex EXCEPT !.token = TRUE]
    /\ UNCHANGED <<exchangeGeneration, active, client, promise, deadline, finished, cancel, listener>>

NextGeneration == exchangeGeneration + 1

RequestCancel(c) ==
    /\ cancel[c].pc = IdleExchange /\ cancel[c].left > 0
    /\ exchangeGeneration' = NextGeneration
    /\ cancel' = [cancel EXCEPT ![c].pc = "bumped", ![c].left = @ - 1]
    /\ UNCHANGED <<active, ex, client, promise, deadline, finished, listener>>

ReadActiveClient(c) ==
    /\ cancel[c].pc = "bumped"
    /\ cancel' = [cancel EXCEPT ![c].pc = IF active = 0 THEN IdleExchange ELSE "stop",
                                ![c].target = active]
    /\ UNCHANGED <<exchangeGeneration, active, ex, client, promise, deadline, finished, listener>>

StopClient(c) ==
    /\ cancel[c].pc = "stop"
    /\ Stop(cancel[c].target)
    /\ cancel' = [cancel EXCEPT ![c].pc = IdleExchange, ![c].target = 0]
    /\ UNCHANGED <<exchangeGeneration, active, ex, deadline, finished, listener>>

-----------------------------------------------------------------------------
(* WebSocketSyncListener: start waits for the bound port, stop joins       *)

ListenerStart ==
    /\ listener.pc = "stopped"
    /\ listener' = [listener EXCEPT !.pc = "starting", !.thread = "running"]
    /\ UNCHANGED channel

\* The server binds and serves, or throws before it is bound.
ServerBinds ==
    /\ listener.pc = "starting"
    /\ listener' = [listener EXCEPT !.pc = "serving", !.running = TRUE]
    /\ UNCHANGED channel

AfterFailedStart == "none"

ServerFails ==
    /\ listener.pc = "starting"
    /\ listener' = [listener EXCEPT !.pc = "stopped", !.thread = AfterFailedStart]
    /\ UNCHANGED channel

ListenerStop ==
    /\ listener.pc = "serving"
    /\ listener' = [pc |-> "stopped", thread |-> "none", running |-> FALSE]
    /\ UNCHANGED channel

-----------------------------------------------------------------------------

ThreadStep == \/ SetActiveClient \/ CheckBeforeStart \/ ClientStart \/ FinishSignal
              \/ JoinDeadline \/ TakeResult
DeadlineStep == DeadlineWakes \/ DeadlineExpires \/ DeadlineStops
CancelStep(c) == ReadActiveClient(c) \/ StopClient(c)

ChannelNext ==
    \/ BeginExchange \/ ThreadStep \/ DeadlineStep
    \/ OnMessage \/ OnFailure \/ CancelToken
    \/ \E c \in Cancellers : RequestCancel(c) \/ CancelStep(c)
    \/ ListenerStart \/ ServerBinds \/ ServerFails \/ ListenerStop

\* Threads are scheduled and timeouts expire; nothing is assumed of the remote
\* side, which may stay silent.
ChannelFairness ==
    /\ WF_channelVars(ThreadStep) /\ WF_channelVars(DeadlineStep)
    /\ \A c \in Cancellers : WF_channelVars(CancelStep(c))

ChannelSpec == ChannelInit /\ [][ChannelNext]_channelVars /\ ChannelFairness

-----------------------------------------------------------------------------
(* Properties                                                              *)

ChannelTypeOK ==
    /\ exchangeGeneration \in 0..MaxExchanges * Cardinality(Cancellers)
    /\ active \in 0..MaxExchanges
    /\ ex.pc \in {IdleExchange, "guard", "check", "start", "started", "join", "result"}
    /\ ex.outcome \in {"none", "cancelled", "value", "error"}
    /\ client \in {"new", "running", "returned"}
    /\ promise \in {"empty", "value", "error"}
    /\ deadline \in {"none", "waiting", "expired", "ended"}

\* An exchange returns a response only if neither its token nor request_cancel
\* cancelled it before its last check, also when the response arrived first.
CancelledNeverAnswers ==
    ex'.outcome = "value" /\ ex.outcome # "value"
        => exchangeGeneration = ex.gen /\ ~ex.token

\* No deadline thread outlives its exchange: a later exchange's client is
\* never stopped by an earlier deadline, and no std::thread is destroyed
\* joinable.
DeadlineJoined == ex.pc = IdleExchange => deadline \in {"none", "ended"}

\* A response that arrived before the deadline is not replaced by the deadline
\* or by a later callback.
FirstOutcomeKept == promise # "empty" => promise' = promise \/ ex.pc = IdleExchange

\* An exchange has one outcome: a cancelled one does not answer, and the first
\* of response, error and deadline is kept.
OutcomeFinal == [][CancelledNeverAnswers /\ FirstOutcomeKept]_channelVars

\* A listener that is not running holds no joinable thread, also after start()
\* failed.
ListenerJoined == listener.pc = "stopped" => listener.thread = "none" /\ ~listener.running

=============================================================================
