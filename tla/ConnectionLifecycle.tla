------------------------ MODULE ConnectionLifecycle ------------------------
(***************************************************************************)
(* One Connection shared by threads: transaction guards and their native   *)
(* handles, the tracker that counts them and binds one to each thread,     *)
(* coordinated shutdown, reconnection, and the read transaction that       *)
(* SyncEngine::handle_pull opens on the environment by itself.             *)
(*                                                                         *)
(* A guard is a Transaction object, held directly or through the manual    *)
(* Connection::begin/commit/rollback, which destroy it when they end it.   *)
(* MDBX is external: one writer at a time, and an environment close that   *)
(* refuses only a write transaction of another thread.                     *)
(***************************************************************************)
EXTENDS Integers, FiniteSets

CONSTANTS
    TxnThreads, Guards,
    Owner,          \* [Guards -> Threads]
    Writable,       \* guards opened with TransactionMode::WRITABLE
    NoGuard,
    MaxOpens,       \* bound: times the environment is opened
    Uses            \* how applications use it: sets of "pulls" (threads serve
                    \* pulls), "restarts" (begin is called on a committed guard)

ASSUME LifecycleAssumption ==
    /\ IsFiniteSet(Guards)
    /\ Owner \in [Guards -> TxnThreads] /\ Writable \subseteq Guards
    /\ NoGuard \notin Guards
    /\ MaxOpens \in Nat \ {0}
    /\ Uses \subseteq SUBSET {"pulls", "restarts"}

VARIABLES
    opens,              \* environments opened so far (the last is number opens)
    env,                \* m_env: the number of the open environment, or 0
    shutdownRequested,  \* m_shutdown_requested
    openHandles,        \* m_open_txn_handles
    bound,              \* m_thread_txns: the guard bound to each thread
    st,                 \* state of each guard's native handle
    genv,               \* m_env of each guard
    tracked,            \* guards with m_handle_registered
    writer,             \* the guard holding MDBX's writer lock
    pull,               \* pull[t]: environment of t's pull transaction, or 0
    closing,            \* closing[t]: where t is in shutdown()
    use                 \* what this application does, fixed

stateVars == <<opens, env, shutdownRequested, openHandles, bound, st, genv,
               tracked, writer, pull, closing>>
lifecycleVars == <<stateVars, use>>

States == {"none", "reserved", "active", "reset", "done", "restarted"}

LifecycleInit ==
    /\ opens = 1 /\ env = 1
    /\ shutdownRequested = FALSE
    /\ openHandles = 0
    /\ bound = [t \in TxnThreads |-> NoGuard]
    /\ st = [g \in Guards |-> "none"]
    /\ genv = [g \in Guards |-> 0]
    /\ tracked = {}
    /\ writer = NoGuard
    /\ pull = [t \in TxnThreads |-> 0]
    /\ closing = [t \in TxnThreads |-> "no"]
    /\ use \in Uses

\* The thread is not inside a begin, a pull or a shutdown.
Free(t) ==
    /\ closing[t] = "no" /\ pull[t] = 0
    /\ \A g \in Guards : Owner[g] = t => st[g] \notin {"reserved", "restarted"}

\* MDBX runs one transaction per thread (MDBX_NOSTICKYTHREADS is not set); a
\* begin or renew beside a running one fails and changes nothing.
NoneRuns(t) == \A g \in Guards : Owner[g] = t => st[g] # "active"

-----------------------------------------------------------------------------
(* Tracker                                                                 *)

\* register_txn_handle
Register(g) ==
    /\ openHandles' = openHandles + 1
    /\ tracked' = tracked \cup {g}

\* unregister_txn_handle
Unregister(g) ==
    /\ openHandles' = IF openHandles > 0 THEN openHandles - 1 ELSE 0
    /\ tracked' = tracked \ {g}

HasHandle(t) == \E g \in tracked : Owner[g] = t

\* unbind_txn: only the expected transaction is unbound.
Unbound(g) == IF bound[Owner[g]] = g
              THEN [bound EXCEPT ![Owner[g]] = NoGuard] ELSE bound

-----------------------------------------------------------------------------
(* Transactions                                                            *)

Accepts == ~shutdownRequested /\ env # 0

\* Connection::transaction and Connection::begin, under the connection mutex.
Reserve(g) ==
    /\ Free(Owner[g])
    /\ st[g] = "none"
    /\ Accepts
    /\ bound[Owner[g]] = NoGuard
    /\ Register(g)
    /\ st' = [st EXCEPT ![g] = "reserved"]
    /\ genv' = [genv EXCEPT ![g] = env]
    /\ UNCHANGED <<opens, env, shutdownRequested, bound, writer, pull, closing>>

TakesWriter(g) == IF g \in Writable THEN writer = NoGuard /\ writer' = g
                                    ELSE writer' = writer

\* Transaction::begin of a reserved guard; a write begin waits for the writer.
NativeBegin(g) ==
    /\ st[g] = "reserved"
    /\ TakesWriter(g)
    /\ st' = [st EXCEPT ![g] = "active"]
    /\ bound' = [bound EXCEPT ![Owner[g]] = g]
    /\ UNCHANGED <<opens, env, shutdownRequested, openHandles, genv, tracked,
                   pull, closing>>

\* mdbx_txn_begin fails: the reservation is given back.
BeginFails(g) ==
    /\ st[g] = "reserved"
    /\ Unregister(g)
    /\ st' = [st EXCEPT ![g] = "none"]
    /\ UNCHANGED <<opens, env, shutdownRequested, bound, genv, writer, pull, closing>>

\* Transaction::commit and rollback of a write transaction.
EndWrite(g) ==
    /\ st[g] = "active" /\ g \in Writable
    /\ Free(Owner[g])
    /\ st' = [st EXCEPT ![g] = "done"]
    /\ writer' = NoGuard
    /\ bound' = Unbound(g)
    /\ Unregister(g)
    /\ UNCHANGED <<opens, env, shutdownRequested, genv, pull, closing>>

\* Transaction::commit and rollback of a read transaction keep the handle.
EndRead(g) ==
    /\ st[g] = "active" /\ g \notin Writable
    /\ Free(Owner[g])
    /\ st' = [st EXCEPT ![g] = "reset"]
    /\ bound' = Unbound(g)
    /\ UNCHANGED <<opens, env, shutdownRequested, openHandles, genv, tracked,
                   writer, pull, closing>>

\* Transaction::begin on a reset read guard.
Renew(g) ==
    /\ st[g] = "reset"
    /\ Free(Owner[g]) /\ NoneRuns(Owner[g])
    /\ st' = [st EXCEPT ![g] = "active"]
    /\ bound' = [bound EXCEPT ![Owner[g]] = g]
    /\ UNCHANGED <<opens, env, shutdownRequested, openHandles, genv, tracked,
                   writer, pull, closing>>

\* Transaction::begin on a committed write guard: the native transaction
\* comes first, on the environment the guard remembers ...
Restart(g) ==
    /\ "restarts" \in use
    /\ st[g] = "done"
    /\ Free(Owner[g]) /\ NoneRuns(Owner[g])
    /\ writer = NoGuard /\ writer' = g
    /\ st' = [st EXCEPT ![g] = "restarted"]
    /\ UNCHANGED <<opens, env, shutdownRequested, openHandles, bound, genv,
                   tracked, pull, closing>>

\* ... and its registration after it.
RegisterRestarted(g) ==
    /\ st[g] = "restarted"
    /\ Register(g)
    /\ st' = [st EXCEPT ![g] = "active"]
    /\ bound' = [bound EXCEPT ![Owner[g]] = g]
    /\ UNCHANGED <<opens, env, shutdownRequested, genv, writer, pull, closing>>

\* Transaction::release.  Mutant: a reset read handle is not unregistered.
ReleasesActive(g) == st[g] = "active"
Releases(g) == g \in tracked

Destroy(g) ==
    /\ st[g] \in {"active", "reset", "done"}
    /\ Free(Owner[g])
    /\ st' = [st EXCEPT ![g] = "none"]
    /\ writer' = IF writer = g THEN NoGuard ELSE writer
    /\ bound' = IF st[g] = "active" THEN Unbound(g) ELSE bound
    /\ IF Releases(g) THEN Unregister(g) ELSE UNCHANGED <<openHandles, tracked>>
    /\ UNCHANGED <<opens, env, shutdownRequested, genv, pull, closing>>

\* handle_pull: a read transaction the tracker does not know.
BeginPull(t) ==
    /\ "pulls" \in use
    /\ Free(t) /\ NoneRuns(t)
    /\ env # 0
    /\ pull' = [pull EXCEPT ![t] = env]
    /\ UNCHANGED <<opens, env, shutdownRequested, openHandles, bound, st, genv,
                   tracked, writer, closing>>

EndPull(t) ==
    /\ pull[t] # 0
    /\ pull' = [pull EXCEPT ![t] = 0]
    /\ UNCHANGED <<opens, env, shutdownRequested, openHandles, bound, st, genv,
                   tracked, writer, closing>>

-----------------------------------------------------------------------------
(* Lifecycle                                                               *)

\* The environment that connect opens.
Opened == opens + 1

\* Connection::connect
Connect(t) ==
    /\ Free(t)
    /\ env = 0
    /\ opens < MaxOpens
    /\ opens' = opens + 1
    /\ env' = Opened
    /\ shutdownRequested' = FALSE
    /\ UNCHANGED <<openHandles, bound, st, genv, tracked, writer, pull, closing>>

\* request_shutdown; a thread with a handle of its own is refused.
RequestShutdown(t) ==
    /\ Free(t)
    /\ env # 0
    /\ ~HasHandle(t)
    /\ shutdownRequested' = TRUE
    /\ closing' = [closing EXCEPT ![t] = "waiting"]
    /\ UNCHANGED <<opens, env, openHandles, bound, st, genv, tracked, writer, pull>>

\* wait_for_no_txn_handles.  Mutant: the wait also expects the request to be
\* cleared, which only the disconnect after it does.
MayCloseUnrequested == openHandles = 0 /\ ~shutdownRequested
MayClose == openHandles = 0

StopWaiting(t) ==
    /\ closing[t] = "waiting"
    /\ MayClose
    /\ closing' = [closing EXCEPT ![t] = "ready"]
    /\ UNCHANGED <<opens, env, shutdownRequested, openHandles, bound, st, genv,
                   tracked, writer, pull>>

\* shutdown_for times out; the shutdown stays requested.
ShutdownTimesOut(t) ==
    /\ closing[t] = "waiting"
    /\ openHandles # 0
    /\ closing' = [closing EXCEPT ![t] = "no"]
    /\ UNCHANGED <<opens, env, shutdownRequested, openHandles, bound, st, genv,
                   tracked, writer, pull>>

\* disconnect and cleanup.  Mutant: handles are not looked at again.
RefusesNever == FALSE
Refuses == openHandles # 0

Disconnect(t) ==
    /\ closing[t] = "ready"
    /\ closing' = [closing EXCEPT ![t] = "no"]
    /\ \/ /\ Refuses \/ (env # 0 /\ writer # NoGuard)
          /\ UNCHANGED <<env, shutdownRequested>>
       \/ /\ ~Refuses /\ env # 0 /\ writer = NoGuard
          /\ env' = 0
          /\ shutdownRequested' = FALSE
       \/ /\ ~Refuses /\ env = 0
          /\ UNCHANGED <<env, shutdownRequested>>
    /\ UNCHANGED <<opens, openHandles, bound, st, genv, tracked, writer, pull>>

-----------------------------------------------------------------------------
LifecycleNext ==
    /\ UNCHANGED use
    /\ \/ \E g \in Guards :
            \/ Reserve(g) \/ NativeBegin(g) \/ BeginFails(g)
            \/ EndWrite(g) \/ EndRead(g) \/ Renew(g) \/ Destroy(g)
            \/ Restart(g) \/ RegisterRestarted(g)
       \/ \E t \in TxnThreads :
            \/ BeginPull(t) \/ EndPull(t)
            \/ Connect(t) \/ RequestShutdown(t) \/ StopWaiting(t)
            \/ ShutdownTimesOut(t) \/ Disconnect(t)

LifecycleSpec == LifecycleInit /\ [][LifecycleNext]_lifecycleVars

\* A thread does not keep a guard for ever whatever else it does, the writer
\* lock is granted, and a thread whose wait is over runs.
LifecycleFairness ==
    /\ \A g \in Guards : /\ WF_stateVars(NativeBegin(g)) /\ WF_stateVars(RegisterRestarted(g))
                         /\ SF_stateVars(Destroy(g))
    /\ \A t \in TxnThreads : /\ WF_stateVars(EndPull(t))
                          /\ WF_stateVars(StopWaiting(t)) /\ WF_stateVars(Disconnect(t))

LifecycleFairSpec == LifecycleSpec /\ LifecycleFairness

-----------------------------------------------------------------------------
(* Properties                                                              *)

\* Every variable stays in its type.
LifecycleTypeOK ==
    /\ opens \in 1..MaxOpens /\ env \in {0, opens}
    /\ shutdownRequested \in BOOLEAN
    /\ openHandles \in 0..Cardinality(Guards)
    /\ bound \in [TxnThreads -> Guards \cup {NoGuard}]
    /\ st \in [Guards -> States]
    /\ genv \in [Guards -> 0..MaxOpens]
    /\ tracked \subseteq Guards
    /\ writer \in Guards \cup {NoGuard}
    /\ pull \in [TxnThreads -> 0..MaxOpens]
    /\ closing \in [TxnThreads -> {"no", "waiting", "ready"}]
    /\ use \in Uses

Live(g) == st[g] \in {"reserved", "active", "reset"}

\* TransactionTracker.hpp:43: the reservation made before mdbx_txn_begin keeps
\* a coordinated shutdown from closing the environment under a handle that
\* waits for the writer, runs, or is reset for reuse, unless committed guards
\* are begun again.
EnvOutlivesHandles ==
    "restarts" \notin use => \A g \in Guards : Live(g) => env # 0 /\ genv[g] = env

\* m_open_txn_handles is the number of registered guards, so the shutdown
\* neither closes early nor waits for a handle nobody has.
HandlesCounted == openHandles = Cardinality(tracked)

\* thread_txn never hands a table operation a transaction that has ended.
NoDanglingBinding ==
    \A t \in TxnThreads : bound[t] # NoGuard =>
        Owner[bound[t]] = t /\ st[bound[t]] = "active"

\* While a shutdown is pending Connection::transaction and begin give out
\* nothing, so the handles the shutdown waits for only become less, whatever
\* other threads do and however often it times out.
GuardsRefusedAfterShutdown ==
    [][shutdownRequested =>
         \A g \in Guards : st[g] = "none" => st'[g] = "none"]_lifecycleVars

\* Connection.hpp:127: "New transactions are rejected after shutdown is
\* requested."  While one is pending no thread gets a transaction.
NoTransactionAfterShutdown ==
    [][shutdownRequested =>
         /\ \A g \in Guards :
              st[g] \in {"none", "done"} => st'[g] \in {"none", "done"}
         /\ \A t \in TxnThreads : pull[t] = 0 => pull'[t] = 0]_lifecycleVars

\* shutdown() ends once the threads have let go of their handles, unless the
\* request is withdrawn under it: another thread closed and reconnected.
ShutdownEnds ==
    \A t \in TxnThreads : closing[t] # "no" ~> (closing[t] = "no" \/ ~shutdownRequested)
=============================================================================
