------------------------- MODULE SyncApplyObservers -------------------------
(***************************************************************************)
(* The sync-apply observers of a Connection: threads that commit a sync    *)
(* apply collect the matching observers under the connection mutex, then   *)
(* call them with the mutex released, while other threads, or a callback   *)
(* itself, remove registrations and wait for the calls in flight.          *)
(*                                                                         *)
(* Each action is one critical section of m_mdbx_mutex.  A callback that   *)
(* itself applies (a nested notification) is not modelled.                 *)
(***************************************************************************)
EXTENDS Integers, FiniteSets

CONSTANTS
    Threads, Nobody,
    ObservedDbis,
    MaxTokens,      \* bound: registrations
    MaxApplies,     \* bound: committed applies
    RemoveInside    \* BOOLEAN: a callback may remove observers, also its own

ASSUME ObserversAssumption ==
    /\ IsFiniteSet(Threads) /\ Nobody \notin Threads
    /\ MaxTokens \in Nat /\ MaxApplies \in Nat
    /\ RemoveInside \in BOOLEAN

VARIABLES
    nextToken,      \* m_next_sync_apply_observer_token
    registered,     \* tokens in m_sync_apply_observers
    filter,         \* filter[k]: the DBIs of token k's registration
    generation,     \* m_sync_apply_generation
    inFlight,       \* in_flight of each observer state
    todo,           \* todo[t]: callbacks of t's notification not yet finished
    running,        \* running[t]: the token whose callback t is in, or 0
    removing,       \* removing[t]: the token t waits to be rid of, or 0
    asleep,         \* threads blocked on m_sync_apply_observer_cv
    removed         \* removed[k]: the thread whose removal returned true (history)

observerVars == <<nextToken, registered, filter, generation, inFlight, todo, running,
          removing, asleep, removed>>

Tokens == 1..MaxTokens

ObserversInit ==
    /\ nextToken = 0
    /\ registered = {}
    /\ filter = [k \in Tokens |-> ObservedDbis]
    /\ generation = 0
    /\ inFlight = [k \in Tokens |-> 0]
    /\ todo = [t \in Threads |-> {}]
    /\ running = [t \in Threads |-> 0]
    /\ removing = [t \in Threads |-> 0]
    /\ asleep = {}
    /\ removed = [k \in Tokens |-> Nobody]

Blocked(t) == removing[t] # 0

TokenAfter(n) == n + 1

\* add_sync_apply_observer and add_sync_apply_observer_for_dbis; without a
\* filter an observer matches every DBI.
AddObserver(t) ==
    /\ ~Blocked(t) /\ todo[t] = {}
    /\ nextToken < MaxTokens
    /\ nextToken' = nextToken + 1
    /\ registered' = registered \cup {TokenAfter(nextToken)}
    /\ \E names \in SUBSET ObservedDbis \ {{}} :
         filter' = [filter EXCEPT ![nextToken'] = names]
    /\ UNCHANGED <<generation, inFlight, todo, running, removing, asleep, removed>>

Counts(k, match) == k \in match

\* mark_sync_apply_committed: the generation moves and every matching
\* observer gets a pending callback that counts as in flight.
MarkCommitted(t) ==
    /\ ~Blocked(t) /\ todo[t] = {}
    /\ generation < MaxApplies
    /\ generation' = generation + 1
    /\ \E names \in SUBSET ObservedDbis \ {{}} :
         LET match == {k \in registered : filter[k] \cap names # {}}
         IN  /\ todo' = [todo EXCEPT ![t] = match]
             /\ inFlight' = [k \in Tokens |->
                               IF Counts(k, match) THEN inFlight[k] + 1 ELSE inFlight[k]]
    /\ UNCHANGED <<nextToken, registered, filter, running, removing, asleep, removed>>

\* begin_sync_apply_observer_callback, in registration order.
BeginCallback(t) ==
    /\ running[t] = 0
    /\ \E k \in todo[t] :
         /\ \A other \in todo[t] : k <= other
         /\ running' = [running EXCEPT ![t] = k]
    /\ UNCHANGED <<nextToken, registered, filter, generation, inFlight, todo,
                   removing, asleep, removed>>

\* Mutant: the last callback to end wakes nobody.
WakesNobody(k) == FALSE
WakesWaiters(k) == inFlight[k] - 1 = 0

\* finish_sync_apply_observer_callback
FinishCallback(t) ==
    /\ running[t] # 0 /\ ~Blocked(t)
    /\ LET k == running[t]
       IN  /\ todo' = [todo EXCEPT ![t] = @ \ {k}]
           /\ inFlight' = [inFlight EXCEPT ![k] = IF @ # 0 THEN @ - 1 ELSE 0]
           /\ asleep' = IF WakesWaiters(k) THEN {} ELSE asleep
    /\ running' = [running EXCEPT ![t] = 0]
    /\ UNCHANGED <<nextToken, registered, filter, generation, removing, removed>>

OwnInFlight(t, k) == IF running[t] = k THEN 1 ELSE 0

\* Mutant: a removal does not wait for callbacks that have not begun.
MustWaitIfRunning(t, k) == \E u \in Threads \ {t} : running[u] = k
MustWait(t, k) == inFlight[k] > OwnInFlight(t, k)

\* remove_sync_apply_observer, up to its return or its first wait.
RemoveObserver(t, k) ==
    /\ ~Blocked(t)
    /\ (todo[t] = {}) \/ (RemoveInside /\ running[t] # 0)
    /\ k \in registered
    /\ registered' = registered \ {k}
    /\ \/ /\ MustWait(t, k)
          /\ removing' = [removing EXCEPT ![t] = k]
          /\ asleep' = asleep \cup {t}
          /\ removed' = removed
       \/ /\ ~MustWait(t, k)
          /\ removed' = [removed EXCEPT ![k] = t]
          /\ UNCHANGED <<removing, asleep>>
    /\ UNCHANGED <<nextToken, filter, generation, inFlight, todo, running>>

\* The wait loop after a notification: return, or wait again.
Recheck(t) ==
    /\ Blocked(t) /\ t \notin asleep
    /\ \/ /\ MustWait(t, removing[t])
          /\ asleep' = asleep \cup {t}
          /\ UNCHANGED <<removing, removed>>
       \/ /\ ~MustWait(t, removing[t])
          /\ removed' = [removed EXCEPT ![removing[t]] = t]
          /\ removing' = [removing EXCEPT ![t] = 0]
          /\ asleep' = asleep
    /\ UNCHANGED <<nextToken, registered, filter, generation, inFlight, todo, running>>

ObserversNext ==
    \E t \in Threads :
      \/ AddObserver(t) \/ MarkCommitted(t)
      \/ BeginCallback(t) \/ FinishCallback(t)
      \/ Recheck(t)
      \/ \E k \in Tokens : RemoveObserver(t, k)

ObserversSpec == ObserversInit /\ [][ObserversNext]_observerVars

\* Callbacks return and notified threads run.
ObserversFairness == \A t \in Threads : /\ WF_observerVars(BeginCallback(t))
                               /\ WF_observerVars(FinishCallback(t))
                               /\ WF_observerVars(Recheck(t))

ObserversFairSpec == ObserversSpec /\ ObserversFairness

-----------------------------------------------------------------------------
(* Properties                                                              *)

\* Every variable stays in its type.
ObserversTypeOK ==
    /\ nextToken \in 0..MaxTokens
    /\ registered \subseteq 1..nextToken
    /\ filter \in [Tokens -> SUBSET ObservedDbis]
    /\ generation \in 0..MaxApplies
    /\ inFlight \in [Tokens -> Nat]
    /\ todo \in [Threads -> SUBSET Tokens]
    /\ running \in [Threads -> Tokens \cup {0}]
    /\ removing \in [Threads -> Tokens \cup {0}]
    /\ asleep \subseteq Threads
    /\ removed \in [Tokens -> Threads \cup {Nobody}]

Pending(k) == {t \in Threads : k \in todo[t]}

\* in_flight counts exactly the collected callbacks that have not finished,
\* begun or not: the number remove_sync_apply_observer waits on is right.
InFlightExact == \A k \in Tokens : inFlight[k] = Cardinality(Pending(k))

\* Connection.hpp:276: "When this returns true, no callback for token is still
\* running or will start later."  The one exception is the callback that made
\* the call.
RemovedMeansQuiet ==
    \A k \in Tokens : removed[k] # Nobody => Pending(k) \subseteq {removed[k]}

\* A removal of t waits for a callback of u; and removals that wait for each
\* other in a circle: each of them for a callback of another, or of its own.
HeldUpBy(t, u) == Blocked(t) /\ removing[t] \in todo[u]
Circular == \E S \in SUBSET Threads \ {{}} : \A t \in S : \E u \in S : HeldUpBy(t, u)

\* remove_sync_apply_observer: a removal returns once the callbacks it waits
\* for end, also when it was made in a callback, unless the wait is circular.
RemoveReturns == \A t \in Threads : Blocked(t) ~> (~Blocked(t) \/ Circular)

\* A removal from within the callback it removes.
RemovesItself(t) == Blocked(t) /\ running[t] = removing[t]

\* Connection.hpp:277: "If this is called from that observer's own callback,
\* it waits for other in-flight callbacks for the same token but not for the
\* current callback."  So it returns once those have ended.
RemoveFromOwnCallbackReturns ==
    \A t \in Threads : RemovesItself(t) ~> ~Blocked(t)
=============================================================================
