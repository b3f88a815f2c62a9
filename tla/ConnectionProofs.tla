-------------------------- MODULE ConnectionProofs --------------------------
(***************************************************************************)
(* A Connection shared by any number of threads.  Guards: a coordinated    *)
(* shutdown never closes the environment under a transaction handle, and   *)
(* the tracker's count and bindings are exact.  Observers: a removal that  *)
(* has returned leaves no callback of another thread behind, which needs   *)
(* the exact count (InFlightExact), that a running callback is counted     *)
(* (RunningOK) and that tokens are not reused (TokensOK).                  *)
(***************************************************************************)
EXTENDS ConnectionLifecycle, SyncApplyObservers, FiniteSetTheorems, TLAPS

-----------------------------------------------------------------------------
(* Guards and shutdown: the inductive invariant                            *)

\* The registered guards are those that hold a native handle.
TrackedOK == \A g \in Guards : g \in tracked <=> Live(g)

\* Nobody restarts a guard in an application that does not.
RestartsOK == "restarts" \notin use => \A g \in Guards : st[g] # "restarted"

LifecycleInv ==
    /\ LifecycleTypeOK /\ HandlesCounted /\ NoDanglingBinding
    /\ TrackedOK /\ RestartsOK /\ EnvOutlivesHandles

-----------------------------------------------------------------------------
(* Guards: counting                                                        *)

\* The registered guards are finitely many, no more than there are guards.
LEMMA TrackedFinite ==
    ASSUME NEW S \in SUBSET Guards
    PROVE  /\ IsFiniteSet(S) /\ Cardinality(S) \in Nat
           /\ Cardinality(S) <= Cardinality(Guards)
           /\ Cardinality(S) = 0 <=> S = {}
           /\ \A g \in Guards : Cardinality(S \cup {g}) =
                  IF g \in S THEN Cardinality(S) ELSE Cardinality(S) + 1
           /\ \A g \in Guards : Cardinality(S \ {g}) =
                  IF g \in S THEN Cardinality(S) - 1 ELSE Cardinality(S)
<1>1. IsFiniteSet(S) /\ Cardinality(S) <= Cardinality(Guards)
  BY LifecycleAssumption, FS_Subset
<1>2. Cardinality(S) \in Nat /\ (Cardinality(S) = 0 <=> S = {})
  BY <1>1, FS_CardinalityType, FS_EmptySet
<1> QED
  BY <1>1, <1>2, FS_AddElement, FS_RemoveElement

\* register_txn_handle of an unregistered guard keeps the count exact.
LEMMA RegisterCounts ==
    ASSUME LifecycleTypeOK, HandlesCounted, NEW g \in Guards, g \notin tracked,
           Register(g)
    PROVE  /\ HandlesCounted' /\ tracked' \subseteq Guards
           /\ openHandles' \in 0..Cardinality(Guards)
<1>1. tracked \in SUBSET Guards /\ tracked' \in SUBSET Guards
  BY DEF LifecycleTypeOK, Register
<1>2. Cardinality(tracked') = Cardinality(tracked) + 1
  BY <1>1, TrackedFinite DEF Register
<1>3. Cardinality(tracked') \in Nat /\ Cardinality(tracked') <= Cardinality(Guards)
      /\ Cardinality(Guards) \in Nat
  BY <1>1, TrackedFinite
<1> QED
  BY <1>1, <1>2, <1>3 DEF HandlesCounted, Register

\* unregister_txn_handle of a registered guard keeps the count exact and
\* never meets a count of zero.
LEMMA UnregisterCounts ==
    ASSUME LifecycleTypeOK, HandlesCounted, NEW g \in tracked, Unregister(g)
    PROVE  /\ HandlesCounted' /\ tracked' \subseteq Guards
           /\ openHandles' \in 0..Cardinality(Guards)
<1>1. tracked \in SUBSET Guards /\ tracked' \in SUBSET Guards /\ g \in Guards
  BY DEF LifecycleTypeOK, Unregister
<1>2. Cardinality(tracked') = Cardinality(tracked) - 1
  BY <1>1, TrackedFinite DEF Unregister
<1>3. /\ Cardinality(tracked) \in Nat /\ Cardinality(tracked) # 0
      /\ Cardinality(tracked') \in Nat /\ Cardinality(tracked') <= Cardinality(Guards)
      /\ Cardinality(Guards) \in Nat
  BY <1>1, TrackedFinite
<1> QED
  BY <1>1, <1>2, <1>3 DEF HandlesCounted, Unregister

-----------------------------------------------------------------------------
(* Guards: steps                                                           *)

\* Connection::transaction and begin, and the native begin after them.
LEMMA BeginKeeps ==
    ASSUME LifecycleInv, UNCHANGED use, NEW g \in Guards,
           Reserve(g) \/ NativeBegin(g) \/ BeginFails(g)
    PROVE  LifecycleInv'
<1> USE LifecycleAssumption DEF LifecycleInv
<1>1. CASE Reserve(g)
  <2>1. g \notin tracked
    BY <1>1 DEF Reserve, TrackedOK, Live
  <2>2. HandlesCounted' /\ tracked' \subseteq Guards /\ openHandles' \in 0..Cardinality(Guards)
    BY <1>1, <2>1, RegisterCounts DEF Reserve
  <2>3. LifecycleTypeOK'
    BY <1>1, <2>2 DEF Reserve, LifecycleTypeOK, States
  <2>4. NoDanglingBinding'
    BY <1>1 DEF Reserve, LifecycleTypeOK, NoDanglingBinding
  <2>5. TrackedOK' /\ RestartsOK'
    BY <1>1 DEF Reserve, Register, LifecycleTypeOK, TrackedOK, RestartsOK, Live
  <2>6. EnvOutlivesHandles'
    BY <1>1 DEF Reserve, Accepts, LifecycleTypeOK, EnvOutlivesHandles, Live
  <2> QED
    BY <2>2, <2>3, <2>4, <2>5, <2>6
<1>2. CASE NativeBegin(g)
  <2>1. LifecycleTypeOK' /\ HandlesCounted'
    BY <1>2 DEF NativeBegin, TakesWriter, LifecycleTypeOK, States, HandlesCounted
  <2>2. NoDanglingBinding'
    BY <1>2 DEF NativeBegin, LifecycleTypeOK, NoDanglingBinding
  <2>3. TrackedOK' /\ RestartsOK' /\ EnvOutlivesHandles'
    BY <1>2 DEF NativeBegin, LifecycleTypeOK, TrackedOK, RestartsOK, EnvOutlivesHandles, Live
  <2> QED
    BY <2>1, <2>2, <2>3
<1>3. CASE BeginFails(g)
  <2>1. g \in tracked
    BY <1>3 DEF BeginFails, TrackedOK, Live
  <2>2. HandlesCounted' /\ tracked' \subseteq Guards /\ openHandles' \in 0..Cardinality(Guards)
    BY <1>3, <2>1, UnregisterCounts DEF BeginFails
  <2>3. LifecycleTypeOK'
    BY <1>3, <2>2 DEF BeginFails, LifecycleTypeOK, States
  <2>4. NoDanglingBinding'
    BY <1>3 DEF BeginFails, LifecycleTypeOK, NoDanglingBinding
  <2>5. TrackedOK' /\ RestartsOK' /\ EnvOutlivesHandles'
    BY <1>3 DEF BeginFails, Unregister, LifecycleTypeOK, TrackedOK, RestartsOK,
                EnvOutlivesHandles, Live
  <2> QED
    BY <2>2, <2>3, <2>4, <2>5
<1> QED
  BY <1>1, <1>2, <1>3

\* Transaction::commit and rollback, and begin on a reset read guard.
LEMMA EndKeeps ==
    ASSUME LifecycleInv, UNCHANGED use, NEW g \in Guards,
           EndWrite(g) \/ EndRead(g) \/ Renew(g)
    PROVE  LifecycleInv'
<1> USE LifecycleAssumption DEF LifecycleInv
<1>1. CASE EndWrite(g)
  <2>1. g \in tracked
    BY <1>1 DEF EndWrite, TrackedOK, Live
  <2>2. HandlesCounted' /\ tracked' \subseteq Guards /\ openHandles' \in 0..Cardinality(Guards)
    BY <1>1, <2>1, UnregisterCounts DEF EndWrite
  <2>3. LifecycleTypeOK'
    BY <1>1, <2>2 DEF EndWrite, Unbound, LifecycleTypeOK, States
  <2>4. NoDanglingBinding'
    BY <1>1 DEF EndWrite, Unbound, LifecycleTypeOK, NoDanglingBinding
  <2>5. TrackedOK' /\ RestartsOK' /\ EnvOutlivesHandles'
    BY <1>1 DEF EndWrite, Unregister, LifecycleTypeOK, TrackedOK, RestartsOK,
                EnvOutlivesHandles, Live
  <2> QED
    BY <2>2, <2>3, <2>4, <2>5
<1>2. CASE EndRead(g)
  <2>1. LifecycleTypeOK' /\ HandlesCounted'
    BY <1>2 DEF EndRead, Unbound, LifecycleTypeOK, States, HandlesCounted
  <2>2. NoDanglingBinding'
    BY <1>2 DEF EndRead, Unbound, LifecycleTypeOK, NoDanglingBinding
  <2>3. TrackedOK' /\ RestartsOK' /\ EnvOutlivesHandles'
    BY <1>2 DEF EndRead, LifecycleTypeOK, TrackedOK, RestartsOK, EnvOutlivesHandles, Live
  <2> QED
    BY <2>1, <2>2, <2>3
<1>3. CASE Renew(g)
  <2>1. LifecycleTypeOK' /\ HandlesCounted'
    BY <1>3 DEF Renew, LifecycleTypeOK, States, HandlesCounted
  <2>2. NoDanglingBinding'
    BY <1>3 DEF Renew, LifecycleTypeOK, NoDanglingBinding
  <2>3. TrackedOK' /\ RestartsOK' /\ EnvOutlivesHandles'
    BY <1>3 DEF Renew, LifecycleTypeOK, TrackedOK, RestartsOK, EnvOutlivesHandles, Live
  <2> QED
    BY <2>1, <2>2, <2>3
<1> QED
  BY <1>1, <1>2, <1>3

\* Transaction::begin on a committed guard, and Transaction::release.
LEMMA RestartKeeps ==
    ASSUME LifecycleInv, UNCHANGED use, NEW g \in Guards,
           Restart(g) \/ RegisterRestarted(g) \/ Destroy(g)
    PROVE  LifecycleInv'
<1> USE LifecycleAssumption DEF LifecycleInv
<1>1. CASE Restart(g)
  <2>1. LifecycleTypeOK' /\ HandlesCounted'
    BY <1>1 DEF Restart, LifecycleTypeOK, States, HandlesCounted
  <2>2. NoDanglingBinding'
    BY <1>1 DEF Restart, LifecycleTypeOK, NoDanglingBinding
  <2>3. TrackedOK' /\ RestartsOK' /\ EnvOutlivesHandles'
    BY <1>1 DEF Restart, LifecycleTypeOK, TrackedOK, RestartsOK, EnvOutlivesHandles, Live
  <2> QED
    BY <2>1, <2>2, <2>3
<1>2. CASE RegisterRestarted(g)
  <2>1. g \notin tracked
    BY <1>2 DEF RegisterRestarted, TrackedOK, Live
  <2>2. HandlesCounted' /\ tracked' \subseteq Guards /\ openHandles' \in 0..Cardinality(Guards)
    BY <1>2, <2>1, RegisterCounts DEF RegisterRestarted
  <2>3. LifecycleTypeOK'
    BY <1>2, <2>2 DEF RegisterRestarted, LifecycleTypeOK, States
  <2>4. NoDanglingBinding'
    BY <1>2 DEF RegisterRestarted, LifecycleTypeOK, NoDanglingBinding
  <2>5. TrackedOK' /\ RestartsOK' /\ EnvOutlivesHandles'
    BY <1>2 DEF RegisterRestarted, Register, LifecycleTypeOK, TrackedOK, RestartsOK,
                EnvOutlivesHandles, Live
  <2> QED
    BY <2>2, <2>3, <2>4, <2>5
<1>3. CASE Destroy(g)
  <2>1. HandlesCounted' /\ tracked' \subseteq Guards /\ openHandles' \in 0..Cardinality(Guards)
    <3>1. CASE Releases(g)
      BY <1>3, <3>1, UnregisterCounts DEF Destroy, Releases
    <3>2. CASE ~Releases(g)
      BY <1>3, <3>2 DEF Destroy, HandlesCounted, LifecycleTypeOK
    <3> QED
      BY <3>1, <3>2
  <2>2. tracked' = tracked \ {g}
    BY <1>3 DEF Destroy, Releases, Unregister
  <2>3. LifecycleTypeOK'
    BY <1>3, <2>1 DEF Destroy, Unbound, LifecycleTypeOK, States
  <2>4. NoDanglingBinding'
    BY <1>3 DEF Destroy, Unbound, LifecycleTypeOK, NoDanglingBinding
  <2>5. TrackedOK' /\ RestartsOK' /\ EnvOutlivesHandles'
    BY <1>3, <2>2 DEF Destroy, LifecycleTypeOK, TrackedOK, RestartsOK,
                      EnvOutlivesHandles, Live
  <2> QED
    BY <2>1, <2>3, <2>4, <2>5
<1> QED
  BY <1>1, <1>2, <1>3

\* Pulls, connect and shutdown leave guards and tracker alone.
LEMMA LifecycleKeeps ==
    ASSUME LifecycleInv, UNCHANGED use, NEW t \in TxnThreads,
           \/ BeginPull(t) \/ EndPull(t) \/ Connect(t) \/ RequestShutdown(t)
           \/ StopWaiting(t) \/ ShutdownTimesOut(t) \/ Disconnect(t)
    PROVE  LifecycleInv'
<1> USE LifecycleAssumption DEF LifecycleInv
<1>1. UNCHANGED <<openHandles, tracked, st, genv, bound>>
  BY SMTT(40) DEF BeginPull, EndPull, Connect, RequestShutdown, StopWaiting, ShutdownTimesOut,
         Disconnect
<1>2. HandlesCounted' /\ NoDanglingBinding' /\ TrackedOK' /\ RestartsOK'
  BY <1>1 DEF HandlesCounted, NoDanglingBinding, TrackedOK, RestartsOK, Live
<1>3. CASE BeginPull(t) \/ EndPull(t) \/ RequestShutdown(t) \/ StopWaiting(t)
           \/ ShutdownTimesOut(t)
  <2>1. env \in 0..MaxOpens
    BY SMTT(40) DEF LifecycleTypeOK
  <2>2. pull' \in [TxnThreads -> 0..MaxOpens]
    BY SMTT(40), <1>3, <2>1 DEF BeginPull, EndPull, RequestShutdown, StopWaiting, ShutdownTimesOut,
                      LifecycleTypeOK
  <2>3. closing' \in [TxnThreads -> {"no", "waiting", "ready"}]
    BY SMTT(40), <1>3 DEF BeginPull, EndPull, RequestShutdown, StopWaiting, ShutdownTimesOut,
                LifecycleTypeOK
  <2>4. LifecycleTypeOK'
    BY ZenonT(40), <1>3, <2>2, <2>3 DEF BeginPull, EndPull, RequestShutdown, StopWaiting,
                            ShutdownTimesOut, LifecycleTypeOK
  <2>5. EnvOutlivesHandles'
    BY Zenon, <1>3 DEF BeginPull, EndPull, RequestShutdown, StopWaiting, ShutdownTimesOut,
                EnvOutlivesHandles, Live
  <2> QED
    BY <1>2, <2>4, <2>5
<1>4. CASE Connect(t)
  <2>1. opens \in 1..MaxOpens /\ opens < MaxOpens /\ opens' = opens + 1 /\ env' = opens + 1
    BY <1>4 DEF Connect, Opened, LifecycleTypeOK
  <2>2. opens' \in 1..MaxOpens /\ env' \in {0, opens'}
    BY <2>1
  <2>3. LifecycleTypeOK'
    BY Zenon, <1>4, <2>2 DEF Connect, LifecycleTypeOK
  <2>4. EnvOutlivesHandles'
    BY Zenon, <1>4 DEF Connect, EnvOutlivesHandles, Live
  <2> QED
    BY <1>2, <2>3, <2>4
<1>5. CASE Disconnect(t)
  <2>1. LifecycleTypeOK'
    BY Zenon, <1>5 DEF Disconnect, LifecycleTypeOK
  <2>2. EnvOutlivesHandles'
    <3>1. CASE UNCHANGED env
      BY <1>1, <3>1 DEF EnvOutlivesHandles, Live
    <3>2. CASE openHandles = 0
      <4>1. tracked = {}
        BY Zenon, <3>2, TrackedFinite DEF HandlesCounted, LifecycleTypeOK
      <4> QED
        BY <1>1, <4>1 DEF TrackedOK, EnvOutlivesHandles, Live
    <3> QED
      BY <1>5, <3>1, <3>2 DEF Disconnect, Refuses
  <2> QED
    BY <1>2, <2>1, <2>2
<1> QED
  BY SMTT(40), <1>3, <1>4, <1>5

-----------------------------------------------------------------------------
(* Guards: theorems                                                        *)

\* The invariant holds from connect on.
LEMMA LifecycleInvariant == LifecycleSpec => []LifecycleInv
<1>1. LifecycleInit => LifecycleInv
  <2> SUFFICES ASSUME LifecycleInit PROVE LifecycleInv
    OBVIOUS
  <2>1. Cardinality({}) = 0 /\ Cardinality(Guards) \in Nat
    BY LifecycleAssumption, FS_EmptySet, FS_CardinalityType
  <2>2. 0 \in 0..Cardinality(Guards) /\ 1 \in 1..MaxOpens /\ 0 \in 0..MaxOpens
    BY <2>1, LifecycleAssumption
  <2>3. LifecycleTypeOK /\ HandlesCounted
    BY <2>1, <2>2, Zenon DEF LifecycleInit, LifecycleTypeOK, HandlesCounted, States
  <2>4. NoDanglingBinding /\ TrackedOK /\ RestartsOK /\ EnvOutlivesHandles
    BY DEF LifecycleInit, NoDanglingBinding, TrackedOK, RestartsOK, EnvOutlivesHandles, Live
  <2> QED
    BY <2>3, <2>4 DEF LifecycleInv
<1>2. LifecycleInv /\ [LifecycleNext]_lifecycleVars => LifecycleInv'
  <2> SUFFICES ASSUME LifecycleInv, [LifecycleNext]_lifecycleVars PROVE LifecycleInv'
    OBVIOUS
  <2>1. CASE LifecycleNext
    BY <2>1, BeginKeeps, EndKeeps, RestartKeeps, LifecycleKeeps DEF LifecycleNext
  <2>2. CASE UNCHANGED lifecycleVars
    BY <2>2 DEF lifecycleVars, stateVars, LifecycleInv, LifecycleTypeOK, HandlesCounted,
                NoDanglingBinding, TrackedOK, RestartsOK, EnvOutlivesHandles, Live
  <2> QED
    BY <2>1, <2>2
<1> QED
  BY <1>1, <1>2, PTL DEF LifecycleSpec

\* TransactionTracker and Connection::disconnect: for any threads and guards,
\* a coordinated shutdown never closes the environment under a handle that is
\* reserved, runs or is reset for reuse.
THEOREM EnvAlwaysOutlivesHandles == LifecycleSpec => []EnvOutlivesHandles
BY LifecycleInvariant, PTL DEF LifecycleInv

\* The tracker's count is the number of registered guards, and the transaction
\* it binds to a thread is one of that thread's that has not ended.
THEOREM TrackerExact == LifecycleSpec => [](HandlesCounted /\ NoDanglingBinding)
BY LifecycleInvariant, PTL DEF LifecycleInv

\* Connection::transaction and begin give out no guard while a shutdown is
\* pending, whatever other threads do.
THEOREM GuardsStayRefused == LifecycleSpec => GuardsRefusedAfterShutdown
<1>1. LifecycleInv /\ [LifecycleNext]_lifecycleVars =>
        [shutdownRequested => \A g \in Guards : st[g] = "none" => st'[g] = "none"]_lifecycleVars
  <2> SUFFICES ASSUME LifecycleInv, LifecycleNext, shutdownRequested, NEW h \in Guards,
                      st[h] = "none"
               PROVE  st'[h] = "none"
    OBVIOUS
  <2>1. st \in [Guards -> States]
    BY DEF LifecycleInv, LifecycleTypeOK
  <2>2. CASE \E t \in TxnThreads :
               \/ BeginPull(t) \/ EndPull(t) \/ Connect(t) \/ RequestShutdown(t)
               \/ StopWaiting(t) \/ ShutdownTimesOut(t) \/ Disconnect(t)
    BY Zenon, <2>2 DEF BeginPull, EndPull, Connect, RequestShutdown, StopWaiting,
                ShutdownTimesOut, Disconnect
  <2>3. ASSUME NEW g \in Guards, Reserve(g)
        PROVE  st'[h] = "none"
    BY <2>3 DEF Reserve, Accepts
  <2>4. ASSUME NEW g \in Guards,
               \/ NativeBegin(g) \/ BeginFails(g) \/ EndWrite(g) \/ EndRead(g)
               \/ Renew(g) \/ Destroy(g) \/ Restart(g) \/ RegisterRestarted(g)
        PROVE  st'[h] = "none"
    BY Zenon, <2>1, <2>4 DEF NativeBegin, BeginFails, EndWrite, EndRead, Renew, Destroy,
                      Restart, RegisterRestarted
  <2> QED
    BY <2>2, <2>3, <2>4 DEF LifecycleNext
<1> QED
  BY <1>1, LifecycleInvariant, PTL DEF LifecycleSpec, GuardsRefusedAfterShutdown

-----------------------------------------------------------------------------
(* Observers: the inductive invariant                                      *)

\* A callback that runs is one its thread has yet to finish.
RunningOK == \A t \in Threads : running[t] # 0 => running[t] \in todo[t]

\* A token that is removed, or waits to be, is never registered again.
TokensOK ==
    /\ \A k \in Tokens : removed[k] # Nobody => k <= nextToken /\ k \notin registered
    /\ \A t \in Threads :
         removing[t] # 0 => removing[t] <= nextToken /\ removing[t] \notin registered

ObserversInv ==
    /\ ObserversTypeOK /\ InFlightExact /\ RunningOK /\ TokensOK /\ RemovedMeansQuiet

\* The threads with a pending callback of a token are finitely many.
LEMMA PendingFinite ==
    ASSUME NEW S \in SUBSET Threads
    PROVE  /\ Cardinality(S) \in Nat
           /\ Cardinality(S) = 0 <=> S = {}
           /\ \A t \in Threads : Cardinality(S \cup {t}) =
                  IF t \in S THEN Cardinality(S) ELSE Cardinality(S) + 1
           /\ \A t \in Threads : Cardinality(S \ {t}) =
                  IF t \in S THEN Cardinality(S) - 1 ELSE Cardinality(S)
<1>1. IsFiniteSet(S)
  BY ObserversAssumption, FS_Subset
<1>2. Cardinality(S) \in Nat /\ (Cardinality(S) = 0 <=> S = {})
  BY <1>1, FS_CardinalityType, FS_EmptySet
<1> QED
  BY <1>1, <1>2, FS_AddElement, FS_RemoveElement

\* remove_sync_apply_observer: when in_flight is no more than the caller's own
\* callback, no other thread has one pending.
LEMMA NoWaitMeansQuiet ==
    ASSUME ObserversInv, NEW t \in Threads, NEW k \in Tokens, ~MustWait(t, k)
    PROVE  Pending(k) \subseteq {t}
<1>1. Pending(k) \in SUBSET Threads /\ inFlight[k] = Cardinality(Pending(k))
  BY DEF ObserversInv, InFlightExact, Pending
<1>2. Cardinality(Pending(k)) \in Nat
  BY <1>1, PendingFinite
<1>3. CASE running[t] = k
  <2>1. t \in Pending(k)
    BY <1>3, ObserversAssumption DEF ObserversInv, ObserversTypeOK, RunningOK, Pending, Tokens
  <2>2. Cardinality(Pending(k)) <= 1
    BY <1>1, <1>2, <1>3 DEF MustWait, OwnInFlight
  <2>3. /\ Pending(k) \ {t} \in SUBSET Threads
        /\ Cardinality(Pending(k) \ {t}) = Cardinality(Pending(k)) - 1
    BY <1>1, <2>1, PendingFinite
  <2>4. Cardinality(Pending(k) \ {t}) \in Nat
    BY <2>3, PendingFinite
  <2>5. Cardinality(Pending(k) \ {t}) = 0
    BY <1>2, <2>2, <2>3, <2>4
  <2> QED
    BY Zenon, <2>3, <2>5, PendingFinite
<1>4. CASE running[t] # k
  <2>1. Cardinality(Pending(k)) = 0
    BY <1>1, <1>2, <1>4 DEF MustWait, OwnInFlight
  <2> QED
    BY <1>1, <2>1, PendingFinite
<1> QED
  BY <1>3, <1>4

-----------------------------------------------------------------------------
(* Observers: steps                                                        *)

\* add_sync_apply_observer
LEMMA AddKeeps ==
    ASSUME ObserversInv, NEW t \in Threads, AddObserver(t)
    PROVE  ObserversInv'
<1> USE DEF ObserversInv
<1>1. nextToken \in Nat /\ nextToken' = nextToken + 1 /\ nextToken' \in Tokens
      /\ registered' = registered \cup {nextToken + 1} /\ nextToken' \in 0..MaxTokens
  BY ObserversAssumption DEF AddObserver, TokenAfter, ObserversTypeOK, Tokens
<1>2. registered' \subseteq 1..nextToken'
  BY <1>1 DEF ObserversTypeOK
<1>3. filter' \in [Tokens -> SUBSET ObservedDbis]
  BY <1>1 DEF AddObserver, ObserversTypeOK
<1>4. UNCHANGED <<generation, inFlight, todo, running, removing, asleep, removed>>
  BY DEF AddObserver
<1>5. ObserversTypeOK'
  BY SMTT(40), <1>1, <1>2, <1>3, <1>4 DEF ObserversTypeOK
<1>6. InFlightExact' /\ RunningOK' /\ RemovedMeansQuiet'
  BY <1>4 DEF InFlightExact, RunningOK, RemovedMeansQuiet, Pending
<1>7. TokensOK'
  BY <1>1, <1>4 DEF TokensOK, ObserversTypeOK, Tokens
<1> QED
  BY <1>5, <1>6, <1>7

\* mark_sync_apply_committed
LEMMA MarkKeeps ==
    ASSUME ObserversInv, NEW t \in Threads, MarkCommitted(t)
    PROVE  ObserversInv'
<1> USE DEF ObserversInv
<1>1. PICK match \in SUBSET registered :
        /\ todo' = [todo EXCEPT ![t] = match]
        /\ inFlight' = [k \in Tokens |->
                          IF Counts(k, match) THEN inFlight[k] + 1 ELSE inFlight[k]]
  BY Zenon DEF MarkCommitted
<1>2. /\ UNCHANGED <<nextToken, registered, filter, running, removing, asleep, removed>>
      /\ todo[t] = {} /\ running[t] = 0
  BY DEF MarkCommitted, RunningOK
<1>3. registered \subseteq Tokens /\ todo \in [Threads -> SUBSET Tokens]
      /\ inFlight \in [Tokens -> Nat]
  BY ObserversAssumption DEF ObserversTypeOK, Tokens
<1>4. generation' \in 0..MaxApplies
  BY ObserversAssumption DEF MarkCommitted, ObserversTypeOK
<1>5. ObserversTypeOK'
  BY <1>1, <1>2, <1>3, <1>4 DEF ObserversTypeOK, Counts
<1>6. ASSUME NEW k \in Tokens
      PROVE  Pending(k)' = IF k \in match THEN Pending(k) \cup {t} ELSE Pending(k)
  BY <1>1, <1>2, <1>3 DEF Pending
<1>7. InFlightExact'
  <2> SUFFICES ASSUME NEW k \in Tokens PROVE inFlight'[k] = Cardinality(Pending(k)')
    BY DEF InFlightExact
  <2>1. Pending(k) \in SUBSET Threads /\ t \notin Pending(k)
        /\ inFlight[k] = Cardinality(Pending(k))
    BY <1>2 DEF Pending, InFlightExact
  <2>2. Cardinality(Pending(k) \cup {t}) = inFlight[k] + 1
    BY SMTT(40), <2>1, PendingFinite
  <2> QED
    BY <1>1, <1>6, <2>1, <2>2 DEF Counts
<1>8. RunningOK' /\ TokensOK'
  BY SMTT(40), <1>1, <1>2, <1>3 DEF RunningOK, TokensOK
<1>9. RemovedMeansQuiet'
  BY <1>1, <1>2, <1>6 DEF RemovedMeansQuiet, TokensOK
<1> QED
  BY SMTT(40), <1>5, <1>7, <1>8, <1>9

\* begin_sync_apply_observer_callback
LEMMA BeginCallbackKeeps ==
    ASSUME ObserversInv, NEW t \in Threads, BeginCallback(t)
    PROVE  ObserversInv'
<1> USE DEF ObserversInv
<1>1. PICK k \in todo[t] : running' = [running EXCEPT ![t] = k]
  BY Zenon DEF BeginCallback
<1>2. UNCHANGED <<nextToken, registered, filter, generation, inFlight, todo, removing,
                  asleep, removed>>
  BY DEF BeginCallback
<1>3. ObserversTypeOK'
  BY <1>1, <1>2 DEF ObserversTypeOK
<1>4. InFlightExact' /\ TokensOK' /\ RemovedMeansQuiet'
  BY <1>2 DEF InFlightExact, TokensOK, RemovedMeansQuiet, Pending
<1>5. RunningOK'
  BY <1>1, <1>2 DEF RunningOK, ObserversTypeOK
<1> QED
  BY <1>3, <1>4, <1>5

\* finish_sync_apply_observer_callback
LEMMA FinishKeeps ==
    ASSUME ObserversInv, NEW t \in Threads, FinishCallback(t)
    PROVE  ObserversInv'
<1> USE DEF ObserversInv
<1>1. PICK k \in Tokens : k = running[t] /\ k \in todo[t]
  BY DEF FinishCallback, ObserversTypeOK, RunningOK
<1>2. /\ todo' = [todo EXCEPT ![t] = @ \ {k}]
      /\ inFlight' = [inFlight EXCEPT ![k] = IF @ # 0 THEN @ - 1 ELSE 0]
      /\ asleep' \in {{}, asleep}
      /\ running' = [running EXCEPT ![t] = 0]
      /\ UNCHANGED <<nextToken, registered, filter, generation, removing, removed>>
  BY <1>1 DEF FinishCallback
<1>3. todo \in [Threads -> SUBSET Tokens] /\ inFlight \in [Tokens -> Nat]
      /\ running \in [Threads -> Tokens \cup {0}]
  BY DEF ObserversTypeOK
<1>4. ObserversTypeOK'
  <2>1. inFlight' \in [Tokens -> Nat]
    BY <1>2, <1>3
  <2>2. todo' \in [Threads -> SUBSET Tokens] /\ running' \in [Threads -> Tokens \cup {0}]
    BY <1>2, <1>3
  <2> QED
    BY <1>2, <2>1, <2>2 DEF ObserversTypeOK
<1>5. ASSUME NEW j \in Tokens
      PROVE  Pending(j)' = IF j = k THEN Pending(j) \ {t} ELSE Pending(j)
  BY <1>2, <1>3 DEF Pending
<1>6. InFlightExact'
  <2> SUFFICES ASSUME NEW j \in Tokens PROVE inFlight'[j] = Cardinality(Pending(j)')
    BY DEF InFlightExact
  <2>1. Pending(k) \in SUBSET Threads /\ t \in Pending(k)
        /\ inFlight[k] = Cardinality(Pending(k))
    BY <1>1 DEF Pending, InFlightExact
  <2>2. Cardinality(Pending(k) \ {t}) = inFlight[k] - 1
    BY <2>1, PendingFinite
  <2>3. inFlight[k] # 0
    BY <2>1, PendingFinite
  <2> QED
    BY Zenon, <1>2, <1>3, <1>5, <2>2, <2>3 DEF InFlightExact
<1>7. RunningOK'
  BY <1>2, <1>3 DEF RunningOK
<1>8. TokensOK'
  BY <1>2 DEF TokensOK
<1>9. RemovedMeansQuiet'
  BY <1>2, <1>5 DEF RemovedMeansQuiet
<1> QED
  BY <1>4, <1>6, <1>7, <1>8, <1>9

\* remove_sync_apply_observer: a removal that returns leaves at most its own
\* callback pending, one that waits has taken its token out.
LEMMA RemoveKeeps ==
    ASSUME ObserversInv, NEW t \in Threads, NEW k \in Tokens,
           /\ k \notin registered' /\ k <= nextToken /\ registered' \subseteq registered
           /\ \/ /\ removing' \in {removing, [removing EXCEPT ![t] = k]}
                 /\ removed' = removed
              \/ /\ ~MustWait(t, k)
                 /\ removing' \in {removing, [removing EXCEPT ![t] = 0]}
                 /\ removed' = [removed EXCEPT ![k] = t]
           /\ asleep' \in {asleep, asleep \cup {t}}
           /\ UNCHANGED <<nextToken, filter, generation, inFlight, todo, running>>
    PROVE  ObserversInv'
<1> USE DEF ObserversInv
<1>1. ObserversTypeOK'
  BY SMTT(40) DEF ObserversTypeOK
<1>2. InFlightExact' /\ RunningOK'
  BY DEF InFlightExact, RunningOK, Pending
<1>3. TokensOK'
  <2>1. ASSUME NEW j \in Tokens, removed'[j] # Nobody
        PROVE  j = k \/ removed[j] # Nobody
    BY <2>1 DEF ObserversTypeOK
  <2>2. ASSUME NEW u \in Threads, removing'[u] # 0
        PROVE  removing'[u] = k \/ (removing'[u] = removing[u] /\ removing[u] # 0)
    BY <2>2 DEF ObserversTypeOK
  <2> QED
    BY <2>1, <2>2 DEF TokensOK
<1>4. RemovedMeansQuiet'
  <2> SUFFICES ASSUME NEW j \in Tokens, removed'[j] # Nobody
               PROVE  Pending(j) \subseteq {removed'[j]}
    BY DEF RemovedMeansQuiet, Pending
  <2>1. CASE removed'[j] = removed[j]
    BY <2>1 DEF RemovedMeansQuiet
  <2>2. CASE removed'[j] # removed[j]
    <3>1. j = k /\ removed'[j] = t /\ ~MustWait(t, k)
      BY <2>2 DEF ObserversTypeOK
    <3> QED
      BY <3>1, NoWaitMeansQuiet
  <2> QED
    BY <2>1, <2>2
<1> QED
  BY <1>1, <1>2, <1>3, <1>4

-----------------------------------------------------------------------------
(* Observers: theorems                                                     *)

\* The invariant holds from the first registration on.
LEMMA ObserversInvariant == ObserversSpec => []ObserversInv
<1>1. ObserversInit => ObserversInv
  <2> SUFFICES ASSUME ObserversInit PROVE ObserversInv
    OBVIOUS
  <2>1. ObserversTypeOK
    BY ObserversAssumption DEF ObserversInit, ObserversTypeOK, Tokens
  <2>2. InFlightExact
    BY Zenon, FS_EmptySet DEF ObserversInit, InFlightExact, Pending
  <2>3. RunningOK /\ TokensOK /\ RemovedMeansQuiet
    BY DEF ObserversInit, RunningOK, TokensOK, RemovedMeansQuiet
  <2> QED
    BY <2>1, <2>2, <2>3 DEF ObserversInv
<1>2. ObserversInv /\ [ObserversNext]_observerVars => ObserversInv'
  <2> SUFFICES ASSUME ObserversInv, [ObserversNext]_observerVars PROVE ObserversInv'
    OBVIOUS
  <2>1. ASSUME NEW t \in Threads, NEW k \in Tokens, RemoveObserver(t, k)
        PROVE  ObserversInv'
    <3>1. k <= nextToken
      BY <2>1 DEF RemoveObserver, ObserversInv, ObserversTypeOK
    <3> QED
      BY Zenon, <2>1, <3>1, RemoveKeeps DEF RemoveObserver
  <2>2. ASSUME NEW t \in Threads, Recheck(t)
        PROVE  ObserversInv'
    <3>1. PICK k \in Tokens : k = removing[t] /\ k <= nextToken /\ k \notin registered
      BY <2>2 DEF Recheck, Blocked, ObserversInv, ObserversTypeOK, TokensOK
    <3> QED
      BY <2>2, <3>1, RemoveKeeps DEF Recheck
  <2>3. CASE UNCHANGED observerVars
    BY <2>3 DEF observerVars, ObserversInv, ObserversTypeOK, InFlightExact, RunningOK,
                TokensOK, RemovedMeansQuiet, Pending
  <2> QED
    BY <2>1, <2>2, <2>3, AddKeeps, MarkKeeps, BeginCallbackKeeps, FinishKeeps
       DEF ObserversNext
<1> QED
  BY <1>1, <1>2, PTL DEF ObserversSpec

\* Connection::remove_sync_apply_observer: for any threads, registrations and
\* applies, once a removal has returned no thread but its caller has a callback
\* of the token running or still to begin.
THEOREM RemovalsQuiet == ObserversSpec => []RemovedMeansQuiet
BY ObserversInvariant, PTL DEF ObserversInv

\* in_flight counts exactly the collected callbacks that have not finished.
THEOREM InFlightCounts == ObserversSpec => []InFlightExact
BY ObserversInvariant, PTL DEF ObserversInv
=============================================================================
