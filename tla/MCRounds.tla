----------------------------- MODULE MCRounds ------------------------------
(* The rounds of a SyncWorker, and those of the selective workers of one   *)
(* receiver of two writers' scopes, for TLC, one at a time.                *)
EXTENDS SyncWorker, SelectiveReplication

CONSTANTS Parts, a1, a2, b1

Option(drain, fallback, persist, deliveries, peerDelivers, stopOnPermanent, wrapped) ==
    [drain |-> drain, fallback |-> fallback, persist |-> persist,
     deliveries |-> deliveries, peerDelivers |-> peerDelivers,
     stopOnPermanent |-> stopOnPermanent, wrapped |-> wrapped]

MCOptions == {
    Option(FALSE, "none", FALSE, 0, FALSE, TRUE, FALSE),
    Option(TRUE, "snapshot", FALSE, 1, TRUE, FALSE, FALSE),
    Option(TRUE, "snapshot", TRUE, 0, FALSE, FALSE, FALSE),
    Option(FALSE, "recovery", TRUE, 1, FALSE, FALSE, FALSE)}
MCWrapped == {Option(FALSE, "none", FALSE, 0, FALSE, TRUE, TRUE)}

A == [scope |-> "A", writer |-> a1, manifest |-> {"a"}]
AB == [scope |-> "A", writer |-> a1, manifest |-> {"a", "b"}]
B == [scope |-> "B", writer |-> a2, manifest |-> {"b"}]
C == [scope |-> "C", writer |-> a2, manifest |-> {"c"}]
MCDescriptors == [n \in {a1, a2, b1} |->
                    CASE n = a1 -> {A, AB} [] n = a2 -> {B, C} [] n = b1 -> {}]
MCUnfit == [n \in {a1, a2, b1} |-> {}]
MCFilled == [n \in {a1, a2, b1} |->
               CASE n = a1 -> {} [] n = a2 -> {"c"} [] n = b1 -> {"a"}]
MCWorkers == [w \in {"k1", "k2"} |-> [at |-> b1, peer |-> a1, scope |-> "A"]]

VARIABLE part   \* the part that runs

\* Only the receiver may have been fed by the global stream before its scopes.
RoundsInit ==
    /\ part \in Parts
    /\ WorkerInit /\ SelInit
    /\ part # "worker" => opt = CHOOSE o \in Options : TRUE
    /\ ~globalCursor[a1] /\ ~globalCursor[a2]
    /\ part # "scopes" => ~globalCursor[b1]

RoundsNext ==
    /\ UNCHANGED part
    /\ \/ part = "worker" /\ WorkerNext /\ UNCHANGED selVars
       \/ part = "scopes" /\ SelNext /\ UNCHANGED workerVars

\* SelFairness, asked of the scopes only where they run.
ScopesFairness ==
    \A w \in DOMAIN Workers :
        WF_selVars(part = "scopes" /\ (BeginRound(w) \/ PullPage(w) \/ ApplyPage(w)))

\* No fair action of the worker is enabled in an initial state, so it may
\* stutter where it does not run.
RoundsSpec ==
    /\ RoundsInit /\ [][RoundsNext]_<<part, workerVars, selVars>>
    /\ WorkerFairness /\ ScopesFairness

-----------------------------------------------------------------------------
(* Properties                                                              *)

\* Every part is well formed: variables in their types; an idle worker has
\* settled, its counters add up, and it leaves no staged page and no hook
\* behind; request_cancel is called once per peer call; no two scopes share a
\* DBI, and a node takes either the global stream or its scopes.
RoundsWellFormed ==
    /\ WorkerTypeOK /\ SelTypeOK
    /\ SettledWhenIdle /\ StatusAddsUp /\ CancelOncePerCall
    /\ StagingDiscarded /\ HooksOutliveWorker
    /\ ScopesDisjoint /\ StreamsExclusive

=============================================================================
