---------------------------- MODULE MCConnection ----------------------------
(* The observers of one Connection, its transactions and shutdown, and the *)
(* exchanges of a WebSocket channel, for TLC, one at a time.               *)
EXTENDS SyncApplyObservers, ConnectionLifecycle, WebSocketChannel

CONSTANTS Parts, t1, t2, r1, w1, w2

\* Thread t1 owns a read guard and a write guard.
MCTxnThreads == {t1, t2}
MCGuards == {r1, w1, w2}
MCOwner == [g \in MCGuards |-> IF g = w2 THEN t2 ELSE t1]
MCWritable == {w1, w2}
MCUses == SUBSET {"pulls", "restarts"}
OnlyPulls == {{"pulls"}}

VARIABLE part   \* the part that runs

ConnectionInit ==
    /\ part \in Parts
    /\ ObserversInit /\ LifecycleInit /\ ChannelInit
    /\ part # "lifecycle" => use = CHOOSE u \in Uses : TRUE

ConnectionNext ==
    /\ UNCHANGED part
    /\ \/ part = "observers" /\ ObserversNext /\ UNCHANGED <<lifecycleVars, channelVars>>
       \/ part = "lifecycle" /\ LifecycleNext /\ UNCHANGED <<observerVars, channelVars>>
       \/ part = "channel" /\ ChannelNext /\ UNCHANGED <<observerVars, lifecycleVars>>

\* No fair action is enabled in an initial state, so a part that does not run
\* may stutter.
ConnectionSpec ==
    /\ ConnectionInit
    /\ [][ConnectionNext]_<<part, observerVars, lifecycleVars, channelVars>>
    /\ ObserversFairness /\ LifecycleFairness /\ ChannelFairness

-----------------------------------------------------------------------------
(* Properties                                                              *)

\* Every part is well formed: variables in their types; in_flight and
\* m_open_txn_handles count what they stand for; no thread is bound to a
\* transaction that has ended; no deadline or listener thread is left behind.
ConnectionWellFormed ==
    /\ ObserversTypeOK /\ LifecycleTypeOK /\ ChannelTypeOK
    /\ InFlightExact /\ HandlesCounted /\ NoDanglingBinding
    /\ DeadlineJoined /\ ListenerJoined
=============================================================================
