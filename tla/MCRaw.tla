------------------------------- MODULE MCRaw -------------------------------
(***************************************************************************)
(* Raw replication for TLC, one part at a time: a writer's log pulled and  *)
(* pushed, pruned and snapshotted between two nodes, the paging of a       *)
(* complete snapshot, and the limits of the transport.  A third node hears *)
(* of n1 directly and through n2 in the part "hub" and is left out of the  *)
(* part "pair".                                                            *)
(***************************************************************************)
EXTENDS RawReplication, FullSnapshot, SyncTransport

CONSTANTS Parts, n1, n2, n3, k1, k2, v1, i1, i2, i3

MCNodes == {n1, n2, n3}
MCRank == [n \in MCNodes |-> CASE n = n1 -> 1 [] n = n2 -> 2 [] n = n3 -> 3]

\* An insert, and a move to the other key: what a gap or a repeated batch
\* would show.
Insert == k1 :> v1
Move == (k1 :> Absent) @@ (k2 :> v1)
MCBatches == {Insert, Move}
OneBatch == {Insert}

OneWay == {<<n2, n1>>}
BothWays == {<<n2, n1>>, <<n1, n2>>}
Triangle == {<<n2, n1>>, <<n3, n1>>, <<n3, n2>>}

Hub == INSTANCE RawReplication
       WITH Writers <- {n1}, Hubs <- {n2}, Peers <- Triangle,
            Snapshots <- FALSE, Retention <- FALSE

\* The hub's writer moves and then inserts: an order in which a batch skipped,
\* repeated or exchanged with the other shows.
MoveFirst == batch[n1][1] # Insert /\ batch[n1][2] # Move

-----------------------------------------------------------------------------
(* Two handlers at the source of a snapshot.  The plain start (a source    *)
(* with two DBIs, a fresh receiver) meets MaxUpsets disturbances in every  *)
(* order; every other start (a source or a receiver some check refuses,    *)
(* tight limits) runs undisturbed.                                         *)

MCDbis == <<"a", "b">>
Complete == [scope |-> "complete", manifest |-> {}, capacity |-> 1, budget |-> 9]
Listed == [scope |-> "manifest", manifest |-> {"a"}, capacity |-> 2, budget |-> 9]
Tight == [Complete EXCEPT !.budget = 4]
Missing == [Listed EXCEPT !.manifest = {"a", "c"}]
Off == [Complete EXCEPT !.scope = "none"]
MCExports == {Complete, Listed, Tight, Missing, Off}

Src(rows, logical) == [data |-> rows, tail |-> 1, logical |-> logical, versioned |-> {}]
Two == ("a" :> {1, 2}) @@ ("b" :> {1})
MCSources == {Src(Two, 0), Src(Two, 1), Src(<< >>, 0), Src("a" :> {}, 2),
              [Src(Two, 0) EXCEPT !.versioned = {"b"}],
              Src(("a" :> {1, 2, 3}) @@ ("b" :> {1, 2}), 0)}

FreshTarget == [data |-> << >>, applied |-> 0, base |-> 0, mode |-> "none", local |-> 0,
          identity |-> "distinct", versioned |-> {}, otherFlags |-> {}, adapters |-> TRUE]
MCTargets == {FreshTarget,
    [FreshTarget EXCEPT !.applied = 1, !.mode = "full"], [FreshTarget EXCEPT !.local = 1],
    [FreshTarget EXCEPT !.identity = "same"], [FreshTarget EXCEPT !.identity = "in_tail"],
    [FreshTarget EXCEPT !.mode = "selective"], [FreshTarget EXCEPT !.base = 1],
    [FreshTarget EXCEPT !.adapters = FALSE],
    [FreshTarget EXCEPT !.data = "b" :> {}, !.otherFlags = {"b"}],
    [FreshTarget EXCEPT !.data = "b" :> {Own}], [FreshTarget EXCEPT !.versioned = {"b"}]}
MCCommits == {<<"a", 1, TRUE>>, <<"b", 2, FALSE>>}

Plain == /\ source = Src(Two, 0) /\ target = FreshTarget /\ export \in {Complete, Listed}
         /\ upsets = 0
Calm == upsets = MaxUpsets
Small == /\ export \in {Complete, Listed, Off}
         /\ \A h \in Handlers : calls[h].pc # "idle" => calls[h].room # 0

-----------------------------------------------------------------------------
(* Three identities, one of them unknown, and a frame that does not parse. *)

Request(op, who, kind) == [op |-> op, who |-> who, frame |-> kind]
MCRequests == {Request("push", i1, "good"), Request("push", i2, "good"),
               Request("push", i3, "good"), Request("delivery", i1, "good"),
               Request("delivery", i1, "malformed")}

-----------------------------------------------------------------------------
VARIABLE part   \* the part that runs

RawInit ==
    /\ part \in Parts
    /\ Init /\ SnapInit /\ TransportInit
    /\ IF part = "snapshot" THEN Plain \/ Calm ELSE Plain /\ export = Complete /\ ~persist

RawNext ==
    /\ UNCHANGED part
    /\ \/ /\ part = "pair" /\ Next /\ mode'[n3] = "none"
          /\ UNCHANGED <<snapVars, transportVars>>
       \/ /\ part = "hub" /\ Hub!Next /\ MoveFirst'
          /\ UNCHANGED <<snapVars, transportVars>>
       \/ /\ part = "snapshot" /\ SnapNext /\ (Calm \/ Small')
          /\ UNCHANGED <<vars, transportVars>>
       \/ /\ part = "transport" /\ TransportNext
          /\ UNCHANGED <<vars, snapVars>>

RawSpec == RawInit /\ [][RawNext]_<<part, vars, snapVars, transportVars>>

\* For the part "pair" alone.
CatchUpSpec == RawSpec /\ Fairness

-----------------------------------------------------------------------------
(* Properties                                                              *)

\* Every part is well formed: variables in their types; a snapshot source holds
\* no more sessions than its capacity and the limiter no more buckets than
\* max_buckets; the staged import can be rebuilt from its rows on disk, and the
\* page a receiver waits for continues it.
RawWellFormed ==
    /\ TypeOK /\ SnapTypeOK /\ TransportTypeOK
    /\ SessionsBounded /\ BucketsCapped
    /\ DiskRebuildsImport /\ PageContinues

\* What the middleware owes its callers: the rate limit holds across evicted
\* buckets and rolling windows, every call is counted once by every layer it
\* passed, and a refused caller learns whether a retry can help.
TransportSound == AdmissionsBounded /\ CallsAccounted /\ HintsMatchCauses
=============================================================================
