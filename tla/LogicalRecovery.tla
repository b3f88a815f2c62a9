-------------------------- MODULE LogicalRecovery --------------------------
(***************************************************************************)
(* Logical-aware recovery of a fresh receiver, next to ordered delivery: a *)
(* baseline is captured in the read transaction of a snapshot session, at  *)
(* the origin or at another receiver, travels with the pages, and is       *)
(* imported in the transaction that installs the user data.  The transfer  *)
(* of the pages is FullSnapshot; here it is one captured value.            *)
(***************************************************************************)
EXTENDS OrderedDelivery, SequencesExt

CONSTANTS
    Origin,     \* the node whose journal this is; not a receiver
    Projects    \* BOOLEAN: the origin materialises its journal for a receiver
                \* before it captures a baseline for it

ASSUME RecoveryAssumption == Origin \notin Receivers /\ Projects \in BOOLEAN

VARIABLES
    baseline,   \* baseline[r]: the LogicalRecoveryBaseline on its way to r
    base        \* base[r]: events whose effects r's imported user data holds

recoveryVars == <<orderedVars, baseline, base>>

NoBaseline == [from |-> "none"]

RecoveryInit ==
    /\ DeliveryInit
    /\ baseline = [r \in Receivers |-> NoBaseline]
    /\ base = [r \in Receivers |-> {}]

\* What node x's user data holds: a journal entry commits with its mutation.
EventsIn(x) == IF x = Origin THEN 1..journal ELSE base[x] \cup ToSet(log[x])

\* collect_logical_recovery_baseline of node x for requester r: x's replay
\* markers, watermark and frontier, and x's own outbox route for r.
CollectBaseline(x, r) ==
    [from |-> x, data |-> EventsIn(x),
     markers |-> IF x = Origin THEN {} ELSE markers[x],
     watermark |-> IF x = Origin THEN 0 ELSE watermark[x],
     frontier |-> IF x = Origin THEN 0 ELSE last[x],
     pending |-> IF x = Origin THEN outbox[r] ELSE {},
     tail |-> IF x = Origin THEN route[r].tail ELSE 0]

CaptureBaseline(x, r) ==
    /\ x # r /\ baseline[r] = NoBaseline
    /\ (Projects /\ x = Origin) => route[r].tail = journal
    /\ baseline' = [baseline EXCEPT ![r] = CollectBaseline(x, r)]
    /\ UNCHANGED <<orderedVars, base>>

\* require_fresh_logical_recovery_target
FreshTarget(r) ==
    /\ last[r] = 0 /\ markers[r] = {} /\ watermark[r] = 0
    /\ base[r] = {} /\ log[r] = << >>

\* validate_logical_recovery_baseline: the pending suffix is contiguous and
\* ends at the known tail.
ValidBaseline(b) == b.pending # {} => b.pending = Min(b.pending)..b.tail

\* The frontier restored for the journal's origin.  Mutant: the tail of the
\* origin's own outbox is left out.
RestoredFrontierOrder(b) == b.frontier
RestoredFrontier(b) == IF b.from = Origin THEN b.tail ELSE b.frontier

\* apply_logical_recovery_baseline, in the transaction of the final page.
\* Envelopes still pending at the origin become replay markers.
ImportBaseline(r) ==
    LET b == baseline[r] IN
    /\ b # NoBaseline
    /\ baseline' = [baseline EXCEPT ![r] = NoBaseline]
    /\ IF FreshTarget(r) /\ ValidBaseline(b)
       THEN /\ base' = [base EXCEPT ![r] = b.data]
            /\ markers' = [markers EXCEPT ![r] = b.markers \cup b.pending]
            /\ watermark' = [watermark EXCEPT ![r] = b.watermark]
            /\ last' = [last EXCEPT ![r] = RestoredFrontier(b)]
       ELSE UNCHANGED <<base, markers, watermark, last>>
    /\ UNCHANGED <<journal, route, outbox, log, disp, late>>

\* The session, or a staged page of it, is lost.
LoseBaseline(r) ==
    /\ baseline[r] # NoBaseline
    /\ baseline' = [baseline EXCEPT ![r] = NoBaseline]
    /\ UNCHANGED <<orderedVars, base>>

RecoveryNext ==
    \/ DeliveryNext /\ UNCHANGED <<baseline, base>>
    \/ \E r \in Receivers :
         \/ \E x \in Receivers \cup {Origin} : CaptureBaseline(x, r)
         \/ ImportBaseline(r) \/ LoseBaseline(r)

RecoverySpec == RecoveryInit /\ [][RecoveryNext]_recoveryVars

-----------------------------------------------------------------------------
\* apply_logical_recovery_baseline: an event whose effect a receiver's
\* recovered user data already holds is not applied to it again, whatever is
\* pending, redelivered or materialised for it afterwards, and no event is
\* applied twice.
RecoveredOnce ==
    \A r \in Receivers :
        /\ ToSet(log[r]) \cap base[r] = {}
        /\ \A i, j \in DOMAIN log[r] : log[r][i] = log[r][j] => i = j

\* The ordered frontier a receiver reports says exactly which events its user
\* data holds, each of them once and applied in journal order, after a recovery
\* from the origin or from another receiver and however delivery continues.
FrontierIsData ==
    /\ RecoveredOnce
    /\ \A r \in Receivers :
         /\ base[r] \cup ToSet(log[r]) = 1..last[r]
         /\ \A i \in 2..Len(log[r]) : log[r][i - 1] < log[r][i]
=============================================================================
