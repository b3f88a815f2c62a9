-------------------------- MODULE OrderedDelivery --------------------------
(***************************************************************************)
(* Ordered logical delivery from one origin to receivers of one database:  *)
(* the receiver-neutral journal, one outbox route per receiver, dispatch   *)
(* calls that send a pending prefix and persist acknowledgements, and the  *)
(* receiver's contiguous frontier, replay markers and marker pruning.      *)
(*                                                                         *)
(* An envelope is its origin sequence: journal entries are immutable, and  *)
(* its frame is whatever was journalled under that number.  A receiver     *)
(* handles one request in one write transaction.  The network loses        *)
(* requests and answers, and may deliver a request after its sender gave   *)
(* up, more than once.                                                     *)
(***************************************************************************)
EXTENDS Integers, Sequences, FiniteSetsExt

CONSTANTS
    Receivers, Dispatchers,
    Serves,         \* [Dispatchers -> Receivers]: the route a caller dispatches
    Cumulative,     \* receivers that negotiate CumulativeAcknowledgement
    MaxEvents,      \* bound: journal entries
    Direct,         \* BOOLEAN: enqueue_logical_delivery is used
    Prunes,         \* BOOLEAN: receivers prune replay markers
    Rejects         \* BOOLEAN: adapters or schema markers may reject a frame

ASSUME DeliveryAssumption ==
    /\ Serves \in [Dispatchers -> Receivers]
    /\ Cumulative \subseteq Receivers
    /\ MaxEvents \in Nat
    /\ Direct \in BOOLEAN /\ Prunes \in BOOLEAN /\ Rejects \in BOOLEAN

VARIABLES
    journal,    \* known_tail of the journal: entries 1..journal
    route,      \* RouteMetadata of each receiver
    outbox,     \* outbox[r]: sequences pending for r
    last,       \* last[r]: LogicalDeliveryOrderStore frontier of the origin at r
    markers,    \* markers[r]: replay markers at r
    watermark,  \* watermark[r]: pruned-through boundary at r
    log,        \* log[r]: the envelopes r's adapters applied, in order (history)
    disp,       \* disp[w]: a running deliver_pending_logical_deliveries call
    late        \* requests <<r, s>> whose sender no longer waits

orderedVars == <<journal, route, outbox, last, markers, watermark, log, disp, late>>

Events == 1..MaxEvents
Route == [open: BOOLEAN, acked: 0..MaxEvents, tail: 0..MaxEvents]
Ack == [ok: BOOLEAN, through: 0..MaxEvents, retryable: BOOLEAN]
Results == {"none", "ok", "retry", "permanent", "invalid"}
Call == [pc: {"idle", "listed", "acked", "ready", "sent", "answered"},
         pending: SUBSET Events, acked: 0..MaxEvents, tail: 0..MaxEvents,
         cur: 0..MaxEvents, ack: Ack, result: Results]

NoAck == [ok |-> FALSE, through |-> 0, retryable |-> FALSE]
Ended(result) == [pc |-> "idle", pending |-> {}, acked |-> 0, tail |-> 0,
                  cur |-> 0, ack |-> NoAck, result |-> result]

DeliveryInit ==
    /\ journal = 0
    /\ route = [r \in Receivers |-> [open |-> FALSE, acked |-> 0, tail |-> 0]]
    /\ outbox = [r \in Receivers |-> {}]
    /\ last = [r \in Receivers |-> 0]
    /\ markers = [r \in Receivers |-> {}]
    /\ watermark = [r \in Receivers |-> 0]
    /\ log = [r \in Receivers |-> << >>]
    /\ disp = [w \in Dispatchers |-> Ended("none")]
    /\ late = {}

receiverVars == <<last, markers, watermark, log>>

-----------------------------------------------------------------------------
(* Journal and outbox                                                      *)

\* append_logical_journal
AppendJournal ==
    /\ journal < MaxEvents
    /\ journal' = journal + 1
    /\ UNCHANGED <<route, outbox, receiverVars, disp, late>>

\* LogicalOutboxStore::project of the journal entries from..to onto r's route.
Project(r, from, to) ==
    /\ outbox' = [outbox EXCEPT ![r] = @ \cup from..to]
    /\ route' = [route EXCEPT ![r] =
           [open |-> TRUE, tail |-> to,
            acked |-> IF route[r].open THEN route[r].acked ELSE from - 1]]

\* materialize_logical_journal; the limit stops it at any prefix.
\* Mutant: the projection starts one entry late.
FirstUnprojectedLate(r) == route[r].tail + 2
FirstUnprojected(r) == route[r].tail + 1

Materialize(r, to) ==
    /\ FirstUnprojected(r) <= to /\ to <= journal
    /\ Project(r, FirstUnprojected(r), to)
    /\ UNCHANGED <<journal, receiverVars, disp, late>>

\* enqueue_logical_delivery: journal append and projection in one transaction.
\* A new route starts at this event; an old one with a gap refuses it.
Enqueue(r) ==
    /\ Direct
    /\ journal < MaxEvents
    /\ route[r].open => route[r].tail = journal
    /\ journal' = journal + 1
    /\ Project(r, journal + 1, journal + 1)
    /\ UNCHANGED <<receiverVars, disp, late>>

-----------------------------------------------------------------------------
(* Receiver: apply_ordered_logical_delivery_envelope                       *)

OkAck(through) == [ok |-> TRUE, through |-> through, retryable |-> FALSE]
FailedAck(through, retryable) ==
    [ok |-> FALSE, through |-> through, retryable |-> retryable]

\* A sequence that is not the next one.
Gap(r, s) == s # last[r] + 1

\* The acknowledgement of an exact replay.  Mutant: a replay acknowledges the
\* delivery after the frontier.
ReplayThroughNext(r, s) == Min({last[r] + 1, MaxEvents})
ReplayThrough(r, s) == IF r \in Cumulative THEN last[r] ELSE s

\* What r may answer to sequence s.
Answers(r, s) ==
    IF s <= last[r]
    THEN IF s \in markers[r] THEN {OkAck(ReplayThrough(r, s))}
                             ELSE {FailedAck(last[r], FALSE)}
    ELSE IF Gap(r, s) THEN {FailedAck(last[r], TRUE)}
    ELSE IF s <= watermark[r] THEN {FailedAck(last[r], FALSE)}
    ELSE {OkAck(s)}
         \cup {FailedAck(last[r], b) : b \in IF Rejects THEN BOOLEAN ELSE {}}

\* Mutant: an exact replay is applied again.
ReceiveAgain(r, s, a) ==
    /\ a \in Answers(r, s)
    /\ IF a.ok
       THEN /\ last' = [last EXCEPT ![r] = s]
            /\ markers' = [markers EXCEPT ![r] = @ \cup {s}]
            /\ log' = [log EXCEPT ![r] = Append(@, s)]
       ELSE UNCHANGED <<last, markers, log>>
    /\ UNCHANGED watermark

\* The transaction commits only when the envelope is applied.
Receive(r, s, a) ==
    /\ a \in Answers(r, s)
    /\ IF a.ok /\ s > last[r]
       THEN /\ last' = [last EXCEPT ![r] = s]
            /\ markers' = [markers EXCEPT ![r] = @ \cup {s}]
            /\ log' = [log EXCEPT ![r] = Append(@, s)]
       ELSE UNCHANGED <<last, markers, log>>
    /\ UNCHANGED watermark

\* A request whose sender has given up arrives; copies of it may still follow.
ReceiveLate(r, s) ==
    /\ <<r, s>> \in late
    /\ \E a \in Answers(r, s) : Receive(r, s, a)
    /\ late' \in {late, late \ {<<r, s>>}}
    /\ UNCHANGED <<journal, route, outbox, disp>>

LoseLate(r, s) ==
    /\ <<r, s>> \in late
    /\ late' = late \ {<<r, s>>}
    /\ UNCHANGED <<journal, route, outbox, receiverVars, disp>>

\* No request the origin may still have pending or on its way is below the
\* frontier: the caller's obligation of prune_ordered_logical_delivery_markers.
RetryEnded(r) ==
    /\ outbox[r] \cap 1..last[r] = {}
    /\ \A s \in 1..last[r] : <<r, s>> \notin late
    /\ \A w \in Dispatchers : Serves[w] = r => disp[w].pc = "idle"

\* The boundary it prunes to.
PruneFrontier(r) == last[r]

\* prune_ordered_logical_delivery_markers
Prune(r) ==
    /\ Prunes
    /\ RetryEnded(r)
    /\ last[r] # 0
    /\ watermark' = [watermark EXCEPT ![r] = PruneFrontier(r)]
    /\ markers' = [markers EXCEPT ![r] = {s \in @ : s > PruneFrontier(r)}]
    /\ UNCHANGED <<journal, route, outbox, last, log, disp, late>>

-----------------------------------------------------------------------------
(* Sender: deliver_pending_logical_deliveries, one transaction per step    *)

\* pending_logical_deliveries, all of the suffix or its first entry.
ListPending(w) ==
    LET pending == outbox[Serves[w]] IN
    /\ disp[w].pc = "idle"
    /\ pending # {}
    /\ \E p \in {pending, {Min(pending)}} :
          disp' = [disp EXCEPT ![w] = [Ended("none") EXCEPT
                                          !.pc = "listed", !.pending = p]]
    /\ UNCHANGED <<journal, route, outbox, receiverVars, late>>

\* logical_delivery_acknowledged_through
ReadAcknowledged(w) ==
    /\ disp[w].pc = "listed"
    /\ disp' = [disp EXCEPT ![w].pc = "acked",
                            ![w].acked = route[Serves[w]].acked]
    /\ UNCHANGED <<journal, route, outbox, receiverVars, late>>

\* logical_delivery_known_tail, once for the whole call
ReadKnownTail(w) ==
    /\ disp[w].pc = "acked"
    /\ disp' = [disp EXCEPT ![w].pc = "ready",
                            ![w].tail = route[Serves[w]].tail]
    /\ UNCHANGED <<journal, route, outbox, receiverVars, late>>

Unsent(w) == {s \in disp[w].pending : s > disp[w].acked /\ s > disp[w].cur}

Send(w) ==
    /\ disp[w].pc = "ready"
    /\ Unsent(w) # {}
    /\ disp' = [disp EXCEPT ![w].pc = "sent", ![w].cur = Min(Unsent(w))]
    /\ UNCHANGED <<journal, route, outbox, receiverVars, late>>

Finish(w) ==
    /\ disp[w].pc = "ready"
    /\ Unsent(w) = {}
    /\ disp' = [disp EXCEPT ![w] = Ended("ok")]
    /\ UNCHANGED <<journal, route, outbox, receiverVars, late>>

\* The receiver handles the request and its answer is on the way back.
Answer(w, a) ==
    /\ disp[w].pc = "sent"
    /\ Receive(Serves[w], disp[w].cur, a)
    /\ disp' = [disp EXCEPT ![w].pc = "answered", ![w].ack = a]
    /\ UNCHANGED <<journal, route, outbox, late>>

\* The call ends early: cancelled, an answer or a request lost, a restart.
Abandon(w) ==
    /\ disp[w].pc # "idle"
    /\ disp' = [disp EXCEPT ![w] = Ended("retry")]
    /\ late' = IF disp[w].pc = "sent"
               THEN late \cup {<<Serves[w], disp[w].cur>>} ELSE late
    /\ UNCHANGED <<journal, route, outbox, receiverVars>>

\* validate_logical_delivery_acknowledgement_for_sender
ValidAck(w) ==
    LET d == disp[w] IN
    /\ d.ack.through <= d.tail
    /\ IF d.ack.ok
       THEN /\ d.ack.through >= d.cur
            /\ Serves[w] \in Cumulative \/ d.ack.through = d.cur
       ELSE d.ack.through < d.cur

RejectAck(w) ==
    /\ disp[w].pc = "answered"
    /\ ~ValidAck(w)
    /\ disp' = [disp EXCEPT ![w] = Ended("invalid")]
    /\ UNCHANGED <<journal, route, outbox, receiverVars, late>>

\* LogicalOutboxStore::acknowledge_through.  Mutant: acked moves, entries stay.
AcknowledgedLeft(r, through) == outbox[r]
Acknowledged(r, through) == {s \in outbox[r] : s > through}

Acknowledge(r, through) ==
    /\ outbox' = [outbox EXCEPT ![r] = Acknowledged(r, through)]
    /\ route' = [route EXCEPT ![r].acked = through]

\* Another call persisted a higher acknowledgement: the store throws.
AckMovedBackwards(w) ==
    /\ disp[w].pc = "answered"
    /\ ValidAck(w)
    /\ disp[w].ack.through > disp[w].acked
    /\ disp[w].ack.through < route[Serves[w]].acked
    /\ disp' = [disp EXCEPT ![w] = Ended("retry")]
    /\ UNCHANGED <<journal, route, outbox, receiverVars, late>>

AcceptAck(w) ==
    LET d == disp[w]
        r == Serves[w]
    IN
    /\ d.pc = "answered"
    /\ ValidAck(w)
    /\ IF d.ack.through > d.acked
       THEN d.ack.through >= route[r].acked /\ Acknowledge(r, d.ack.through)
       ELSE UNCHANGED <<route, outbox>>
    /\ disp' = [disp EXCEPT ![w] =
           IF d.ack.ok
           THEN [d EXCEPT !.pc = "ready", !.acked = Max({@, d.ack.through}),
                          !.ack = NoAck]
           ELSE Ended(IF d.ack.retryable THEN "retry" ELSE "permanent")]
    /\ UNCHANGED <<journal, receiverVars, late>>

-----------------------------------------------------------------------------
DeliveryNext ==
    \/ AppendJournal
    \/ \E r \in Receivers :
         \/ \E to \in Events : Materialize(r, to)
         \/ Enqueue(r)
         \/ \E s \in Events : ReceiveLate(r, s) \/ LoseLate(r, s)
         \/ Prune(r)
    \/ \E w \in Dispatchers :
         \/ ListPending(w) \/ ReadAcknowledged(w) \/ ReadKnownTail(w)
         \/ Send(w) \/ Finish(w) \/ Abandon(w)
         \/ \E a \in Ack : Answer(w, a)
         \/ RejectAck(w) \/ AckMovedBackwards(w) \/ AcceptAck(w)

DeliverySpec == DeliveryInit /\ [][DeliveryNext]_orderedVars

\* Routes are materialised, a worker dispatches round after round, and a
\* request that is sent again and again is handled, applied and answered.
DeliveryFairness ==
    /\ \A r \in Receivers : WF_orderedVars(Materialize(r, journal))
    /\ \A w \in Dispatchers :
         /\ SF_orderedVars(ListPending(w))
         /\ SF_orderedVars(ReadAcknowledged(w))
         /\ SF_orderedVars(ReadKnownTail(w))
         /\ SF_orderedVars(Send(w)) /\ SF_orderedVars(Finish(w))
         /\ SF_orderedVars(\E a \in Ack : Answer(w, a) /\ a.ok)
         /\ SF_orderedVars(AcceptAck(w))

DeliveryFairSpec == DeliverySpec /\ DeliveryFairness

-----------------------------------------------------------------------------
(* Properties                                                              *)

\* Every variable stays in its type.
DeliveryTypeOK ==
    /\ journal \in 0..MaxEvents
    /\ route \in [Receivers -> Route]
    /\ outbox \in [Receivers -> SUBSET Events]
    /\ last \in [Receivers -> 0..MaxEvents]
    /\ markers \in [Receivers -> SUBSET Events]
    /\ watermark \in [Receivers -> 0..MaxEvents]
    /\ log \in [Receivers -> Seq(Events)]
    /\ disp \in [Dispatchers -> Call]
    /\ late \subseteq Receivers \X Events

\* apply_ordered_logical_delivery_envelope: whatever is lost, repeated or late,
\* each receiver's adapters see every envelope once, in journal order.
AppliedOnceInOrder == \A r \in Receivers : log[r] = [i \in 1..last[r] |-> i]

\* LogicalOutboxStore: a route's entries are exactly its sequences after the
\* acknowledged one up to its known tail, within the journal.
OutboxIsWindow ==
    \A r \in Receivers :
        /\ route[r].acked <= route[r].tail /\ route[r].tail <= journal
        /\ outbox[r] = (route[r].acked + 1)..route[r].tail

\* An envelope leaves the outbox only after its receiver has applied it.
RemovedOnlyIfApplied ==
    [][\A r \in Receivers : outbox[r] \ outbox'[r] \subseteq 1..last[r]]_orderedVars

\* SyncEngine.hpp:1413: a cumulative acknowledgement "can advance through the
\* sender's persisted known tail"; an honest answer is never refused.
AcknowledgementAccepted == \A w \in Dispatchers : disp[w].result # "invalid"

\* Whatever is journalled is applied by every receiver that is dispatched to.
Delivered ==
    \A w \in Dispatchers, s \in Events :
        journal >= s ~> last[Serves[w]] >= s
=============================================================================
