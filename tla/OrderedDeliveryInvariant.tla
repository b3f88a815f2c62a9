---------------------- MODULE OrderedDeliveryInvariant ----------------------
(***************************************************************************)
(* Ordered delivery for every number of receivers, dispatchers and events: *)
(* envelopes are applied once and in order, a route's outbox is a window   *)
(* of the journal, entries leave it only after they were applied, and a    *)
(* route with one dispatch call at a time refuses no honest answer.        *)
(***************************************************************************)
EXTENDS OrderedDelivery, TLAPS, WellFoundedInduction

-----------------------------------------------------------------------------
(* The inductive invariant                                                 *)

Active == {"ready", "sent", "answered"}

\* A route nobody opened has no metadata, a receiver's replay markers are its
\* deliveries since the last pruning, and its frontier is within the route.
RoutesOK ==
    \A r \in Receivers :
        /\ ~route[r].open => route[r].tail = 0 /\ route[r].acked = 0
        /\ watermark[r] <= last[r] /\ last[r] <= route[r].tail
        /\ markers[r] = (watermark[r] + 1)..last[r]
        /\ \A s \in outbox[r] : s > watermark[r]

\* Whatever a dispatch call holds was read from a route that has only grown
\* since, and an answer acknowledges nothing its receiver has not applied.
CallOK(d, r) ==
    /\ d.pc # "idle" =>
         \A s \in d.pending : watermark[r] < s /\ s <= route[r].tail
    /\ d.pc \in Active => d.tail <= route[r].tail
    /\ d.pc \in {"sent", "answered"} => d.cur \in d.pending
    /\ d.pc = "answered" => d.ack.through <= last[r]

CallsOK == \A w \in Dispatchers : CallOK(disp[w], Serves[w])

\* A request nobody waits for any more has not been pruned at its receiver.
LateOK == \A r \in Receivers, s \in Events :
              <<r, s>> \in late => watermark[r] < s /\ s <= route[r].tail

DeliveryInv ==
    /\ DeliveryTypeOK
    /\ AppliedOnceInOrder
    /\ OutboxIsWindow
    /\ RoutesOK
    /\ CallsOK
    /\ LateOK

\* With one dispatch call at a time, nothing its receiver has applied or may
\* still receive from an earlier call lies beyond the tail the call has read.
OwnTail(d, r) ==
    /\ d.pc \in Active =>
         /\ last[r] <= d.tail
         /\ \A s \in d.pending : s <= d.tail
         /\ \A s \in Events : <<r, s>> \in late => s <= d.tail
    /\ d.pc = "answered" =>
         IF d.ack.ok
         THEN /\ d.ack.through >= d.cur
              /\ r \in Cumulative \/ d.ack.through = d.cur
         ELSE d.ack.through < d.cur
    /\ d.result # "invalid"

ExclusiveInv == \A w \in Dispatchers : OwnTail(disp[w], Serves[w])

-----------------------------------------------------------------------------
(* Lemmas                                                                  *)

\* Min, which picks the next envelope to send, is an element of its set.
LEMMA MinMember ==
    ASSUME NEW S \in SUBSET Nat, S # {}
    PROVE  Min(S) \in S
<1>1. IsWellFoundedOn(OpToRel(<, Nat), Nat)
  BY NatLessThanWellFounded, Zenon
<1>2. PICK x \in S : \A y \in S : ~(<<y, x>> \in OpToRel(<, Nat))
  BY <1>1, WFMin, Zenon
<1>3. \A y \in S : ~(y < x)
  BY <1>2, Zenon DEF OpToRel
<1>4. \A y \in S : x <= y
  BY <1>3
<1> QED
  BY <1>2, <1>4, Zenon DEF Min

\* apply_ordered_logical_delivery_envelope, for a delivery that has not been
\* pruned: the frontier moves by one or not at all, and the answer is honest.
LEMMA Received ==
    ASSUME DeliveryInv, NEW r \in Receivers, NEW s \in Events, NEW a,
           Receive(r, s, a), watermark[r] < s, s <= route[r].tail
    PROVE  /\ last' \in [Receivers -> 0..MaxEvents]
           /\ markers' \in [Receivers -> SUBSET Events]
           /\ log' \in [Receivers -> Seq(Events)]
           /\ watermark' = watermark
           /\ AppliedOnceInOrder'
           /\ \A q \in Receivers :
                /\ last[q] <= last'[q] /\ last'[q] <= route[q].tail
                /\ markers'[q] = (watermark[q] + 1)..last'[q]
                /\ q # r => last'[q] = last[q]
           /\ last'[r] <= s \/ last'[r] = last[r]
           /\ a.through <= last'[r]
           /\ a.ok => a.through >= s /\ (r \in Cumulative \/ a.through = s)
           /\ ~a.ok => a.through < s
<1> USE DeliveryAssumption
<1>1. /\ MaxEvents \in Nat /\ s \in 1..MaxEvents
      /\ last \in [Receivers -> 0..MaxEvents]
      /\ markers \in [Receivers -> SUBSET (1..MaxEvents)]
      /\ watermark \in [Receivers -> 0..MaxEvents]
      /\ log \in [Receivers -> Seq(1..MaxEvents)]
      /\ route \in [Receivers -> Route]
  BY DEF DeliveryInv, DeliveryTypeOK, Events
<1>2. \A q \in Receivers : /\ watermark[q] <= last[q] /\ last[q] <= route[q].tail
                           /\ markers[q] = (watermark[q] + 1)..last[q]
  BY DEF DeliveryInv, RoutesOK
<1>3. \A q \in Receivers : log[q] = [i \in 1..last[q] |-> i]
  BY DEF DeliveryInv, AppliedOnceInOrder
<1>4. watermark' = watermark BY DEF Receive
<1>5. a \in Answers(r, s) BY DEF Receive
<1>6. CASE s <= last[r]
  <2>1. s \in markers[r] BY <1>1, <1>2, <1>6
  <2>2. a = OkAck(ReplayThrough(r, s)) BY <1>5, <1>6, <2>1 DEF Answers
  <2>3. a.ok /\ a.through = ReplayThrough(r, s) BY <2>2 DEF OkAck
  <2>4. UNCHANGED <<last, markers, log>> BY <1>1, <1>6 DEF Receive
  <2>5. /\ a.through <= last[r] /\ a.through >= s
        /\ r \in Cumulative \/ a.through = s
    BY <1>1, <1>6, <2>3 DEF ReplayThrough
  <2>6. AppliedOnceInOrder' BY <1>3, <2>4 DEF AppliedOnceInOrder
  <2> QED BY <1>1, <1>2, <1>4, <2>3, <2>4, <2>5, <2>6 DEF Events
<1>7. CASE s > last[r] /\ ~a.ok
  <2>1. a.through = last[r]
    BY <1>1, <1>5, <1>7 DEF Answers, OkAck, FailedAck
  <2>2. UNCHANGED <<last, markers, log>> BY <1>7 DEF Receive
  <2>3. AppliedOnceInOrder' BY <1>3, <2>2 DEF AppliedOnceInOrder
  <2> QED BY <1>1, <1>2, <1>4, <1>7, <2>1, <2>2, <2>3 DEF Events
<1>8. CASE s > last[r] /\ a.ok
  <2>1. s = last[r] + 1 /\ a.through = s
    BY <1>1, <1>5, <1>8 DEF Answers, OkAck, FailedAck, Gap
  <2>2. /\ last' = [last EXCEPT ![r] = s]
        /\ markers' = [markers EXCEPT ![r] = @ \cup {s}]
        /\ log' = [log EXCEPT ![r] = Append(@, s)]
    BY <1>8 DEF Receive
  <2>3. /\ last' \in [Receivers -> 0..MaxEvents]
        /\ markers' \in [Receivers -> SUBSET Events]
        /\ log' \in [Receivers -> Seq(Events)]
    BY <1>1, <2>2 DEF Events
  <2>4. \A q \in Receivers :
           /\ last[q] <= last'[q] /\ last'[q] <= route[q].tail
           /\ q # r => last'[q] = last[q] /\ markers'[q] = markers[q] /\ log'[q] = log[q]
    <3> TAKE q \in Receivers
    <3>1. CASE q = r BY <3>1, <1>1, <2>1, <2>2
    <3>2. CASE q # r BY <3>2, <1>1, <1>2, <2>2
    <3> QED BY <3>1, <3>2
  <2>5. markers'[r] = (watermark[r] + 1)..last'[r] /\ last'[r] = s
    BY <1>1, <1>2, <2>1, <2>2
  <2>6. log'[r] = [i \in 1..s |-> i]
    <3>1. log[r] = [i \in 1..last[r] |-> i] /\ log'[r] = Append(log[r], s)
      BY <1>1, <1>3, <2>2
    <3> QED BY <3>1, <2>1, <1>1
  <2>7. AppliedOnceInOrder'
    BY Zenon, <1>3, <2>4, <2>5, <2>6 DEF AppliedOnceInOrder
  <2> QED BY <1>1, <1>2, <1>4, <1>8, <2>1, <2>3, <2>4, <2>5, <2>7
<1> QED BY <1>1, <1>6, <1>7, <1>8

\* A step of one dispatch call that leaves everything else alone.
LEMMA CallSteps ==
    ASSUME DeliveryInv, NEW w \in Dispatchers, NEW d \in Call,
           CallOK(d, Serves[w]), disp' = [disp EXCEPT ![w] = d],
           UNCHANGED <<journal, route, outbox, receiverVars, late>>
    PROVE  DeliveryInv'
<1>1. /\ journal' = journal /\ route' = route /\ outbox' = outbox
      /\ last' = last /\ markers' = markers /\ watermark' = watermark
      /\ log' = log /\ late' = late
  BY DEF receiverVars
<1>2. disp \in [Dispatchers -> Call] BY DEF DeliveryInv, DeliveryTypeOK
<1>3. DeliveryTypeOK' BY <1>1, <1>2 DEF DeliveryInv, DeliveryTypeOK
<1>4. CallsOK'
  <2> SUFFICES ASSUME NEW v \in Dispatchers PROVE CallOK(disp[v], Serves[v])'
    BY DEF CallsOK
  <2>1. CallOK(disp[v], Serves[v])' \equiv CallOK(disp'[v], Serves[v])
    BY <1>1 DEF CallOK
  <2>2. CASE v = w BY <2>1, <2>2, <1>2
  <2>3. CASE v # w BY <2>1, <2>3, <1>2 DEF DeliveryInv, CallsOK
  <2> QED BY <2>2, <2>3
<1>5. AppliedOnceInOrder' /\ OutboxIsWindow' /\ RoutesOK' /\ LateOK'
  BY <1>1 DEF DeliveryInv, AppliedOnceInOrder, OutboxIsWindow, RoutesOK, LateOK
<1> QED BY <1>3, <1>4, <1>5 DEF DeliveryInv

\* A call that has ended holds nothing.
LEMMA EndedOK ==
    ASSUME NEW result \in Results, NEW r \in Receivers
    PROVE  Ended(result) \in Call /\ CallOK(Ended(result), r)
BY DeliveryAssumption DEF Ended, Call, CallOK, Active, NoAck, Ack, Events

\* The steps of deliver_pending_logical_deliveries before and between its
\* requests.
LEMMA ReadingKeeps ==
    ASSUME DeliveryInv, NEW w \in Dispatchers,
           \/ ListPending(w) \/ ReadAcknowledged(w) \/ ReadKnownTail(w)
           \/ Send(w) \/ Finish(w) \/ RejectAck(w) \/ AckMovedBackwards(w)
    PROVE  DeliveryInv'
<1> DEFINE r == Serves[w]
           c == disp[w]
<1>0. r \in Receivers /\ MaxEvents \in Nat BY DeliveryAssumption
<1>1. /\ c \in Call /\ disp \in [Dispatchers -> Call]
      /\ route[r] \in Route /\ outbox[r] \in SUBSET Events
      /\ CallOK(c, r)
  BY <1>0 DEF DeliveryInv, DeliveryTypeOK, CallsOK
<1>2. /\ \A s \in outbox[r] : watermark[r] < s /\ s <= route[r].tail
  BY <1>0, <1>1 DEF DeliveryInv, RoutesOK, OutboxIsWindow, Route, Events
<1>3. CASE ListPending(w)
  <2>1. PICK p \in {outbox[r], {Min(outbox[r])}} :
           disp' = [disp EXCEPT ![w] = [Ended("none") EXCEPT
                                           !.pc = "listed", !.pending = p]]
    BY Zenon, <1>3 DEF ListPending
  <2>2. p \subseteq outbox[r]
    <3>1. outbox[r] # {} /\ outbox[r] \in SUBSET Nat
      BY <1>0, <1>1, <1>3 DEF ListPending, Events
    <3>2. Min(outbox[r]) \in outbox[r] BY <3>1, MinMember
    <3> QED BY <3>2
  <2> DEFINE d == [Ended("none") EXCEPT !.pc = "listed", !.pending = p]
  <2>3. d \in Call /\ d.pc = "listed" /\ d.pending = p
    <3>1. PICK e \in Call : e = Ended("none")
      BY <1>0, EndedOK DEF Results
    <3>2. d = [e EXCEPT !.pc = "listed", !.pending = p] /\ p \in SUBSET Events
      BY <1>1, <2>2, <3>1
    <3> QED BY Zenon, <3>1, <3>2 DEF Call
  <2>4. CallOK(d, r) BY <1>2, <2>2, <2>3 DEF CallOK, Active
  <2> HIDE DEF d
  <2> QED BY Zenon, <1>3, <2>1, <2>3, <2>4, CallSteps DEF ListPending, d
<1>4. CASE ReadAcknowledged(w)
  <2> DEFINE d == [c EXCEPT !.pc = "acked", !.acked = route[r].acked]
  <2>1. disp' = [disp EXCEPT ![w] = d] BY Zenon, <1>1, <1>4 DEF ReadAcknowledged
  <2>2. d \in Call /\ d.pc = "acked" /\ d.pending = c.pending
    BY Zenon, <1>1 DEF Call, Route
  <2>3. CallOK(d, r) BY <1>1, <1>4, <2>2 DEF CallOK, Active, ReadAcknowledged
  <2> HIDE DEF d
  <2> QED BY Zenon, <1>4, <2>1, <2>2, <2>3, CallSteps DEF ReadAcknowledged
<1>5. CASE ReadKnownTail(w)
  <2> DEFINE d == [c EXCEPT !.pc = "ready", !.tail = route[r].tail]
  <2>1. disp' = [disp EXCEPT ![w] = d] BY Zenon, <1>1, <1>5 DEF ReadKnownTail
  <2>2. d \in Call /\ d.pc = "ready" /\ d.pending = c.pending /\ d.tail = route[r].tail
    BY Zenon, <1>1 DEF Call, Route
  <2>3. CallOK(d, r)
    BY <1>0, <1>1, <1>5, <2>2 DEF CallOK, Active, ReadKnownTail, Route
  <2> HIDE DEF d
  <2> QED BY Zenon, <1>5, <2>1, <2>2, <2>3, CallSteps DEF ReadKnownTail
<1>6. CASE Send(w)
  <2> DEFINE d == [c EXCEPT !.pc = "sent", !.cur = Min(Unsent(w))]
  <2>1. disp' = [disp EXCEPT ![w] = d] BY Zenon, <1>1, <1>6 DEF Send
  <2>2. Unsent(w) # {} /\ Unsent(w) \in SUBSET Nat /\ Unsent(w) \subseteq c.pending
    BY <1>0, <1>1, <1>6 DEF Send, Unsent, Call, Events
  <2>3. Min(Unsent(w)) \in c.pending BY <2>2, MinMember
  <2>4. /\ d \in Call /\ d.pc = "sent" /\ d.pending = c.pending /\ d.tail = c.tail
        /\ d.cur \in d.pending
    <3>1. PICK m \in 0..MaxEvents : m = Min(Unsent(w)) /\ m \in c.pending
      BY <1>0, <1>1, <2>3 DEF Call, Events
    <3> QED BY Zenon, <1>1, <3>1 DEF Call
  <2>5. CallOK(d, r) BY <1>1, <1>6, <2>4 DEF CallOK, Active, Send
  <2> HIDE DEF d
  <2> QED BY Zenon, <1>6, <2>1, <2>4, <2>5, CallSteps DEF Send
<1>7. CASE Finish(w)
  BY Zenon, <1>0, <1>7, EndedOK, CallSteps DEF Finish, Results
<1>8. CASE RejectAck(w)
  BY Zenon, <1>0, <1>8, EndedOK, CallSteps DEF RejectAck, Results
<1>9. CASE AckMovedBackwards(w)
  BY Zenon, <1>0, <1>9, EndedOK, CallSteps DEF AckMovedBackwards, Results
<1> QED BY <1>3, <1>4, <1>5, <1>6, <1>7, <1>8, <1>9

\* LogicalOutboxStore::project extends a route by the entries after its tail,
\* or opens it at the first of them.
LEMMA ProjectKeeps ==
    ASSUME DeliveryInv, NEW r \in Receivers, NEW from \in Events, NEW to \in Events,
           from <= to, route[r].tail < from,
           route[r].open => from = route[r].tail + 1,
           journal' \in 0..MaxEvents, journal <= journal', to <= journal',
           Project(r, from, to), UNCHANGED <<receiverVars, disp, late>>
    PROVE  DeliveryInv'
<1> USE DeliveryAssumption
<1>1. /\ MaxEvents \in Nat /\ from \in 1..MaxEvents /\ to \in 1..MaxEvents
      /\ journal \in 0..MaxEvents /\ route \in [Receivers -> Route]
      /\ outbox \in [Receivers -> SUBSET Events]
      /\ last \in [Receivers -> 0..MaxEvents]
      /\ watermark \in [Receivers -> 0..MaxEvents]
      /\ disp \in [Dispatchers -> Call]
  BY DEF DeliveryInv, DeliveryTypeOK, Events
<1>2. \A q \in Receivers : /\ route[q].open \in BOOLEAN
                           /\ route[q].acked \in 0..MaxEvents
                           /\ route[q].tail \in 0..MaxEvents
  BY <1>1 DEF Route
<1> DEFINE new == [open |-> TRUE, tail |-> to,
                   acked |-> IF route[r].open THEN route[r].acked ELSE from - 1]
<1>3. /\ outbox' = [outbox EXCEPT ![r] = @ \cup from..to]
      /\ route' = [route EXCEPT ![r] = new]
  BY DEF Project
<1>4. /\ last' = last /\ markers' = markers /\ watermark' = watermark
      /\ log' = log /\ disp' = disp /\ late' = late
  BY DEF receiverVars
<1>5. new \in Route /\ new.tail = to /\ new.open
  BY <1>1, <1>2 DEF Route
<1>6. /\ route[r].acked <= route[r].tail
      /\ outbox[r] = (route[r].acked + 1)..route[r].tail
      /\ ~route[r].open => route[r].tail = 0 /\ route[r].acked = 0
      /\ watermark[r] <= last[r] /\ last[r] <= route[r].tail
      /\ \A s \in outbox[r] : s > watermark[r]
  BY DEF DeliveryInv, OutboxIsWindow, RoutesOK
<1>7. /\ new.acked <= to
      /\ outbox[r] \cup from..to = (new.acked + 1)..to
  <2>1. CASE route[r].open BY SMTT(40), <2>1, <1>1, <1>2, <1>6
  <2>2. CASE ~route[r].open BY <2>2, <1>1, <1>2, <1>6
  <2> QED BY <2>1, <2>2
<1> HIDE DEF new
<1>8. /\ route'[r] = new /\ outbox'[r] = outbox[r] \cup from..to
      /\ \A q \in Receivers : q # r => route'[q] = route[q] /\ outbox'[q] = outbox[q]
  BY <1>1, <1>3
<1>9. \A q \in Receivers : route[q].tail <= route'[q].tail
  BY <1>1, <1>2, <1>5, <1>8
<1>10. DeliveryTypeOK'
  <2>1. route' \in [Receivers -> Route] BY <1>1, <1>3, <1>5
  <2>2. from..to \subseteq Events BY <1>1 DEF Events
  <2>3. outbox' \in [Receivers -> SUBSET Events] BY <1>1, <1>3, <2>2
  <2> QED BY <1>4, <2>1, <2>3 DEF DeliveryInv, DeliveryTypeOK
<1>11. AppliedOnceInOrder' BY <1>4 DEF DeliveryInv, AppliedOnceInOrder
<1>12. OutboxIsWindow'
  <2> SUFFICES ASSUME NEW q \in Receivers
               PROVE  /\ route'[q].acked <= route'[q].tail
                      /\ route'[q].tail <= journal'
                      /\ outbox'[q] = (route'[q].acked + 1)..route'[q].tail
    BY DEF OutboxIsWindow
  <2>1. CASE q = r BY <2>1, <1>5, <1>7, <1>8
  <2>2. CASE q # r
    <3>1. /\ route[q].acked <= route[q].tail /\ route[q].tail <= journal
          /\ outbox[q] = (route[q].acked + 1)..route[q].tail
      BY DEF DeliveryInv, OutboxIsWindow
    <3> QED BY SMTT(40), <2>2, <3>1, <1>1, <1>2, <1>8
  <2> QED BY <2>1, <2>2
<1>13. RoutesOK'
  <2> SUFFICES ASSUME NEW q \in Receivers
               PROVE  /\ ~route'[q].open => route'[q].tail = 0 /\ route'[q].acked = 0
                      /\ watermark[q] <= last[q] /\ last[q] <= route'[q].tail
                      /\ markers[q] = (watermark[q] + 1)..last[q]
                      /\ \A s \in outbox'[q] : s > watermark[q]
    BY <1>4 DEF RoutesOK
  <2>1. markers[q] = (watermark[q] + 1)..last[q] BY DEF DeliveryInv, RoutesOK
  <2>2. CASE q = r
    <3>1. \A s \in outbox'[r] : s > watermark[r]
      BY <1>1, <1>2, <1>6, <1>8
    <3> QED BY <2>1, <2>2, <3>1, <1>1, <1>2, <1>5, <1>6, <1>8
  <2>3. CASE q # r BY SMTT(40), <2>3, <1>8 DEF DeliveryInv, RoutesOK
  <2> QED BY <2>2, <2>3
<1>14. CallsOK'
  <2> SUFFICES ASSUME NEW v \in Dispatchers PROVE CallOK(disp[v], Serves[v])'
    BY DEF CallsOK
  <2>1. /\ CallOK(disp[v], Serves[v]) /\ Serves[v] \in Receivers
        /\ disp[v] \in Call
    BY <1>1 DEF DeliveryInv, CallsOK
  <2>2. \A s \in disp[v].pending : s \in Nat BY <1>1, <2>1 DEF Call, Events
  <2>3. disp[v].tail \in Nat BY <1>1, <2>1 DEF Call
  <2>4. /\ route[Serves[v]].tail <= route'[Serves[v]].tail
        /\ route[Serves[v]].tail \in Nat /\ route'[Serves[v]].tail \in Nat
    BY <1>1, <1>2, <1>5, <1>8, <1>9, <2>1
  <2> QED BY <1>4, <2>1, <2>2, <2>3, <2>4 DEF CallOK
<1>15. LateOK'
  BY <1>1, <1>2, <1>4, <1>5, <1>8, <1>9 DEF DeliveryInv, LateOK, Events
<1> QED BY <1>10, <1>11, <1>12, <1>13, <1>14, <1>15 DEF DeliveryInv

\* append_logical_journal, materialize_logical_journal and
\* enqueue_logical_delivery.
LEMMA JournalKeeps ==
    ASSUME DeliveryInv,
           \/ AppendJournal
           \/ \E r \in Receivers, to \in Events : Materialize(r, to)
           \/ \E r \in Receivers : Enqueue(r)
    PROVE  DeliveryInv'
<1> USE DeliveryAssumption
<1>1. /\ MaxEvents \in Nat /\ journal \in 0..MaxEvents
      /\ \A r \in Receivers : /\ route[r].tail \in 0..MaxEvents
                              /\ route[r].tail <= journal
  BY DEF DeliveryInv, DeliveryTypeOK, Route, OutboxIsWindow
<1>2. CASE AppendJournal
  <2>1. /\ journal' \in 0..MaxEvents /\ journal <= journal'
        /\ route' = route /\ outbox' = outbox /\ disp' = disp /\ late' = late
        /\ last' = last /\ markers' = markers /\ watermark' = watermark
        /\ log' = log
    BY <1>1, <1>2 DEF AppendJournal, receiverVars
  <2>2. DeliveryTypeOK' BY SMTT(40), <2>1 DEF DeliveryInv, DeliveryTypeOK
  <2>3. OutboxIsWindow'
    BY <1>1, <2>1 DEF DeliveryInv, OutboxIsWindow
  <2>4. AppliedOnceInOrder' /\ RoutesOK' /\ LateOK'
    BY <2>1 DEF DeliveryInv, AppliedOnceInOrder, RoutesOK, LateOK
  <2>5. CallsOK' BY <2>1 DEF DeliveryInv, CallsOK, CallOK
  <2> QED BY <2>2, <2>3, <2>4, <2>5 DEF DeliveryInv
<1>3. ASSUME NEW r \in Receivers, NEW to \in Events, Materialize(r, to)
      PROVE  DeliveryInv'
  <2>1. /\ FirstUnprojected(r) = route[r].tail + 1
        /\ FirstUnprojected(r) <= to /\ to <= journal
        /\ Project(r, FirstUnprojected(r), to)
        /\ UNCHANGED <<journal, receiverVars, disp, late>>
    BY <1>3 DEF Materialize, FirstUnprojected
  <2>2. FirstUnprojected(r) \in Events BY <1>1, <2>1 DEF Events
  <2>3. route[r].tail < FirstUnprojected(r) BY <1>1, <2>1
  <2> QED BY <1>1, <2>1, <2>2, <2>3, ProjectKeeps
<1>4. ASSUME NEW r \in Receivers, Enqueue(r)
      PROVE  DeliveryInv'
  <2>1. journal + 1 \in Events BY <1>1, <1>4 DEF Enqueue, Events
  <2>2. route[r].tail < journal + 1 BY <1>1
  <2>3. journal' \in 0..MaxEvents /\ journal <= journal' /\ journal + 1 <= journal'
    BY SMTT(40), <1>1, <1>4 DEF Enqueue
  <2> QED BY <1>1, <1>4, <2>1, <2>2, <2>3, ProjectKeeps DEF Enqueue
<1> QED BY <1>2, <1>3, <1>4

\* What a receiver's transaction leaves true, whoever sent the request.
LEMMA ReceiveKeeps ==
    ASSUME DeliveryInv, NEW r \in Receivers, NEW s \in Events, NEW a,
           Receive(r, s, a), watermark[r] < s, s <= route[r].tail,
           UNCHANGED <<journal, route, outbox>>
    PROVE  /\ AppliedOnceInOrder' /\ OutboxIsWindow' /\ RoutesOK'
           /\ \A d \in Call, q \in Receivers : CallOK(d, q) => CallOK(d, q)'
           /\ (DeliveryTypeOK' <=> disp' \in [Dispatchers -> Call]
                                    /\ late' \subseteq Receivers \X Events)
<1>1. /\ MaxEvents \in Nat /\ last \in [Receivers -> 0..MaxEvents]
      /\ DeliveryTypeOK /\ RoutesOK
  BY DeliveryAssumption DEF DeliveryInv, DeliveryTypeOK
<1>2. /\ last' \in [Receivers -> 0..MaxEvents]
      /\ markers' \in [Receivers -> SUBSET Events]
      /\ log' \in [Receivers -> Seq(Events)]
      /\ watermark' = watermark /\ AppliedOnceInOrder'
      /\ \A q \in Receivers : /\ last[q] <= last'[q] /\ last'[q] <= route[q].tail
                              /\ markers'[q] = (watermark[q] + 1)..last'[q]
  BY Received
<1>3. OutboxIsWindow' BY DEF DeliveryInv, OutboxIsWindow
<1>4. RoutesOK'
  <2>1. \A q \in Receivers : watermark[q] \in 0..MaxEvents
    BY <1>1 DEF DeliveryTypeOK
  <2>2. \A q \in Receivers : watermark[q] <= last'[q]
    BY <1>1, <1>2, <2>1 DEF RoutesOK
  <2> QED BY <1>1, <1>2, <2>2 DEF RoutesOK
<1>5. ASSUME NEW d \in Call, NEW q \in Receivers, CallOK(d, q)
      PROVE  CallOK(d, q)'
  <2>1. d.ack.through \in Nat BY <1>1 DEF Call, Ack
  <2>2. d.ack.through <= last[q] => d.ack.through <= last'[q]
    BY <1>1, <1>2, <2>1
  <2> QED BY <1>2, <1>5, <2>2 DEF CallOK
<1>6. DeliveryTypeOK' <=> disp' \in [Dispatchers -> Call]
                          /\ late' \subseteq Receivers \X Events
  BY Zenon, <1>1, <1>2 DEF DeliveryTypeOK
<1> QED BY <1>2, <1>3, <1>4, <1>5, <1>6

\* A request nobody waits for is handled, or never arrives.
LEMMA LateKeeps ==
    ASSUME DeliveryInv, NEW r \in Receivers, NEW s \in Events,
           ReceiveLate(r, s) \/ LoseLate(r, s)
    PROVE  DeliveryInv'
<1>1. /\ <<r, s>> \in late /\ late' \subseteq late /\ disp' = disp
      /\ UNCHANGED <<journal, route, outbox>>
  BY DEF ReceiveLate, LoseLate
<1>2. disp \in [Dispatchers -> Call] /\ late \subseteq Receivers \X Events
  BY DEF DeliveryInv, DeliveryTypeOK
<1>3. watermark' = watermark BY DEF ReceiveLate, LoseLate, Receive, receiverVars
<1>4. LateOK' BY <1>1, <1>3 DEF DeliveryInv, LateOK
<1>5. CASE ReceiveLate(r, s)
  <2>1. watermark[r] < s /\ s <= route[r].tail
    BY <1>1 DEF DeliveryInv, LateOK
  <2>2. PICK a \in Answers(r, s) : Receive(r, s, a) BY <1>5 DEF ReceiveLate
  <2>3. /\ AppliedOnceInOrder' /\ OutboxIsWindow' /\ RoutesOK' /\ DeliveryTypeOK'
        /\ \A d \in Call, q \in Receivers : CallOK(d, q) => CallOK(d, q)'
    BY <1>1, <1>2, <2>1, <2>2, ReceiveKeeps
  <2>4. CallsOK'
    BY <1>1, <1>2, <2>3, DeliveryAssumption DEF DeliveryInv, CallsOK
  <2> QED BY <1>4, <2>3, <2>4 DEF DeliveryInv
<1>6. CASE LoseLate(r, s)
  <2>1. last' = last /\ markers' = markers /\ log' = log
    BY <1>6 DEF LoseLate, receiverVars
  <2>2. DeliveryTypeOK' BY SMTT(40), <1>1, <1>3, <2>1 DEF DeliveryInv, DeliveryTypeOK
  <2>3. AppliedOnceInOrder' /\ OutboxIsWindow' /\ RoutesOK'
    BY SMTT(40), <1>1, <1>3, <2>1 DEF DeliveryInv, AppliedOnceInOrder, OutboxIsWindow, RoutesOK
  <2>4. CallsOK' BY <1>1, <1>3, <2>1 DEF DeliveryInv, CallsOK, CallOK
  <2> QED BY <1>4, <2>2, <2>3, <2>4 DEF DeliveryInv
<1> QED BY <1>5, <1>6
=============================================================================
