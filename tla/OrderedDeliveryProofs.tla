----------------------- MODULE OrderedDeliveryProofs -----------------------
(***************************************************************************)
(* Ordered delivery for every number of receivers, dispatchers and events: *)
(* envelopes are applied once and in order, a route's outbox is a window   *)
(* of the journal, entries leave it only after they were applied, and a    *)
(* route with one dispatch call at a time refuses no honest answer.        *)
(***************************************************************************)
EXTENDS OrderedDeliveryInvariant

\* An answer to the request a dispatch call waits for.
LEMMA AnswerKeeps ==
    ASSUME DeliveryInv, NEW w \in Dispatchers, NEW a \in Ack, Answer(w, a)
    PROVE  DeliveryInv'
<1> DEFINE r == Serves[w]
           c == disp[w]
           d == [c EXCEPT !.pc = "answered", !.ack = a]
<1>1. /\ r \in Receivers /\ c \in Call /\ c.pc = "sent" /\ CallOK(c, r)
      /\ Receive(r, c.cur, a) /\ disp' = [disp EXCEPT ![w] = d]
      /\ UNCHANGED <<journal, route, outbox, late>>
      /\ disp \in [Dispatchers -> Call]
  BY Zenon, DeliveryAssumption DEF DeliveryInv, DeliveryTypeOK, CallsOK, Answer
<1>2. c.cur \in Events /\ c.cur \in c.pending
  BY <1>1 DEF CallOK, Call
<1>3. watermark[r] < c.cur /\ c.cur <= route[r].tail
  BY <1>1, <1>2 DEF CallOK
<1>4. /\ d \in Call /\ d.pc = "answered" /\ d.pending = c.pending
      /\ d.tail = c.tail /\ d.cur = c.cur /\ d.ack = a
  BY Zenon, <1>1 DEF Call
<1>5. a.through <= last'[r] /\ watermark' = watermark
  BY <1>1, <1>2, <1>3, Received
<1>6. /\ AppliedOnceInOrder' /\ OutboxIsWindow' /\ RoutesOK'
      /\ \A e \in Call, q \in Receivers : CallOK(e, q) => CallOK(e, q)'
      /\ (DeliveryTypeOK' <=> disp' \in [Dispatchers -> Call]
                               /\ late' \subseteq Receivers \X Events)
  BY <1>1, <1>2, <1>3, ReceiveKeeps
<1> HIDE DEF d
<1>7. DeliveryTypeOK'
  BY Zenon, <1>1, <1>4, <1>6 DEF DeliveryInv, DeliveryTypeOK
<1>8. LateOK' BY <1>1, <1>5 DEF DeliveryInv, LateOK
<1>9. CallsOK'
  <2> SUFFICES ASSUME NEW v \in Dispatchers PROVE CallOK(disp[v], Serves[v])'
    BY DEF CallsOK
  <2>1. CASE v = w
    <3>1. disp'[v] = d BY <1>1, <2>1
    <3>2. PICK e \in Call : e = c BY <1>1
    <3>3. CallOK(e, r)' BY <1>1, <1>6, <3>2
    <3> QED BY <1>1, <1>4, <1>5, <2>1, <3>1, <3>2, <3>3 DEF CallOK, Active
  <2>2. CASE v # w
    <3>1. disp'[v] = disp[v] /\ disp[v] \in Call /\ Serves[v] \in Receivers
      BY Zenon, <1>1, <2>2, DeliveryAssumption
    <3>2. CallOK(disp[v], Serves[v]) BY DEF DeliveryInv, CallsOK
    <3> QED BY <1>6, <3>1, <3>2 DEF CallOK
  <2> QED BY <2>1, <2>2
<1> QED BY <1>6, <1>7, <1>8, <1>9 DEF DeliveryInv

\* A dispatch call that ends early, its request perhaps still on the way.
LEMMA AbandonKeeps ==
    ASSUME DeliveryInv, NEW w \in Dispatchers, Abandon(w)
    PROVE  DeliveryInv'
<1> DEFINE r == Serves[w]
           c == disp[w]
<1>1. /\ r \in Receivers /\ c \in Call /\ CallOK(c, r)
      /\ disp \in [Dispatchers -> Call] /\ late \subseteq Receivers \X Events
      /\ UNCHANGED <<journal, route, outbox>>
      /\ last' = last /\ markers' = markers /\ watermark' = watermark /\ log' = log
      /\ disp' = [disp EXCEPT ![w] = Ended("retry")]
  BY Zenon, DeliveryAssumption
     DEF DeliveryInv, DeliveryTypeOK, CallsOK, Abandon, receiverVars
<1>2. Ended("retry") \in Call /\ CallOK(Ended("retry"), r)
  BY <1>1, EndedOK DEF Results
<1>3. /\ late' \subseteq Receivers \X Events
      /\ \A q \in Receivers, s \in Events :
            <<q, s>> \in late' => watermark[q] < s /\ s <= route[q].tail
  <2>1. CASE c.pc = "sent"
    <3>1. late' = late \cup {<<r, c.cur>>} BY <2>1 DEF Abandon
    <3>2. c.cur \in Events /\ watermark[r] < c.cur /\ c.cur <= route[r].tail
      BY <1>1, <2>1 DEF CallOK, Call
    <3> QED BY <1>1, <3>1, <3>2 DEF DeliveryInv, LateOK
  <2>2. CASE c.pc # "sent"
    BY <1>1, <2>2 DEF Abandon, DeliveryInv, LateOK
  <2> QED BY <2>1, <2>2
<1>4. DeliveryTypeOK' BY <1>1, <1>2, <1>3 DEF DeliveryInv, DeliveryTypeOK
<1>5. LateOK' BY <1>1, <1>3 DEF LateOK
<1>6. AppliedOnceInOrder' /\ OutboxIsWindow' /\ RoutesOK'
  BY <1>1 DEF DeliveryInv, AppliedOnceInOrder, OutboxIsWindow, RoutesOK
<1>7. CallsOK'
  <2> SUFFICES ASSUME NEW v \in Dispatchers PROVE CallOK(disp[v], Serves[v])'
    BY DEF CallsOK
  <2>1. CallOK(disp[v], Serves[v])' \equiv CallOK(disp'[v], Serves[v])
    BY <1>1 DEF CallOK
  <2>2. CASE v = w BY <2>1, <2>2, <1>1, <1>2
  <2>3. CASE v # w BY <2>1, <2>3, <1>1 DEF DeliveryInv, CallsOK
  <2> QED BY <2>2, <2>3
<1> QED BY <1>4, <1>5, <1>6, <1>7 DEF DeliveryInv

\* prune_ordered_logical_delivery_markers, once the retries below the frontier
\* have ended.
LEMMA PruneKeeps ==
    ASSUME DeliveryInv, NEW r \in Receivers, Prune(r)
    PROVE  DeliveryInv'
<1>1. /\ MaxEvents \in Nat /\ last \in [Receivers -> 0..MaxEvents]
      /\ watermark \in [Receivers -> 0..MaxEvents]
      /\ markers \in [Receivers -> SUBSET Events]
      /\ outbox \in [Receivers -> SUBSET Events]
      /\ RoutesOK
  BY DeliveryAssumption DEF DeliveryInv, DeliveryTypeOK
<1>2. /\ watermark' = [watermark EXCEPT ![r] = last[r]]
      /\ markers' = [markers EXCEPT ![r] = {s \in @ : s > last[r]}]
      /\ UNCHANGED <<journal, route, outbox, last, log, disp, late>>
      /\ RetryEnded(r)
  BY DEF Prune, PruneFrontier
<1>3. /\ watermark'[r] = last[r] /\ markers'[r] = {s \in markers[r] : s > last[r]}
      /\ \A q \in Receivers :
            q # r => watermark'[q] = watermark[q] /\ markers'[q] = markers[q]
  BY <1>1, <1>2
<1>4. DeliveryTypeOK'
  <2>1. watermark' \in [Receivers -> 0..MaxEvents] BY <1>1, <1>2
  <2>2. markers' \in [Receivers -> SUBSET Events] BY <1>1, <1>2
  <2> QED BY <1>2, <2>1, <2>2 DEF DeliveryInv, DeliveryTypeOK
<1>5. AppliedOnceInOrder' /\ OutboxIsWindow'
  BY <1>2 DEF DeliveryInv, AppliedOnceInOrder, OutboxIsWindow
<1>6. RoutesOK'
  <2> SUFFICES ASSUME NEW q \in Receivers
               PROVE  /\ ~route[q].open => route[q].tail = 0 /\ route[q].acked = 0
                      /\ watermark'[q] <= last[q] /\ last[q] <= route[q].tail
                      /\ markers'[q] = (watermark'[q] + 1)..last[q]
                      /\ \A s \in outbox[q] : s > watermark'[q]
    BY Zenon, <1>2 DEF RoutesOK
  <2>1. CASE q = r
    <3>1. markers'[r] = {} /\ (last[r] + 1)..last[r] = {}
      BY <1>1, <1>3 DEF RoutesOK
    <3>2. \A s \in outbox[r] : s > last[r]
      BY <1>1, <1>2 DEF RetryEnded, Events
    <3>3. /\ ~route[r].open => route[r].tail = 0 /\ route[r].acked = 0
          /\ last[r] <= route[r].tail /\ last[r] <= last[r]
      BY <1>1 DEF RoutesOK
    <3> QED BY Zenon, <1>3, <2>1, <3>1, <3>2, <3>3
  <2>2. CASE q # r BY <1>1, <1>3, <2>2 DEF RoutesOK
  <2> QED BY <2>1, <2>2
<1>7. CallsOK'
  <2> SUFFICES ASSUME NEW v \in Dispatchers PROVE CallOK(disp[v], Serves[v])'
    BY DEF CallsOK
  <2>1. CallOK(disp[v], Serves[v]) /\ Serves[v] \in Receivers
    BY DeliveryAssumption DEF DeliveryInv, CallsOK
  <2>2. CASE Serves[v] = r
    BY <1>2, <2>2 DEF RetryEnded, CallOK, Active
  <2>3. CASE Serves[v] # r
    BY <1>2, <1>3, <2>1, <2>3 DEF CallOK
  <2> QED BY <2>2, <2>3
<1>8. LateOK'
  <2> SUFFICES ASSUME NEW q \in Receivers, NEW s \in Events, <<q, s>> \in late
               PROVE  watermark'[q] < s /\ s <= route[q].tail
    BY <1>2 DEF LateOK
  <2>1. watermark[q] < s /\ s <= route[q].tail BY DEF DeliveryInv, LateOK
  <2>2. CASE q = r
    BY <1>1, <1>2, <1>3, <2>1, <2>2 DEF RetryEnded, Events
  <2>3. CASE q # r BY <1>3, <2>1, <2>3
  <2> QED BY <2>2, <2>3
<1> QED BY <1>4, <1>5, <1>6, <1>7, <1>8 DEF DeliveryInv

\* LogicalOutboxStore::acknowledge_through and the call that goes on or ends.
LEMMA AcceptKeeps ==
    ASSUME DeliveryInv, NEW w \in Dispatchers, AcceptAck(w)
    PROVE  /\ DeliveryInv'
           /\ \A r \in Receivers : outbox[r] \ outbox'[r] \subseteq 1..last[r]
<1> USE DeliveryAssumption
<1> DEFINE r == Serves[w]
           c == disp[w]
           t == c.ack.through
           d == IF c.ack.ok
                THEN [c EXCEPT !.pc = "ready", !.acked = Max({@, t}), !.ack = NoAck]
                ELSE Ended(IF c.ack.retryable THEN "retry" ELSE "permanent")
<1>1. /\ MaxEvents \in Nat /\ r \in Receivers /\ c \in Call /\ CallOK(c, r)
      /\ disp \in [Dispatchers -> Call] /\ route \in [Receivers -> Route]
      /\ outbox \in [Receivers -> SUBSET Events]
      /\ last \in [Receivers -> 0..MaxEvents]
  BY DEF DeliveryInv, DeliveryTypeOK, CallsOK
<1>2. /\ c.pc = "answered" /\ t <= c.tail /\ disp' = [disp EXCEPT ![w] = d]
      /\ journal' = journal /\ late' = late /\ last' = last
      /\ markers' = markers /\ watermark' = watermark /\ log' = log
  BY DEF AcceptAck, ValidAck, receiverVars
<1>3. /\ t \in 0..MaxEvents /\ c.acked \in 0..MaxEvents /\ c.tail \in 0..MaxEvents
      /\ c.ack.ok \in BOOLEAN
  BY <1>1 DEF Call, Ack
<1>4. \A q \in Receivers : /\ route[q].acked \in 0..MaxEvents
                           /\ route[q].tail \in 0..MaxEvents
                           /\ last[q] \in 0..MaxEvents
                           /\ outbox[q] = (route[q].acked + 1)..route[q].tail
                           /\ route[q].acked <= route[q].tail
                           /\ route[q].tail <= journal
  BY <1>1 DEF Route, DeliveryInv, OutboxIsWindow
<1>5. t <= route[r].tail /\ t <= last[r]
  BY <1>1, <1>2, <1>3, <1>4 DEF CallOK, Active
<1>6. /\ route' \in [Receivers -> Route] /\ outbox' \in [Receivers -> SUBSET Events]
      /\ \A q \in Receivers :
           /\ route'[q].tail = route[q].tail /\ route'[q].open = route[q].open
           /\ route'[q].acked <= route[q].tail
           /\ outbox'[q] = (route'[q].acked + 1)..route[q].tail
           /\ outbox'[q] \subseteq outbox[q]
           /\ ~route[q].open => route'[q].acked = 0
           /\ outbox[q] \ outbox'[q] \subseteq 1..last[q]
  <2>0. \A q \in Receivers : ~route[q].open => route[q].tail = 0 /\ route[q].acked = 0
    BY DEF DeliveryInv, RoutesOK
  <2>1. CASE t > c.acked
    <3>1. /\ t >= route[r].acked
          /\ outbox' = [outbox EXCEPT ![r] = {s \in outbox[r] : s > t}]
          /\ route' = [route EXCEPT ![r].acked = t]
      BY <2>1 DEF AcceptAck, Acknowledge, Acknowledged
    <3>2. /\ route' \in [Receivers -> Route] /\ outbox' \in [Receivers -> SUBSET Events]
      BY <1>1, <1>3, <3>1 DEF Route
    <3>3. /\ route'[r].tail = route[r].tail /\ route'[r].open = route[r].open
          /\ route'[r].acked = t /\ outbox'[r] = {s \in outbox[r] : s > t}
          /\ \A q \in Receivers : q # r => route'[q] = route[q] /\ outbox'[q] = outbox[q]
      BY <1>1, <3>1 DEF Route
    <3>4. PICK i \in Nat, j \in Nat, k \in Nat, l \in Nat :
             /\ i = t /\ j = route[r].acked /\ k = route[r].tail /\ l = last[r]
             /\ j <= i /\ i <= l /\ outbox[r] = (j + 1)..k
             /\ outbox'[r] = {s \in outbox[r] : s > i}
      BY <1>1, <1>3, <1>4, <1>5, <3>1, <3>3
    <3>5. outbox'[r] = (t + 1)..route[r].tail
      <4>1. outbox'[r] = (i + 1)..k BY SMTT(40), <3>4
      <4> QED BY SMTT(40), <3>4, <4>1
    <3>8. outbox[r] \ outbox'[r] \subseteq 1..last[r]
      <4>1. outbox[r] \ outbox'[r] \subseteq 1..l BY SMTT(40), <3>4
      <4> QED BY <3>4, <4>1
    <3>6. ~route[r].open => t = 0 BY <1>1, <1>3, <1>5, <2>0
    <3>7. ASSUME NEW q \in Receivers
          PROVE  /\ route'[q].tail = route[q].tail /\ route'[q].open = route[q].open
                 /\ route'[q].acked <= route[q].tail
                 /\ outbox'[q] = (route'[q].acked + 1)..route[q].tail
                 /\ outbox'[q] \subseteq outbox[q]
                 /\ ~route[q].open => route'[q].acked = 0
                 /\ outbox[q] \ outbox'[q] \subseteq 1..last[q]
      <4>1. CASE q = r BY Zenon, <4>1, <1>5, <3>3, <3>5, <3>6, <3>8
      <4>2. CASE q # r BY <4>2, <1>4, <2>0, <3>3
      <4> QED BY <4>1, <4>2
    <3> QED BY <3>2, <3>7
  <2>2. CASE ~(t > c.acked)
    <3>1. route' = route /\ outbox' = outbox BY <2>2 DEF AcceptAck
    <3> QED BY <1>1, <1>4, <2>0, <3>1
  <2> QED BY <2>1, <2>2
<1>7. d \in Call /\ CallOK(d, r)
  <2>1. CASE c.ack.ok
    <3>1. PICK m \in 0..MaxEvents : m = Max({c.acked, t})
      BY <1>3 DEF Max
    <3>2. d = [c EXCEPT !.pc = "ready", !.acked = m, !.ack = NoAck]
      BY <2>1, <3>1
    <3>3. NoAck \in Ack BY <1>1 DEF NoAck, Ack
    <3>4. d \in Call /\ d.pc = "ready" /\ d.pending = c.pending /\ d.tail = c.tail
      BY ZenonT(40), <1>1, <3>2, <3>3 DEF Call
    <3> HIDE DEF d
    <3> QED BY <1>1, <1>2, <3>4 DEF CallOK, Active
  <2>2. CASE ~c.ack.ok BY <1>1, <2>2, EndedOK DEF Results
  <2> QED BY <2>1, <2>2
<1> HIDE DEF d
<1>8. DeliveryTypeOK'
  BY <1>1, <1>2, <1>6, <1>7 DEF DeliveryInv, DeliveryTypeOK
<1>9. AppliedOnceInOrder' BY <1>2 DEF DeliveryInv, AppliedOnceInOrder
<1>10. OutboxIsWindow' BY <1>2, <1>4, <1>6 DEF OutboxIsWindow
<1>11. RoutesOK' BY <1>2, <1>6 DEF DeliveryInv, RoutesOK
<1>12. LateOK' BY <1>2, <1>6 DEF DeliveryInv, LateOK
<1>13. CallsOK'
  <2> SUFFICES ASSUME NEW v \in Dispatchers PROVE CallOK(disp[v], Serves[v])'
    BY DEF CallsOK
  <2>1. CallOK(disp[v], Serves[v])' \equiv CallOK(disp'[v], Serves[v])
    BY <1>2, <1>6 DEF CallOK
  <2>2. CASE v = w BY <2>1, <2>2, <1>1, <1>2, <1>7
  <2>3. CASE v # w BY SMTT(40), <2>1, <2>3, <1>1, <1>2 DEF DeliveryInv, CallsOK
  <2> QED BY <2>2, <2>3
<1> QED BY <1>6, <1>8, <1>9, <1>10, <1>11, <1>12, <1>13 DEF DeliveryInv

-----------------------------------------------------------------------------
(* Every step                                                              *)

\* Each action of DeliveryNext keeps the invariant.
LEMMA NextKeeps ==
    ASSUME DeliveryInv, DeliveryNext
    PROVE  DeliveryInv'
<1>1. ASSUME NEW r \in Receivers, \E s \in Events : ReceiveLate(r, s) \/ LoseLate(r, s)
      PROVE  DeliveryInv'
  BY <1>1, LateKeeps
<1>2. ASSUME NEW w \in Dispatchers, \E a \in Ack : Answer(w, a)
      PROVE  DeliveryInv'
  BY <1>2, AnswerKeeps
<1> QED
  BY <1>1, <1>2, JournalKeeps, ReadingKeeps, PruneKeeps, AbandonKeeps, AcceptKeeps
     DEF DeliveryNext

\* Nothing is journalled, listed or on its way at the start.
LEMMA InitHolds ==
    ASSUME DeliveryInit
    PROVE  DeliveryInv
<1>1. MaxEvents \in Nat /\ "none" \in Results BY DeliveryAssumption DEF Results
<1>2. DeliveryTypeOK
  <2>1. disp \in [Dispatchers -> Call] BY <1>1, EndedOK, DeliveryAssumption DEF DeliveryInit
  <2>2. route \in [Receivers -> Route] BY <1>1 DEF DeliveryInit, Route
  <2> QED BY <1>1, <2>1, <2>2 DEF DeliveryInit, DeliveryTypeOK
<1>3. AppliedOnceInOrder
  <2>1. << >> = [i \in 1..0 |-> i] OBVIOUS
  <2> QED BY <2>1 DEF DeliveryInit, AppliedOnceInOrder
<1>4. OutboxIsWindow /\ RoutesOK /\ LateOK
  BY <1>1 DEF DeliveryInit, OutboxIsWindow, RoutesOK, LateOK
<1>5. CallsOK
  BY SMTT(40), <1>1, EndedOK, DeliveryAssumption DEF DeliveryInit, CallsOK
<1> QED BY <1>2, <1>3, <1>4, <1>5 DEF DeliveryInv

\* A step that changes no variable keeps the invariant.
LEMMA StutterKeeps ==
    ASSUME DeliveryInv, UNCHANGED orderedVars
    PROVE  DeliveryInv'
BY DEF orderedVars, DeliveryInv, DeliveryTypeOK, AppliedOnceInOrder,
       OutboxIsWindow, RoutesOK, CallsOK, CallOK, LateOK

\* Journal, routes, receivers and dispatch calls stay consistent with each
\* other whatever the network loses, repeats or delays.
THEOREM DeliveryInvariance == DeliverySpec => []DeliveryInv
<1>1. DeliveryInv /\ [DeliveryNext]_orderedVars => DeliveryInv'
  BY NextKeeps, StutterKeeps
<1> QED BY <1>1, InitHolds, PTL DEF DeliverySpec

\* Every variable of the delivery path stays in its type.
THEOREM DeliveryTypes == DeliverySpec => []DeliveryTypeOK
<1>1. DeliveryInv => DeliveryTypeOK BY DEF DeliveryInv
<1> QED BY <1>1, DeliveryInvariance, PTL

\* apply_ordered_logical_delivery_envelope hands each envelope to the
\* adapters once and in journal order, for any number of concurrent callers.
THEOREM AppliedOnce == DeliverySpec => []AppliedOnceInOrder
<1>1. DeliveryInv => AppliedOnceInOrder BY DEF DeliveryInv
<1> QED BY <1>1, DeliveryInvariance, PTL

\* LogicalOutboxStore keeps exactly the entries after the acknowledged one up
\* to the known tail, for any number of concurrent callers.
THEOREM OutboxStaysWindow == DeliverySpec => []OutboxIsWindow
<1>1. DeliveryInv => OutboxIsWindow BY DEF DeliveryInv
<1> QED BY <1>1, DeliveryInvariance, PTL

\* acknowledge_through never drops an entry its receiver has not applied.
THEOREM RemovedAfterApplied == DeliverySpec => RemovedOnlyIfApplied
<1>1. ASSUME DeliveryInv, DeliveryNext
      PROVE  \A r \in Receivers : outbox[r] \ outbox'[r] \subseteq 1..last[r]
  <2>1. ASSUME NEW r \in Receivers, NEW from, NEW to, Project(r, from, to)
        PROVE  \A q \in Receivers : outbox[q] \subseteq outbox'[q]
    BY <2>1 DEF Project, DeliveryInv, DeliveryTypeOK
  <2>2. CASE \E w \in Dispatchers : AcceptAck(w) BY <1>1, <2>2, AcceptKeeps
  <2>3. CASE \E r \in Receivers : Enqueue(r) \/ \E to \in Events : Materialize(r, to)
    BY <2>1, <2>3 DEF Enqueue, Materialize
  <2>4. CASE UNCHANGED outbox BY <2>4
  <2> QED
    BY Zenon, <1>1, <2>2, <2>3, <2>4
       DEF DeliveryNext, AppendJournal, ReceiveLate, LoseLate, Prune, ListPending,
           ReadAcknowledged, ReadKnownTail, Send, Finish, Abandon, Answer,
           RejectAck, AckMovedBackwards
<1>2. DeliveryInv /\ [DeliveryNext]_orderedVars =>
        [\A r \in Receivers : outbox[r] \ outbox'[r] \subseteq 1..last[r]]_orderedVars
  BY <1>1
<1> QED
  BY <1>2, DeliveryInvariance, PTL DEF DeliverySpec, RemovedOnlyIfApplied

-----------------------------------------------------------------------------
(* One dispatch call at a time                                             *)

\* What an open call relies on stays true while its own state, its receiver's
\* frontier and the late requests to it do not change.
LEMMA OwnFrame ==
    ASSUME NEW w \in Dispatchers, OwnTail(disp[w], Serves[w]),
           disp'[w] = disp[w], last'[Serves[w]] = last[Serves[w]],
           \A s \in Events : <<Serves[w], s>> \in late' => <<Serves[w], s>> \in late
    PROVE  OwnTail(disp[w], Serves[w])'
BY SMTT(40) DEF OwnTail

\* deliver_pending_logical_deliveries: with one call per route the call's own
\* steps keep every answer within the tail it has read, and refuse none.
LEMMA OwnStep ==
    ASSUME DeliveryInv, NEW w \in Dispatchers, OwnTail(disp[w], Serves[w]),
           \/ ListPending(w) \/ ReadAcknowledged(w) \/ ReadKnownTail(w)
           \/ Send(w) \/ Finish(w) \/ Abandon(w)
           \/ \E a \in Ack : Answer(w, a)
           \/ RejectAck(w) \/ AckMovedBackwards(w) \/ AcceptAck(w)
    PROVE  OwnTail(disp[w], Serves[w])'
<1> USE DeliveryAssumption
<1> DEFINE r == Serves[w]
           c == disp[w]
<1>1. /\ MaxEvents \in Nat /\ r \in Receivers /\ c \in Call /\ CallOK(c, r)
      /\ disp \in [Dispatchers -> Call] /\ last \in [Receivers -> 0..MaxEvents]
      /\ route[r] \in Route /\ last[r] <= route[r].tail
  BY DEF DeliveryInv, DeliveryTypeOK, CallsOK, RoutesOK
<1>2. /\ c.tail \in Nat /\ c.pending \subseteq Nat /\ c.ack.through \in Nat
      /\ last[r] \in Nat /\ route[r].tail \in Nat
  BY SMTT(40), <1>1 DEF Call, Events, Route, Ack
<1>3. ASSUME NEW res \in Results \ {"invalid"}, disp' = [disp EXCEPT ![w] = Ended(res)]
      PROVE  OwnTail(disp[w], Serves[w])'
  <2>1. disp'[w].pc = "idle" /\ disp'[w].result # "invalid" BY SMTT(40), <1>1, <1>3 DEF Ended
  <2> QED BY SMTT(40), <2>1 DEF OwnTail, Active
<1>4. CASE Finish(w) \/ Abandon(w) \/ AckMovedBackwards(w)
  BY <1>3, <1>4 DEF Finish, Abandon, AckMovedBackwards, Results
<1>5. CASE RejectAck(w)
  <2>1. c.pc = "answered" BY SMTT(40), <1>5 DEF RejectAck
  <2>2. c.ack.through <= last[r] /\ last[r] <= c.tail
    BY SMTT(40), <1>1, <2>1 DEF CallOK, OwnTail, Active
  <2>3. ValidAck(w) BY SMTT(40), <1>2, <2>1, <2>2 DEF ValidAck, OwnTail
  <2> QED BY <1>5, <2>3 DEF RejectAck
<1>6. CASE ListPending(w)
  <2>1. PICK p : disp' = [disp EXCEPT ![w] = [Ended("none") EXCEPT
                                              !.pc = "listed", !.pending = p]]
    BY Zenon, <1>6 DEF ListPending
  <2>2. disp'[w].pc = "listed" /\ disp'[w].result = "none"
    BY SMTT(40), <1>1, <2>1 DEF Ended
  <2> QED BY SMTT(40), <2>2 DEF OwnTail, Active
<1>7. CASE ReadAcknowledged(w)
  <2>1. disp'[w].pc = "acked" /\ disp'[w].result = c.result
    BY SMTT(40), <1>1, <1>7 DEF ReadAcknowledged, Call
  <2> QED BY <2>1 DEF OwnTail, Active
<1>8. CASE ReadKnownTail(w)
  <2>1. /\ disp'[w].pc = "ready" /\ disp'[w].result = c.result
        /\ disp'[w].tail = route[r].tail /\ disp'[w].pending = c.pending
        /\ last' = last /\ late' = late /\ c.pc = "acked"
    BY SMTT(40), <1>1, <1>8 DEF ReadKnownTail, Call, receiverVars
  <2>2. \A s \in c.pending : s <= route[r].tail BY <1>1, <2>1 DEF CallOK
  <2>3. \A s \in Events : <<r, s>> \in late => s <= route[r].tail
    BY SMTT(40), <1>1 DEF DeliveryInv, LateOK
  <2> QED BY Zenon, <1>1, <2>1, <2>2, <2>3 DEF OwnTail, Active
<1>9. CASE Send(w)
  <2>1. /\ disp'[w].pc = "sent" /\ disp'[w].result = c.result
        /\ disp'[w].tail = c.tail /\ disp'[w].pending = c.pending
        /\ last' = last /\ late' = late /\ c.pc = "ready"
    BY SMTT(40), <1>1, <1>9 DEF Send, Call, receiverVars
  <2> QED BY Zenon, <2>1 DEF OwnTail, Active
<1>10. CASE AcceptAck(w)
  <2>1. last' = last /\ late' = late /\ c.pc = "answered"
    BY SMTT(40), <1>10 DEF AcceptAck, receiverVars
  <2>2. CASE c.ack.ok
    <3>1. PICK m : disp' = [disp EXCEPT ![w] = [c EXCEPT !.pc = "ready", !.acked = m,
                                                         !.ack = NoAck]]
      BY Zenon, <1>10, <2>2 DEF AcceptAck
    <3>2. /\ disp'[w].pc = "ready" /\ disp'[w].result = c.result
          /\ disp'[w].tail = c.tail /\ disp'[w].pending = c.pending
      BY <1>1, <3>1 DEF Call
    <3> QED BY SMTT(40), <2>1, <3>2 DEF OwnTail, Active
  <2>3. CASE ~c.ack.ok
    <3> DEFINE res == IF c.ack.retryable THEN "retry" ELSE "permanent"
    <3>1. disp' = [disp EXCEPT ![w] = Ended(res)] BY <1>10, <2>3 DEF AcceptAck
    <3>2. res \in Results \ {"invalid"} BY DEF Results
    <3> HIDE DEF res
    <3> QED BY Zenon, <1>3, <3>1, <3>2
  <2> QED BY <2>2, <2>3
<1>11. ASSUME NEW a \in Ack, Answer(w, a)
       PROVE  OwnTail(disp[w], Serves[w])'
  <2>1. /\ c.pc = "sent" /\ Receive(r, c.cur, a) /\ late' = late
        /\ disp' = [disp EXCEPT ![w].pc = "answered", ![w].ack = a]
    BY <1>11 DEF Answer
  <2>2. /\ disp'[w].pc = "answered" /\ disp'[w].result = c.result
        /\ disp'[w].tail = c.tail /\ disp'[w].pending = c.pending
        /\ disp'[w].cur = c.cur /\ disp'[w].ack = a
    BY <1>1, <2>1 DEF Call
  <2>3. /\ c.cur \in Events /\ c.cur \in c.pending
        /\ watermark[r] < c.cur /\ c.cur <= route[r].tail
    BY <1>1, <2>1 DEF CallOK, Call
  <2>4. /\ last'[r] <= c.cur \/ last'[r] = last[r]
        /\ a.ok => a.through >= c.cur /\ (r \in Cumulative \/ a.through = c.cur)
        /\ ~a.ok => a.through < c.cur
        /\ last' \in [Receivers -> 0..MaxEvents]
    BY <1>1, <2>1, <2>3, Received
  <2>5. last[r] <= c.tail /\ c.cur <= c.tail /\ c.cur \in Nat
    BY SMTT(40), <1>2, <2>1, <2>3 DEF OwnTail, Active
  <2>6. last'[r] <= c.tail BY <1>1, <1>2, <2>4, <2>5
  <2> QED BY Zenon, <2>1, <2>2, <2>4, <2>6 DEF OwnTail, Active
<1> QED BY <1>4, <1>5, <1>6, <1>7, <1>8, <1>9, <1>10, <1>11

\* No two dispatch calls serve the same route.
OneCallPerRoute == \A w, v \in Dispatchers : Serves[w] = Serves[v] => w = v

\* Every step keeps what each open call relies on.
LEMMA ExclusiveKeeps ==
    ASSUME OneCallPerRoute, DeliveryInv, ExclusiveInv, DeliveryNext,
           NEW w \in Dispatchers
    PROVE  OwnTail(disp[w], Serves[w])'
<1> USE DeliveryAssumption
<1> DEFINE r == Serves[w]
           c == disp[w]
<1>1. /\ MaxEvents \in Nat /\ r \in Receivers /\ c \in Call
      /\ disp \in [Dispatchers -> Call] /\ last \in [Receivers -> 0..MaxEvents]
      /\ OwnTail(c, r)
  BY DEF DeliveryInv, DeliveryTypeOK, ExclusiveInv
<1>2. CASE UNCHANGED <<disp, last>> /\ late' \subseteq late
  BY <1>1, <1>2, OwnFrame
<1>3. ASSUME NEW q \in Receivers, NEW s \in Events, ReceiveLate(q, s)
      PROVE  OwnTail(disp[w], Serves[w])'
  <2>1. /\ <<q, s>> \in late /\ late' \subseteq late /\ disp' = disp
        /\ watermark[q] < s /\ s <= route[q].tail
    BY <1>3 DEF ReceiveLate, DeliveryInv, LateOK
  <2>2. PICK a : Receive(q, s, a) BY SMTT(40), <1>3 DEF ReceiveLate
  <2>3. /\ last'[q] <= s \/ last'[q] = last[q]
        /\ r # q => last'[r] = last[r]
        /\ last' \in [Receivers -> 0..MaxEvents]
    BY <1>1, <2>1, <2>2, Received
  <2>4. CASE r # q BY SMTT(40), <1>1, <2>1, <2>3, <2>4, OwnFrame
  <2>5. CASE r = q
    <3>1. c.pc \in Active => last[r] <= c.tail /\ s <= c.tail
      BY <1>1, <2>1, <2>5 DEF OwnTail
    <3>2. c.tail \in Nat /\ s \in Nat /\ last'[r] \in Nat
      BY <1>1, <2>3 DEF Call, Events
    <3>3. c.pc \in Active => last'[r] <= c.tail
      BY <1>1, <2>3, <2>5, <3>1, <3>2
    <3> QED BY SMTT(40), <1>1, <2>1, <3>3 DEF OwnTail
  <2> QED BY <2>4, <2>5
<1>4. ASSUME NEW v \in Dispatchers, v # w,
             \/ ListPending(v) \/ ReadAcknowledged(v) \/ ReadKnownTail(v)
             \/ Send(v) \/ Finish(v) \/ RejectAck(v) \/ AckMovedBackwards(v)
             \/ AcceptAck(v) \/ Abandon(v) \/ \E a \in Ack : Answer(v, a)
      PROVE  OwnTail(disp[w], Serves[w])'
  <2>1. Serves[v] # r /\ Serves[v] \in Receivers BY <1>4 DEF OneCallPerRoute
  <2>2. disp'[w] = disp[w]
    BY SMTT(40), <1>1, <1>4 DEF ListPending, ReadAcknowledged, ReadKnownTail, Send, Finish,
          RejectAck, AckMovedBackwards, AcceptAck, Abandon, Answer
  <2>3. last'[r] = last[r]
    <3>1. ASSUME NEW a \in Ack, Answer(v, a) PROVE last'[r] = last[r]
      <4>1. /\ disp[v].pc = "sent" /\ Receive(Serves[v], disp[v].cur, a)
            /\ CallOK(disp[v], Serves[v]) /\ disp[v] \in Call
        BY SMTT(40), <1>1, <3>1 DEF Answer, DeliveryInv, CallsOK
      <4>2. /\ disp[v].cur \in Events /\ watermark[Serves[v]] < disp[v].cur
            /\ disp[v].cur <= route[Serves[v]].tail
        BY <4>1 DEF CallOK, Call
      <4> QED BY <1>1, <2>1, <4>1, <4>2, Received
    <3> QED BY SMTT(40), <1>4, <3>1 DEF ListPending, ReadAcknowledged, ReadKnownTail, Send,
          Finish, RejectAck, AckMovedBackwards, AcceptAck, Abandon, receiverVars
  <2>4. \A s \in Events : <<r, s>> \in late' => <<r, s>> \in late
    BY SMTT(40), <1>4, <2>1 DEF ListPending, ReadAcknowledged, ReadKnownTail, Send, Finish,
       RejectAck, AckMovedBackwards, AcceptAck, Abandon, Answer
  <2> QED BY <1>1, <2>2, <2>3, <2>4, OwnFrame
<1>5. CASE \/ AppendJournal
           \/ \E q \in Receivers : \/ \E to \in Events : Materialize(q, to)
                                   \/ Enqueue(q) \/ Prune(q)
                                   \/ \E s \in Events : LoseLate(q, s)
  BY ZenonT(40), <1>2, <1>5 DEF AppendJournal, Materialize, Enqueue, Prune, LoseLate, receiverVars
<1>6. CASE \E q \in Receivers, s \in Events : ReceiveLate(q, s) BY <1>3, <1>6
<1>7. ASSUME NEW v \in Dispatchers,
             \/ ListPending(v) \/ ReadAcknowledged(v) \/ ReadKnownTail(v)
             \/ Send(v) \/ Finish(v) \/ RejectAck(v) \/ AckMovedBackwards(v)
             \/ AcceptAck(v) \/ Abandon(v) \/ \E a \in Ack : Answer(v, a)
      PROVE  OwnTail(disp[w], Serves[w])'
  BY <1>1, <1>4, <1>7, OwnStep
<1> QED BY <1>5, <1>6, <1>7 DEF DeliveryNext

\* validate_logical_delivery_acknowledgement_for_sender refuses no answer of
\* a receiver while each route is dispatched by one caller at a time.
THEOREM HonestAnswersAccepted ==
    OneCallPerRoute => (DeliverySpec => []AcknowledgementAccepted)
<1> SUFFICES ASSUME OneCallPerRoute
             PROVE  DeliverySpec => []AcknowledgementAccepted
  OBVIOUS
<1>1. DeliveryInit => ExclusiveInv
  BY DeliveryAssumption DEF DeliveryInit, ExclusiveInv, OwnTail, Ended, Active
<1>2. DeliveryInv /\ ExclusiveInv /\ [DeliveryNext]_orderedVars => ExclusiveInv'
  <2>1. CASE DeliveryNext BY <2>1, ExclusiveKeeps DEF ExclusiveInv
  <2>2. CASE UNCHANGED orderedVars BY <2>2 DEF orderedVars, ExclusiveInv, OwnTail
  <2> QED BY <2>1, <2>2
<1>3. ExclusiveInv => AcknowledgementAccepted
  BY DEF ExclusiveInv, OwnTail, AcknowledgementAccepted
<1> QED BY <1>1, <1>2, <1>3, DeliveryInvariance, PTL DEF DeliverySpec

=============================================================================
