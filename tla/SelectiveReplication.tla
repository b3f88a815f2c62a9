------------------------ MODULE SelectiveReplication ------------------------
(***************************************************************************)
(* Selective replication of one database: immutable scope descriptors and  *)
(* their DBI ownership index, the designated writer's scope-local history, *)
(* scoped pull and push, the receiver's durable mode, and the foreground   *)
(* workers that pull and apply one scope each.                             *)
(*                                                                         *)
(* A batch is a function from the DBIs a transaction changed to the value  *)
(* it left there; its size is the number of its operations.  Writing a DBI *)
(* outside every scope is ChangeCapture's.                                 *)
(***************************************************************************)
EXTENDS Integers, Sequences, FiniteSets, SequencesExt, TLC

CONSTANTS
    Members, Dbis,
    Descriptors,    \* Descriptors[n]: [scope, writer, manifest] n's application may install
    Unfit,          \* Unfit[n]: DBIs of n with other flags or another sync owner
    Filled,         \* Filled[n]: DBIs of n with rows from before any scope
    Workers,        \* worker -> [at, peer, scope]: who pulls what from whom
    Drains,         \* drain_pages
    MaxPage, MaxBytes, MaxSingle,    \* page limits of a pull request
    MaxWrites,      \* bound: transactions at the designated writers
    MaxUpsets       \* bound: pushes, global applies, stops, lost answers

VARIABLES
    scopes,     \* SelectiveReplicationStore: scope -> descriptor
    bindings,   \* its DBI index: DBI -> [scope, writer]
    history,    \* ScopedChangeLogStore: scope -> sequence of batches
    progress,   \* ScopedProgressStore: scope -> last sequence
    content,       \* user data: DBI -> value, 0 for an empty DBI
    receiverMode,       \* ReceiverReplicationModeStore
    globalCursor,    \* _mdbxc_applied is not empty
    net,        \* scoped pushes on their way
    round,     \* state of a worker's run_once, or the result of its last one
    stopped,    \* workers whose m_cancel_source is cancelled; it stays so
    writes, upsets

storeVars == <<scopes, bindings, history, progress, content, receiverMode, globalCursor>>
selVars == <<storeVars, net, round, stopped, writes, upsets>>

Scopes == {d.scope : d \in UNION Range(Descriptors)}
NoMode == [kind |-> "none", scopes |-> {}]
Full == [kind |-> "full", scopes |-> {}]
IdleRound == [pc |-> "idle", have |-> 0, page |-> << >>, desc |-> << >>, tail |-> 0,
         more |-> FALSE, result |-> "none"]

Upset == upsets < MaxUpsets /\ upsets' = upsets + 1

SelInit ==
    /\ scopes = [n \in Members |-> << >>] /\ bindings = [n \in Members |-> << >>]
    /\ history = [n \in Members |-> [s \in Scopes |-> << >>]]
    /\ progress = [n \in Members |-> [s \in Scopes |-> 0]]
    /\ content = [n \in Members |-> [d \in Dbis |-> IF d \in Filled[n] THEN -1 ELSE 0]]
    /\ receiverMode = [n \in Members |-> NoMode] /\ globalCursor \in [Members -> BOOLEAN]
    /\ net = {} /\ round = [w \in DOMAIN Workers |-> IdleRound] /\ stopped = {}
    /\ writes = 0 /\ upsets = 0

-----------------------------------------------------------------------------
(* Descriptors. *)

BindingOf(desc) == [scope |-> desc.scope, writer |-> desc.writer]

(* register_or_verify: an immutable descriptor, one scope per DBI. *)
Registerable(n, desc) ==
    /\ desc.scope \in DOMAIN scopes[n] => scopes[n][desc.scope] = desc
    /\ \A d \in desc.manifest \cap DOMAIN bindings[n] : bindings[n][d] = BindingOf(desc)

PutDescriptor(n, desc) ==
    /\ scopes' = [scopes EXCEPT ![n] = (desc.scope :> desc) @@ @]
    /\ bindings' = [bindings EXCEPT ![n] =
                        [d \in desc.manifest |-> BindingOf(desc)] @@ @]

(* validate_selective_descriptor_for_apply *)
Fits(n, desc) == desc.manifest \cap Unfit[n] = {}

(* A new scope at its designated writer starts from empty DBIs. *)
EmptyAtWriter(n, desc) ==
    (desc.scope \notin DOMAIN scopes[n] /\ desc.writer = n)
        => \A d \in desc.manifest : content[n][d] = 0

RegisterScope(n, desc) ==
    /\ Fits(n, desc) /\ Registerable(n, desc) /\ EmptyAtWriter(n, desc)
    /\ PutDescriptor(n, desc)
    /\ scopes' # scopes
    /\ UNCHANGED <<history, progress, content, receiverMode, globalCursor, net, round, stopped, writes, upsets>>

-----------------------------------------------------------------------------
(* The designated writer. *)

(* find_existing_for_dbi, and the write guard that asks it *)
Bound(n, d) == d \in DOMAIN bindings[n]
WriterOf(n, d) == bindings[n][d].writer
WriteAllowed(n, ds) == \A d \in ds : Bound(n, d) => WriterOf(n, d) = n

(* ScopedChangeLogStore and ScopedProgressStore *)
AppendHistory(n, s, batches) == history' = [history EXCEPT ![n][s] = @ \o batches]
LastSequence(n, s) == progress[n][s]
SetLastSequence(n, s, seq) == progress' = [progress EXCEPT ![n][s] = seq]

(* The scoped flush: the changed DBIs are of one scope; data, history and  *)
(* progress commit together.                                               *)
Write(n, ds) ==
    /\ writes < MaxWrites
    /\ ds # {} /\ \A d \in ds : Bound(n, d)
    /\ WriteAllowed(n, ds)
    /\ LET batch == [d \in ds |-> writes + 1]
       IN \E s \in Scopes :
             /\ \A d \in ds : bindings[n][d].scope = s
             /\ content' = [content EXCEPT ![n] = batch @@ @]
             /\ AppendHistory(n, s, <<batch>>)
             /\ SetLastSequence(n, s, LastSequence(n, s) + 1)
    /\ writes' = writes + 1
    /\ UNCHANGED <<scopes, bindings, receiverMode, globalCursor, net, round, stopped, upsets>>

(* The page handle_scoped_pull fills from `have': up to max_batches, ended *)
(* by the first batch beyond the soft byte limit.                          *)
Size(batch) == Cardinality(DOMAIN batch)
PageLength(log, have) ==
    LET bytes(k) == FoldLeft(LAMBDA acc, b : acc + Size(b), 0, SubSeq(log, have + 1, have + k))
        fits == {k \in 1..Len(log) - have : k <= MaxPage /\ (k = 1 \/ bytes(k) <= MaxBytes)}
    IN CHOOSE k \in fits : \A j \in fits : j <= k

(* A batch over the hard limit fails the pull as soon as it is read, also  *)
(* when it is the one that ends the page.                                  *)
ReadsTooLarge(log, have) ==
    LET k == PageLength(log, have)
    IN \E i \in have + 1..have + (IF k < MaxPage THEN k + 1 ELSE k) :
           i <= Len(log) /\ Size(log[i]) > MaxSingle

(* Nothing after the receiver's cursor.  Mutant: off by one. *)
UpToDateEarly(have, tail) == have + 1 >= tail
UpToDate(have, tail) == have = tail
(* Mutant: the last batch of the tail is not counted. *)
HasMoreEarly(end, tail) == end + 1 < tail
HasMore(end, tail) == end < tail

(* handle_scoped_pull at node p *)
Refused(code) == [ok |-> FALSE, code |-> code]
PullAnswer(p, s, have) ==
    LET log == history[p][s]
        tail == progress[p][s]
        answer(batches) ==
            [ok |-> TRUE, desc |-> scopes[p][s], tail |-> tail, batches |-> batches,
             more |-> HasMore(have + Len(batches), tail)]
    IN CASE s \notin DOMAIN scopes[p] -> Refused("mismatch")
         [] scopes[p][s].writer # p -> Refused("wrong_writer")
         [] have > tail -> Refused("gap")
         [] UpToDate(have, tail) -> answer(<< >>)
         [] ReadsTooLarge(log, have) -> Refused("too_large")
         [] OTHER -> answer(SubSeq(log, have + 1, have + PageLength(log, have)))

(* make_scoped_push_request of the sequences from..to *)
PushRequest(n, s, from, to) ==
    [sender |-> n, desc |-> scopes[n][s], from |-> from,
     batches |-> SubSeq(history[n][s], from, to)]

MakePush(n, s) ==
    /\ Upset
    /\ s \in DOMAIN scopes[n] /\ scopes[n][s].writer = n
    /\ \E from, to \in 1..LastSequence(n, s) :
          from <= to /\ net' = net \cup {PushRequest(n, s, from, to)}
    /\ UNCHANGED <<storeVars, round, stopped, writes>>

-----------------------------------------------------------------------------
(* The receiver. *)

(* validate_scoped_batch_for_descriptor *)
InManifest(desc, batches) == \A i \in 1..Len(batches) : DOMAIN batches[i] \subseteq desc.manifest

(* claim_selective, behind the check for an older global cursor. *)
Claimable(n) == /\ receiverMode[n].kind # "full"
                /\ receiverMode[n].kind = "none" => ~globalCursor[n]

(* claim_selective's record. *)
ClaimScope(n, s) ==
    receiverMode' = [receiverMode EXCEPT ![n] = [kind |-> "selective", scopes |-> @.scopes \cup {s}]]

(* claim_full_global. *)
FullClaimable(n) == receiverMode[n].kind # "selective"
ClaimFullGlobal(n) == receiverMode' = [receiverMode EXCEPT ![n] = Full]

(* A batch at or below the cursor equals the retained one. *)
DuplicatesMatch(n, s, from, batches) ==
    \A i \in 1..Len(batches) :
        from + i - 1 <= progress[n][s] => history[n][s][from + i - 1] = batches[i]

(* The batches after the cursor.  Mutant: every batch of the request. *)
NewBatchesAll(n, s, from, batches) == batches
NewBatches(n, s, from, batches) ==
    IF from > progress[n][s] THEN batches
    ELSE SubSeq(batches, progress[n][s] - from + 2, Len(batches))

(* What handle_scoped_push answers, in the order of its checks. *)
PushVerdict(n, r) ==
    LET s == r.desc.scope
    IN CASE r.sender # r.desc.writer -> "wrong_writer"
         [] ~InManifest(r.desc, r.batches) -> "out_of_scope"
         [] ~Claimable(n) -> "mode_conflict"
         [] ~Fits(n, r.desc) \/ ~Registerable(n, r.desc) -> "mismatch"
         [] ~DuplicatesMatch(n, s, r.from, r.batches) -> "duplicate_differs"
         [] r.from > progress[n][s] + 1 -> "gap"
         [] OTHER -> "ok"

(* One write transaction: mode, descriptor, data, evidence and progress.    *)
ApplyScoped(n, r) ==
    LET s == r.desc.scope
        fresh == NewBatches(n, s, r.from, r.batches)
    IN IF PushVerdict(n, r) # "ok" THEN UNCHANGED storeVars
       ELSE /\ ClaimScope(n, s)
            /\ PutDescriptor(n, r.desc)
            /\ content' = [content EXCEPT ![n] = FoldLeft(LAMBDA acc, b : b @@ acc, @, fresh)]
            /\ AppendHistory(n, s, fresh)
            /\ SetLastSequence(n, s, LastSequence(n, s) + Len(fresh))
            /\ UNCHANGED globalCursor

(* A push arrives at any other node; copies of it may still follow. *)
HandleScopedPush(n, r) ==
    /\ r.sender # n
    /\ ApplyScoped(n, r)
    /\ net' \in {net, net \ {r}}
    /\ UNCHANGED <<round, stopped, writes, upsets>>

(* apply_batch_ex of a global raw batch for a DBI outside every scope *)
GlobalApply(n) ==
    /\ Upset
    /\ FullClaimable(n) /\ ClaimFullGlobal(n)
    /\ globalCursor' = [globalCursor EXCEPT ![n] = TRUE]
    /\ UNCHANGED <<scopes, bindings, history, progress, content, net, round, stopped, writes>>

-----------------------------------------------------------------------------
(* SelectiveSyncWorker::run_once. *)

RoundEnded(w, result) == round' = [round EXCEPT ![w] = [IdleRound EXCEPT !.result = result]]
Finished(w, tail, more) ==
    round' = [round EXCEPT ![w] = [IdleRound EXCEPT !.result = "ok", !.tail = tail, !.more = more]]

(* Hello, then the scope's durable cursor. *)
BeginRound(w) ==
    LET k == Workers[w]
    IN /\ round[w].pc = "idle"
       /\ round' = [round EXCEPT ![w] = [IdleRound EXCEPT !.pc = "pull",
                         !.have = LastSequence(k.at, k.scope)]]
       /\ UNCHANGED <<storeVars, net, stopped, writes, upsets>>

(* One page is pulled.  A page without batches ends the round. *)
PullPage(w) ==
    LET k == Workers[w]
        a == PullAnswer(k.peer, k.scope, round[w].have)
    IN /\ round[w].pc = "pull"
       /\ IF w \in stopped THEN RoundEnded(w, "cancelled")
          ELSE IF ~a.ok THEN RoundEnded(w, a.code)
          ELSE IF a.batches # << >>
          THEN round' = [round EXCEPT ![w] = [@ EXCEPT !.pc = "apply",
                   !.page = a.batches, !.desc = a.desc, !.tail = a.tail, !.more = a.more]]
          ELSE IF a.more THEN RoundEnded(w, "no_progress") ELSE Finished(w, a.tail, FALSE)
       /\ UNCHANGED <<storeVars, net, stopped, writes, upsets>>

(* The peer's answer is lost: scoped_pull throws. *)
LosePage(w) ==
    /\ Upset
    /\ round[w].pc = "pull"
    /\ RoundEnded(w, "error")
    /\ UNCHANGED <<storeVars, net, stopped, writes>>

(* The page is applied as a push of the peer, then the next page is pulled. *)
ApplyPage(w) ==
    LET k == Workers[w]
        c == round[w]
        r == [sender |-> k.peer, desc |-> c.desc, from |-> c.have + 1, batches |-> c.page]
        verdict == IF w \in stopped THEN "cancelled" ELSE PushVerdict(k.at, r)
        next == progress'[k.at][k.scope]
    IN /\ c.pc = "apply"
       /\ IF verdict = "ok" THEN ApplyScoped(k.at, r) ELSE UNCHANGED storeVars
       /\ IF verdict # "ok" THEN RoundEnded(w, verdict)
          ELSE IF next <= c.have THEN RoundEnded(w, "no_progress")
          ELSE IF c.more /\ Drains
          THEN round' = [round EXCEPT ![w] = [IdleRound EXCEPT !.pc = "pull", !.have = next]]
          ELSE Finished(w, c.tail, c.more)
       /\ UNCHANGED <<net, stopped, writes, upsets>>

StopRounds(w) ==
    /\ Upset
    /\ stopped' = stopped \cup {w} /\ w \notin stopped
    /\ UNCHANGED <<storeVars, net, round, writes>>

SelNext ==
    \/ \E n \in Members :
          \/ \E desc \in Descriptors[n] : RegisterScope(n, desc)
          \/ \E ds \in SUBSET Dbis : Write(n, ds)
          \/ \E s \in Scopes : MakePush(n, s)
          \/ \E r \in net : HandleScopedPush(n, r)
          \/ GlobalApply(n)
    \/ \E w \in DOMAIN Workers :
          BeginRound(w) \/ PullPage(w) \/ LosePage(w) \/ ApplyPage(w) \/ StopRounds(w)

SelSpec == SelInit /\ [][SelNext]_selVars

(* The application runs rounds again and again; a started round goes on.    *)
SelFairness ==
    \A w \in DOMAIN Workers : WF_selVars(BeginRound(w) \/ PullPage(w) \/ ApplyPage(w))
SelFairSpec == SelSpec /\ SelFairness

-----------------------------------------------------------------------------
(* Every store and worker keeps its type; a mode record is canonical. *)
SelTypeOK ==
    /\ \A n \in Members : DOMAIN scopes[n] \subseteq Scopes /\ DOMAIN bindings[n] \subseteq Dbis
    /\ progress \in [Members -> [Scopes -> 0..MaxWrites]]
    /\ content \in [Members -> [Dbis -> -1..MaxWrites]]
    /\ \A n \in Members : \/ receiverMode[n] \in {NoMode, Full}
                          \/ (receiverMode[n].kind = "selective" /\ receiverMode[n].scopes # {})
    /\ globalCursor \in [Members -> BOOLEAN]
    /\ \A w \in DOMAIN Workers : round[w].pc \in {"idle", "pull", "apply"}

(* Whatever pages, pushes, duplicates, refusals and concurrent rounds do, a *)
(* receiver's history of a scope is a prefix of its designated writer's, as *)
(* long as its cursor says, and its DBIs hold what that prefix leaves in    *)
(* them; the writer's own DBIs hold nothing its history does not explain.   *)
ReplicaIsPrefix ==
    \A n \in Members : \A s \in DOMAIN scopes[n] :
        LET desc == scopes[n][s]
            log == history[n][s]
            at(d) == {i \in 1..Len(log) : d \in DOMAIN log[i]}
        IN /\ progress[n][s] = Len(log)
           /\ IsPrefix(log, history[desc.writer][s])
           /\ \A d \in desc.manifest :
                 IF at(d) = {} THEN n = desc.writer => content[n][d] = 0
                 ELSE content[n][d] = log[CHOOSE i \in at(d) : \A j \in at(d) : j <= i][d]

(* register_or_verify, reached by registration and by pushes of several     *)
(* writers: no DBI of a node belongs to two scopes, and the DBI index that  *)
(* guards local writes is exactly the one its descriptors define.           *)
ScopesDisjoint ==
    \A n \in Members :
        /\ DOMAIN bindings[n] = UNION {scopes[n][s].manifest : s \in DOMAIN scopes[n]}
        /\ \A s \in DOMAIN scopes[n] : \A d \in scopes[n][s].manifest :
               bindings[n][d] = BindingOf(scopes[n][s])

(* A receiver is fed by the global stream or by scopes, never by both: a    *)
(* global cursor excludes scoped progress of another writer, and the mode   *)
(* record names every scope whose history came from elsewhere.              *)
StreamsExclusive ==
    \A n \in Members :
        LET received == {s \in DOMAIN scopes[n] : scopes[n][s].writer # n /\ progress[n][s] > 0}
        IN /\ globalCursor[n] => received = {}
           /\ received \subseteq receiverMode[n].scopes

(* run_once: a round that ends well and says there is no more has brought   *)
(* the receiver to the tail it reports, also when another worker or a push  *)
(* moved the cursor during the round.                                       *)
RoundReachesTail ==
    \A w \in DOMAIN Workers :
        (round[w].pc = "idle" /\ round[w].result = "ok" /\ ~round[w].more)
            => progress[Workers[w].at][Workers[w].scope] >= round[w].tail

(* Rounds that are run again and again bring a receiver to its writer's     *)
(* tail and keep it there, for every scope its mode, its descriptors and    *)
(* the batch limit admit, however many pages, lost answers, late pushes and *)
(* other workers there are.                                                 *)
Admitted(w) ==
    LET k == Workers[w]
        desc == scopes[k.peer][k.scope]
        log == history[k.peer][k.scope]
    IN /\ w \notin stopped
       /\ k.scope \in DOMAIN scopes[k.peer] /\ desc.writer = k.peer
       /\ Claimable(k.at) /\ Fits(k.at, desc) /\ Registerable(k.at, desc)
       /\ \A i \in 1..Len(log) : Size(log[i]) <= MaxSingle
ScopedCatchUp ==
    \A w \in DOMAIN Workers :
        <>[](Admitted(w) => progress[Workers[w].at][Workers[w].scope]
                              = progress[Workers[w].peer][Workers[w].scope])
=============================================================================
