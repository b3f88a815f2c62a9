---------------------------- MODULE FullSnapshot ----------------------------
(***************************************************************************)
(* Full snapshots between one source engine and one receiver engine: the   *)
(* source's bounded in-memory sessions and their pages, the receiver's     *)
(* staged import, kept in memory and, when asked, in a staging DBI, and    *)
(* the one transaction of the final page.  The same sessions serve the     *)
(* logical-aware recovery, which adds a baseline to the final page.        *)
(*                                                                         *)
(* A handler runs in the steps its locks and its read transaction give it. *)
(* Byte limits are counts of operations: the room of a page, the budget of *)
(* a materialisation, the bound of the staging.  A logical baseline is the *)
(* number of its moment and spends one operation.                          *)
(***************************************************************************)
EXTENDS Naturals, Sequences, FiniteSets, SequencesExt, TLC

CONSTANTS
    Dbis, Own,      \* user DBIs in name order; a row of the receiver's own
    Handlers,       \* threads serving handle_full_snapshot_pull
    Rooms,          \* operations that fit a page; 0: not even one does
    Exports,        \* the FullSnapshotExportOptions an application sets
    Sources,        \* initial [data, tail, logical, versioned] of a source
    Targets,        \* initial states of a receiver
    MaxStaged,      \* max_staged_operations
    Commits,        \* commits at the source: <<dbi, row, raw capture>>
    MaxSessions,    \* bound: sessions per run of the source process
    MaxUpsets       \* bound: events neither engine asked for, see Upset

VARIABLES
    source,     \* [data, tail, logical, versioned]
    export,     \* m_full_snapshot_options
    sessions,   \* m_full_snapshot_sessions: id -> session
    creating,   \* m_full_snapshot_creating
    lastId,     \* m_next_full_snapshot_session_id
    calls,      \* calls[h]: the request handler h serves
    waits,      \* the handler the receiver's caller waits for
    reply,      \* the last answer it got
    staged,     \* m_full_snapshot_import_session
    disk,       \* FullSnapshotImportStore: the persisted pages
    persist,    \* persist_complete_staging
    target,     \* the receiver's database
    captures,   \* history: every state a session captured
    upsets      \* how many such events happened

sourceVars == <<source, export, sessions, creating, lastId, calls, captures>>
targetVars == <<staged, disk, persist, target>>
snapVars == <<sourceVars, targetVars, waits, reply, upsets>>

DbiSet == Range(Dbis)
NoImport == [id |-> 0]
NoReply == [ok |-> FALSE, code |-> "none"]
NoToken == [id |-> 0, index |-> 0, next |-> 0]
Free == [pc |-> "idle"]

Refusals == {"none", "not_configured", "busy", "invalid", "logical_state",
             "versioned", "too_large", "error", "cancelled"}

(* Restarts, reconfigurations, timeouts, other callers, commits elsewhere. *)
Upset == upsets < MaxUpsets /\ upsets' = upsets + 1

T == INSTANCE SnapshotTransfer WITH Dbis <- DbiSet
Rows(data, d) == T!Rows(data, d)

SnapInit ==
    /\ source \in Sources /\ target \in Targets
    /\ export \in Exports
    /\ sessions = << >> /\ creating = 0 /\ lastId = 0
    /\ calls = [h \in Handlers |-> Free]
    /\ waits = "nobody" /\ reply = NoReply
    /\ staged = NoImport /\ disk = << >> /\ persist \in BOOLEAN
    /\ captures = {} /\ upsets \in 0..MaxUpsets

-----------------------------------------------------------------------------
(* The source: materialisation. *)

(* enumerate_user_snapshot_manifest, or the configured manifest *)
ManifestOf(options) == IF options.scope = "complete" THEN DOMAIN source.data
                                                     ELSE options.manifest

ClearOp(d) == [op |-> "clear", dbi |-> d, row |-> 0]
PutOp(d, row) == [op |-> "put", dbi |-> d, row |-> row]

(* Every manifest DBI in name order: one clear, then its rows in key order. *)
OperationsOf(manifest) ==
    LET one(d) == <<ClearOp(d)>> \o
                  [i \in DOMAIN SetToSortSeq(source.data[d], <) |->
                      PutOp(d, SetToSortSeq(source.data[d], <)[i])]
        named == SelectSeq(Dbis, LAMBDA d : d \in manifest)
    IN FlattenSeq([i \in DOMAIN named |-> one(named[i])])

(* What a baseline costs a materialisation, and a staging: its entries. *)
BaselineCost(logical) == IF logical THEN source.logical ELSE 0
BaselineSize(chunk) == chunk.base
BaselineFits(s, chunk) == Len(s.ops) + BaselineSize(chunk) <= MaxStaged

(* Why materialize_full_snapshot throws, in the order of its checks. *)
MaterializeRefusal(options, logical) ==
    LET manifest == ManifestOf(options)
        complete == options.scope = "complete"
        absent == manifest \ DOMAIN source.data # {}
        cost == (IF absent THEN 0 ELSE Len(OperationsOf(manifest)))
                + BaselineCost(logical)
    IN CASE ~logical /\ complete /\ source.logical > 0 -> "logical_state"
         [] manifest \cap source.versioned # {} -> "versioned"
         [] complete /\ manifest = {} -> "error"
         [] absent -> "error"
         [] cost > options.budget -> "too_large"
         [] OTHER -> "none"

(* The tail is read only for the complete scope. *)
ImageOf(options, logical) ==
    LET complete == options.scope = "complete"
    IN [data |-> [d \in ManifestOf(options) |-> source.data[d]],
        tail |-> IF complete THEN source.tail ELSE 0,
        base |-> IF logical THEN source.logical ELSE 0,
        complete |-> complete, logical |-> logical]

MaterializedSession(options, logical, who) ==
    [who |-> who, image |-> ImageOf(options, logical),
     ops |-> OperationsOf(ManifestOf(options)), tokens |-> {}, idle |-> FALSE]

(* prune_expired_full_snapshot_sessions_locked *)
Live(ss) == [i \in {i \in DOMAIN ss : ~ss[i].idle} |-> ss[i]]

Answer(h, r) == /\ reply' = IF waits = h THEN r ELSE reply
                /\ waits' = IF waits = h THEN "nobody" ELSE waits
Refuse(h, code) == /\ Answer(h, [ok |-> FALSE, code |-> code])
                   /\ calls' = [calls EXCEPT ![h] = Free]

(* The slots in use.  Mutant: sessions still being made are forgotten. *)
OccupiedPublished(live) == Cardinality(DOMAIN live)
Occupied(live) == Cardinality(DOMAIN live) + creating

(* Under m_full_snapshot_mutex: configuration, capacity, then a slot and an id. *)
BeginSession(h) ==
    LET c == calls[h]
        live == Live(sessions)
        refusal ==
            CASE export.scope = "none" -> "not_configured"
              [] c.logical /\ export.scope # "complete" -> "not_configured"
              [] Occupied(live) >= export.capacity -> "busy"
              [] OTHER -> "none"
    IN /\ c.pc = "new" /\ lastId < MaxSessions
       /\ sessions' = live
       /\ IF refusal # "none"
          THEN Refuse(h, refusal) /\ UNCHANGED <<creating, lastId>>
          ELSE /\ creating' = creating + 1 /\ lastId' = lastId + 1
               /\ calls' = [calls EXCEPT ![h].pc = "making", ![h].id = lastId + 1,
                                         ![h].options = export]
               /\ UNCHANGED <<waits, reply>>
       /\ UNCHANGED <<source, export, captures, targetVars, upsets>>

(* One read transaction, outside the lock. *)
MaterializeSession(h) ==
    LET c == calls[h]
        refusal == MaterializeRefusal(c.options, c.logical)
    IN /\ c.pc = "making"
       /\ IF refusal # "none"
          THEN Refuse(h, refusal) /\ creating' = creating - 1 /\ UNCHANGED captures
          ELSE /\ calls' = [calls EXCEPT ![h].pc = "made",
                      ![h].made = MaterializedSession(c.options, c.logical, c.who)]
               /\ captures' = captures \cup {ImageOf(c.options, c.logical)}
               /\ UNCHANGED <<creating, waits, reply>>
       /\ UNCHANGED <<source, export, sessions, lastId, targetVars, upsets>>

(* The caller's token is cancelled before the session is published. *)
CancelSession(h) ==
    /\ Upset
    /\ calls[h].pc \in {"making", "made"}
    /\ creating' = creating - 1
    /\ Refuse(h, "cancelled")
    /\ UNCHANGED <<source, export, sessions, lastId, captures, targetVars>>

PublishSession(h) ==
    LET c == calls[h]
    IN /\ c.pc = "made"
       /\ creating' = creating - 1
       /\ sessions' = (c.id :> c.made) @@ Live(sessions)
       /\ calls' = [calls EXCEPT ![h].pc = "page", ![h].made = NoImport,
                                 ![h].options = NoImport]
       /\ UNCHANGED <<source, export, lastId, captures, waits, reply, targetVars, upsets>>

FindSession(h) ==
    LET c == calls[h]
        live == Live(sessions)
    IN /\ c.pc = "next"
       /\ sessions' = live
       /\ IF c.id \in DOMAIN live /\ live[c.id].image.logical = c.logical
          THEN /\ calls' = [calls EXCEPT ![h].pc = "page"]
               /\ UNCHANGED <<waits, reply>>
          ELSE Refuse(h, "invalid")
       /\ UNCHANGED <<source, export, creating, lastId, captures, targetVars, upsets>>

(* make_full_snapshot_page from operation `start' (0-based).  A token is   *)
(* stored for every end the page tried, the one that did not fit included. *)
PageOf(id, s, start, index, room) ==
    LET total == Len(s.ops)
        end == IF start + room < total THEN start + room ELSE total
        more == end < total
    IN [ok |-> TRUE, id |-> id, index |-> index, more |-> more,
        token |-> IF more THEN [id |-> id, index |-> index + 1, next |-> end]
                          ELSE NoToken,
        ops |-> SubSeq(s.ops, start + 1, end),
        tail |-> s.image.tail, complete |-> s.image.complete,
        manifest |-> DOMAIN s.image.data, logical |-> s.image.logical,
        base |-> IF more THEN 0 ELSE s.image.base]
TokensOf(id, s, start, index, room) ==
    {[id |-> id, index |-> index + 1, next |-> n] :
        n \in {n \in (start + 1)..(start + room + 1) : n < Len(s.ops)}}

(* Where a page starts. *)
PageStart(token) == IF token = NoToken THEN 0 ELSE token.next

(* Under the session's mutex: owner, continuation, still published, page. *)
ServePage(h) ==
    LET c == calls[h]
        s == sessions[c.id]
        first == c.token = NoToken
        start == PageStart(c.token)
        index == IF first THEN 0 ELSE c.token.index
        valid == /\ c.id \in DOMAIN sessions
                 /\ s.who = c.who
                 /\ first \/ c.token \in s.tokens
    IN /\ c.pc = "page"
       /\ calls' = [calls EXCEPT ![h] = Free]
       /\ IF ~valid
          THEN Answer(h, [ok |-> FALSE, code |-> "invalid"]) /\ UNCHANGED sessions
          ELSE /\ sessions' = [sessions EXCEPT ![c.id].idle = FALSE,
                    ![c.id].tokens = @ \cup TokensOf(c.id, s, start, index, c.room)]
               /\ IF c.room = 0
                  THEN Answer(h, [ok |-> FALSE, code |-> "too_large"])
                  ELSE Answer(h, PageOf(c.id, s, start, index, c.room))
       /\ UNCHANGED <<source, export, creating, lastId, captures, targetVars, upsets>>

(* set_full_snapshot_export_options; never while an export is being made. *)
SetExportOptions ==
    /\ Upset
    /\ \A h \in Handlers : calls[h].pc \notin {"making", "made"}
    /\ \E o \in Exports : export' = o /\ o # export
    /\ sessions' = << >>
    /\ UNCHANGED <<source, creating, lastId, calls, captures, waits, reply, targetVars>>

(* session_idle_timeout passes without an access. *)
IdleTimeout ==
    /\ Upset
    /\ sessions' = [i \in DOMAIN sessions |-> [sessions[i] EXCEPT !.idle = TRUE]]
    /\ calls' = [h \in Handlers |-> IF calls[h].pc = "made"
                                    THEN [calls[h] EXCEPT !.made.idle = TRUE]
                                    ELSE calls[h]]
    /\ <<sessions, calls>>' # <<sessions, calls>>
    /\ UNCHANGED <<source, export, creating, lastId, captures, waits, reply, targetVars>>

(* A commit at the source: raw capture moves its tail, logical capture its *)
(* logical state.                                                          *)
SourceCommit ==
    /\ Upset
    /\ \E <<d, row, raw>> \in Commits :
          /\ d \in DOMAIN source.data
          /\ source' = [source EXCEPT
                 !.data[d] = IF row \in @ THEN @ \ {row} ELSE @ \cup {row},
                 !.tail = IF raw THEN @ + 1 ELSE @,
                 !.logical = IF raw THEN @ ELSE @ + 1]
    /\ UNCHANGED <<export, sessions, creating, lastId, calls, captures, waits, reply,
                   targetVars>>

(* The process stops: sessions and the id counter lived in memory only. *)
SourceRestart ==
    /\ Upset
    /\ sessions' = << >> /\ creating' = 0 /\ lastId' = 0
    /\ calls' = [h \in Handlers |-> Free]
    /\ waits' = "nobody" /\ reply' = NoReply
    /\ UNCHANGED <<source, export, captures, targetVars>>

-----------------------------------------------------------------------------
(* The receiver: staging and import. *)

(* make_full_snapshot_import_session *)
NewImport(chunk) ==
    [id |-> chunk.id, tail |-> chunk.tail, complete |-> chunk.complete,
     manifest |-> chunk.manifest, logical |-> chunk.logical,
     next |-> 0, token |-> NoToken, ops |-> << >>]

(* full_snapshot_metadata_matches *)
Matches(s, chunk) ==
    /\ s.id = chunk.id /\ s.tail = chunk.tail
    /\ s.complete = chunk.complete /\ s.manifest = chunk.manifest

(* append_full_snapshot_import_chunk: every operation within the manifest,  *)
(* each DBI cleared once, before its puts.                                  *)
Continues(s, chunk) ==
    LET all == s.ops \o chunk.ops
    IN \A i \in Len(s.ops) + 1..Len(all) :
          /\ all[i].dbi \in s.manifest
          /\ (\E j \in 1..i - 1 : all[j] = ClearOp(all[i].dbi)) <=> all[i].op = "put"
(* And the staging stays within its bound. *)
Appendable(s, chunk) ==
    Continues(s, chunk) /\ Len(s.ops) + Len(chunk.ops) <= MaxStaged

Appended(s, chunk) == [s EXCEPT !.ops = @ \o chunk.ops, !.next = @ + 1,
                                !.token = chunk.token]

(* persist_full_snapshot_import_chunk_locked *)
SavePage(pages, chunk) == IF persist /\ ~chunk.logical /\ chunk.complete
                          THEN Append(pages, chunk) ELSE pages

(* restore_persisted_full_snapshot_import_locked *)
Restored == IF disk = << >> THEN NoImport
            ELSE FoldLeft(Appended, NewImport(disk[1]), disk)

(* The import a call of the engine works on. *)
Active(logical) == IF staged = NoImport /\ persist /\ ~logical THEN Restored ELSE staged

(* The manifest DBIs are empty, with the captured flags.  Mutant: whatever *)
(* the application wrote there is replaced.                                *)
EmptyManifestAny(s) == TRUE
EmptyManifest(s) ==
    \A d \in s.manifest : Rows(target.data, d) = {} /\ d \notin target.otherFlags

(* require_complete_full_snapshot_replacement_plan, then the checks of the *)
(* final transaction in their order.                                       *)
Importable(s, chunk) ==
    /\ \A d \in s.manifest : ClearOp(d) \in Range(s.ops)
    /\ target.identity = "distinct" \/ (target.identity = "in_tail" /\ ~s.complete)
    /\ target.local = 0 /\ target.applied = 0
    /\ s.complete => DOMAIN target.data \subseteq s.manifest
    /\ EmptyManifest(s)
    /\ (s.complete /\ ~s.logical) => target.mode # "selective"
    /\ s.logical => /\ target.base = 0 /\ target.adapters
                    /\ BaselineFits(s, chunk)

(* apply_one_op over the staged plan *)
Applied(data, ops) ==
    LET step(acc, o) == (o.dbi :> IF o.op = "clear" THEN {}
                                  ELSE Rows(acc, o.dbi) \cup {o.row}) @@ acc
    IN FoldLeft(step, data, ops)

Imported(s, chunk) ==
    [target EXCEPT !.data = Applied(@, s.ops),
                   !.applied = IF s.complete THEN s.tail ELSE @,
                   !.base = IF s.logical THEN chunk.base ELSE @,
                   !.mode = IF s.complete /\ ~s.logical THEN "full" ELSE @]

(* apply_full_snapshot_chunk and apply_logical_recovery_chunk.  Any failure *)
(* drops the in-memory import.                                              *)
ApplyChunk ==
    LET chunk == reply
        found == Active(chunk.logical)
        start == found = NoImport
        s == IF start THEN NewImport(chunk) ELSE found
        drops == start /\ ~chunk.logical /\ chunk.complete /\ ~persist
        accepted == /\ chunk.index = s.next /\ Matches(s, chunk)
                    /\ s.logical = chunk.logical /\ Appendable(s, chunk)
        next == Appended(s, chunk)
        afterDrop == IF drops THEN << >> ELSE disk
    IN /\ reply.ok
       /\ chunk.manifest \cap target.versioned = {}
       /\ \/ /\ ~accepted
             /\ staged' = NoImport /\ UNCHANGED <<disk, target>>
          \/ /\ accepted /\ chunk.more
             /\ staged' = next
             /\ disk' = SavePage(afterDrop, chunk)
             /\ UNCHANGED target
          \/ /\ accepted /\ ~chunk.more /\ Importable(next, chunk)
             /\ target' = Imported(next, chunk)
             /\ staged' = NoImport
             /\ disk' = IF next.complete /\ ~next.logical THEN << >> ELSE afterDrop
          \/ /\ accepted /\ ~chunk.more /\ ~Importable(next, chunk)
             /\ staged' = NoImport /\ disk' = afterDrop /\ UNCHANGED target
       /\ UNCHANGED <<sourceVars, waits, reply, persist, upsets>>

(* A transaction of such a call fails: the discard of older staging, the   *)
(* persisted page or the final one.                                        *)
ApplyFails ==
    /\ Upset
    /\ reply.ok /\ ~reply.logical /\ reply.complete
    /\ staged' = NoImport
    /\ disk' = disk \/ (~persist /\ reply.index = 0 /\ disk' = << >>)
    /\ UNCHANGED <<sourceVars, waits, reply, persist, target>>

(* The receiver's caller: continue what is staged, resumed from the staging  *)
(* DBI if need be (full_snapshot_import_resume), else ask for a new session. *)
Send(h) ==
    LET known == Active(FALSE)
        call(pc, logical, id, token, room) ==
            [pc |-> pc, who |-> "receiver", logical |-> logical, id |-> id,
             token |-> token, room |-> room, options |-> NoImport, made |-> NoImport]
    IN /\ calls[h].pc = "idle" /\ waits = "nobody"
       /\ \E room \in Rooms :
             \/ /\ known # NoImport
                /\ calls' = [calls EXCEPT ![h] =
                       call("next", known.logical, known.id, known.token, room)]
             \/ /\ known = NoImport
                /\ \E logical \in BOOLEAN :
                      calls' = [calls EXCEPT ![h] = call("new", logical, 0, NoToken, room)]
       /\ staged' = known /\ waits' = h /\ reply' = NoReply
       /\ UNCHANGED <<source, export, sessions, creating, lastId, captures, disk, persist,
                      target, upsets>>

(* Another receiver asks the same source, one request at a time. *)
SendOther(h) ==
    /\ Upset
    /\ calls[h].pc = "idle"
    /\ \A k \in Handlers : calls[k].pc # "idle" => calls[k].who # "other"
    /\ calls' = [calls EXCEPT ![h] = [pc |-> "new", who |-> "other", id |-> 0,
                    logical |-> FALSE, token |-> NoToken, room |-> 1,
                    options |-> NoImport, made |-> NoImport]]
    /\ UNCHANGED <<source, export, sessions, creating, lastId, captures, waits, reply,
                   targetVars>>

(* The caller stops waiting; the source still serves the request. *)
GiveUp ==
    /\ Upset
    /\ waits # "nobody" /\ waits' = "nobody"
    /\ UNCHANGED <<sourceVars, targetVars, reply>>

SetImportOptions ==
    LET abandons == staged # NoImport \/ persist
    IN /\ Upset
       /\ persist' = ~persist
       /\ staged' = NoImport
       /\ disk' = IF abandons THEN << >> ELSE disk
       /\ UNCHANGED <<sourceVars, waits, reply, target>>

DiscardImport ==
    /\ Upset
    /\ staged # NoImport \/ disk # << >>
    /\ staged' = NoImport /\ disk' = << >>
    /\ UNCHANGED <<sourceVars, waits, reply, persist, target>>

(* The receiver's own application writes a user DBI, once. *)
LocalWrite ==
    /\ Upset
    /\ \E d \in DbiSet, seq \in {target.local, 1} :
          /\ \A e \in DbiSet : Own \notin Rows(target.data, e)
          /\ target' = [target EXCEPT !.data = (d :> Rows(@, d) \cup {Own}) @@ @,
                                      !.local = seq]
    /\ UNCHANGED <<sourceVars, waits, reply, staged, disk, persist>>

(* The process stops; a new engine sets its import options before any call. *)
ReceiverRestart ==
    /\ Upset
    /\ staged' = NoImport /\ waits' = "nobody" /\ reply' = NoReply
    /\ persist' \in BOOLEAN
    /\ UNCHANGED <<sourceVars, disk, target>>

SnapNext ==
    \/ \E h \in Handlers :
          \/ BeginSession(h) \/ MaterializeSession(h) \/ CancelSession(h)
          \/ PublishSession(h) \/ FindSession(h) \/ ServePage(h)
          \/ Send(h) \/ SendOther(h)
    \/ SetExportOptions \/ IdleTimeout \/ SourceCommit \/ SourceRestart
    \/ ApplyChunk \/ ApplyFails \/ GiveUp \/ SetImportOptions \/ DiscardImport \/ LocalWrite
    \/ ReceiverRestart

SnapSpec == SnapInit /\ [][SnapNext]_snapVars

-----------------------------------------------------------------------------
(* Every variable of the source and the receiver keeps its type. *)
SnapTypeOK ==
    /\ creating \in Nat /\ lastId \in 0..MaxSessions
    /\ DOMAIN sessions \subseteq 1..lastId
    /\ \A h \in Handlers : calls[h].pc \in {"idle", "new", "making", "made", "page", "next"}
    /\ waits \in Handlers \cup {"nobody"}
    /\ reply.ok \/ reply.code \in Refusals
    /\ persist \in BOOLEAN /\ upsets \in 0..MaxUpsets
    /\ DOMAIN target.data \subseteq DbiSet

(* The sessions of a source, the ones being materialised outside the lock   *)
(* included, never exceed max_active_sessions, and the slots counted as     *)
(* being created are exactly the calls that hold one: no error path of      *)
(* handle_full_snapshot_pull keeps or returns a slot twice.                 *)
SessionsBounded ==
    LET making == {h \in Handlers : calls[h].pc \in {"making", "made"}}
    IN /\ creating = Cardinality(making)
       /\ export.scope # "none" =>
            Cardinality(DOMAIN sessions) + creating <= export.capacity

(* With persisted staging, a crash at any point loses no accepted page and  *)
(* invents none: the staging DBI rebuilds exactly the complete import that  *)
(* memory holds, whatever options, failures and discards came before.       *)
DiskRebuildsImport ==
    (persist /\ staged # NoImport /\ staged.complete /\ ~staged.logical)
        => Restored = staged

(* A page the source answers to the receiver's continuation is the page     *)
(* right after the staged ones: it continues the import it was asked for    *)
(* unless that import was dropped or replaced while the caller waited.      *)
PageContinues ==
    LET s == Active(FALSE)
    IN (waits = "nobody" /\ reply.ok /\ s # NoImport /\ s.id = reply.id
            /\ s.logical = reply.logical /\ reply.index = s.next)
        => Matches(s, reply) /\ Continues(s, reply)

(* Sessions, pages, retries, staging and restarts implement the one-step    *)
(* transfer: the receiver's database is its own, or a state the source was  *)
(* in at one moment together with that moment's tail and baseline.          *)
ImplementsTransfer == T!TransferSpec
=============================================================================
