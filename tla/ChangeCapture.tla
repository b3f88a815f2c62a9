--------------------------- MODULE ChangeCapture ---------------------------
(***************************************************************************)
(* Local change capture of one Connection: table writes recorded per       *)
(* MDBX_txn pointer by the raw accumulator and by automatic logical        *)
(* captures, flushed into the changelog, the scoped changelogs and the     *)
(* logical journal inside the committing transaction, and discarded with   *)
(* an aborted one.                                                         *)
(*                                                                         *)
(* MDBX has one write transaction at a time, and the allocator may give a  *)
(* new transaction the pointer of any earlier one.  A write is the number  *)
(* of its transaction with its table, so that a write published by another *)
(* transaction than its own is told apart.                                 *)
(***************************************************************************)
EXTENDS Integers, Sequences

CONSTANTS
    Handles, None,
    CapturedTables,
    ScopeOf,        \* [Tables -> scope id]; None for a DBI outside every scope
    Designated,     \* scopes whose designated writer is the local node
    Logical,        \* tables bound to automatic logical capture
    MaxTxns,        \* bound: transactions begun
    MaxWrites       \* bound: writes in one transaction

Scopes == {ScopeOf[t] : t \in CapturedTables} \ {None}

ASSUME CaptureAssumption ==
    /\ None \notin Handles
    /\ Designated \subseteq Scopes
    /\ Logical \subseteq {t \in CapturedTables : ScopeOf[t] = None}
    /\ MaxTxns \in Nat /\ MaxWrites \in Nat

VARIABLES
    txns,           \* transactions begun so far
    txn,            \* the open write transaction's pointer, or None
    suppressed,     \* "no", "raw" (public suppression) or "apply" (engine apply)
    attached,       \* m_sync_capture is an accumulator
    identified,     \* _mdbxc_meta.node_id is initialised
    failed,         \* m_sync_capture_failed_txn
    pending,        \* ThreadLocalChangeAccumulator::m_pending
    lpending,       \* AutomaticCapture::m_pending
    changelog,      \* committed batches of _mdbxc_changelog
    scopedLog,      \* committed batches of each scope's changelog
    journal,        \* committed frames of the logical journal
    writes,         \* the open transaction's writes that are to be published
    owed            \* those of every committed transaction (history)

captureVars == <<failed, pending, lpending>>
stores == <<changelog, scopedLog, journal>>
changeVars == <<txns, txn, suppressed, attached, identified, captureVars, stores,
          writes, owed>>

Op == [txn: 1..MaxTxns, table: CapturedTables]

ChangeInit ==
    /\ txns = 0 /\ txn = None
    /\ suppressed = "no"
    /\ attached = FALSE /\ identified = FALSE
    /\ failed = None
    /\ pending = [h \in Handles |-> << >>]
    /\ lpending = [h \in Handles |-> << >>]
    /\ changelog = << >>
    /\ scopedLog = [sc \in Scopes |-> << >>]
    /\ journal = << >>
    /\ writes = << >> /\ owed = << >>

-----------------------------------------------------------------------------
(* Lifecycle, outside transactions                                         *)

\* attach_sync_capture / detach_sync_capture
ToggleCapture ==
    /\ txn = None
    /\ attached' = ~attached
    /\ UNCHANGED <<txns, txn, suppressed, identified, captureVars, stores, writes, owed>>

\* SyncEngine::initialize_local_identity
InitializeIdentity ==
    /\ txn = None /\ ~identified
    /\ identified' = TRUE
    /\ UNCHANGED <<txns, txn, suppressed, attached, captureVars, stores, writes, owed>>

BeginTxn(h) ==
    /\ txn = None /\ suppressed = "no"
    /\ txns < MaxTxns
    /\ txn' = h
    /\ txns' = txns + 1
    /\ UNCHANGED <<suppressed, attached, identified, captureVars, stores, writes, owed>>

\* SyncCaptureSuppressionScope, alone or with LogicalDbiApplySuppressionScope
Suppress(kind) ==
    /\ txn # None
    /\ suppressed = "no"
    /\ suppressed' = kind
    /\ UNCHANGED <<txns, txn, attached, identified, captureVars, stores, writes, owed>>

Unsuppress ==
    /\ suppressed # "no"
    /\ suppressed' = "no"
    /\ UNCHANGED <<txns, txn, attached, identified, captureVars, stores, writes, owed>>

-----------------------------------------------------------------------------
(* Table writes                                                            *)

\* validate_sync_dbi_write and ensure_logical_dbi_capture_not_suppressed: the
\* write is refused after it was put into the table, inside the transaction.
Refused(t) ==
    \/ ScopeOf[t] # None
       /\ (~attached \/ suppressed # "no" \/ ScopeOf[t] \notin Designated)
    \/ t \in Logical /\ suppressed = "raw"

\* Writes that peers must see: logical tables unless the engine applies a
\* remote change, scoped tables always, others while captured.
Published(t) ==
    CASE t \in Logical -> suppressed # "apply"
      [] ScopeOf[t] # None -> TRUE
      [] OTHER -> attached /\ suppressed = "no"

\* mark_sync_capture_failed.  Mutant: the failure is not remembered.
MarkedFailedNever == failed
MarkedFailed == txn

RecordWrite(t) ==
    LET op == [txn |-> txns, table |-> t] IN
    /\ txn # None
    /\ Len(writes) < MaxWrites
    /\ writes' = IF Published(t) THEN Append(writes, op) ELSE writes
    /\ failed' = IF Refused(t) THEN MarkedFailed ELSE failed
    /\ pending' = IF ~Refused(t) /\ Published(t) /\ t \notin Logical
                  THEN [pending EXCEPT ![txn] = Append(@, op)] ELSE pending
    /\ lpending' = IF ~Refused(t) /\ Published(t) /\ t \in Logical
                   THEN [lpending EXCEPT ![txn] = Append(@, op)] ELSE lpending
    /\ UNCHANGED <<txns, txn, suppressed, attached, identified, stores, owed>>

-----------------------------------------------------------------------------
(* Commit and discard                                                      *)

InScope(op) == ScopeOf[op.table] # None
TouchedScopes(ops) == {ScopeOf[ops[i].table] : i \in DOMAIN ops} \ {None}

\* One batch per flush that has writes.
Batch(ops) == IF ops = << >> THEN << >> ELSE <<ops>>

\* What flush_in_txn publishes: nothing when no accumulator is attached.
Flushed == IF attached THEN pending[txn] ELSE << >>

\* open_stores and build_and_append_batch throw.
FlushThrows ==
    Flushed # << >> /\ (~identified \/ \E a, b \in TouchedScopes(Flushed) : a # b)

JournalThrows == lpending[txn] # << >> /\ ~identified

MayCommit == failed # txn /\ ~FlushThrows /\ ~JournalThrows

\* on_pre_commit refuses: the transaction stays open, marked as failed.  A
\* flush that throws takes its writes back; a journal append that throws comes
\* after the accumulator and the capture have given theirs away.
RefuseCommit ==
    LET flushed == failed # txn /\ ~FlushThrows IN
    /\ txn # None
    /\ ~MayCommit
    /\ failed' = txn
    /\ pending' = IF flushed /\ attached THEN [pending EXCEPT ![txn] = << >>] ELSE pending
    /\ lpending' = IF flushed THEN [lpending EXCEPT ![txn] = << >>] ELSE lpending
    /\ UNCHANGED <<txns, txn, suppressed, attached, identified, stores, writes, owed>>

End ==
    /\ txn' = None
    /\ writes' = << >>
    /\ UNCHANGED <<txns, suppressed, attached, identified>>

\* The scoped batch goes to the scope of the first scoped write.
ScopedLogWith(ops) ==
    IF ops = << >> THEN scopedLog
    ELSE [scopedLog EXCEPT ![ScopeOf[ops[1].table]] = Append(@, ops)]

\* on_pre_commit, mdbx_txn_commit.
CommitTxn ==
    /\ txn # None
    /\ MayCommit
    /\ changelog' = changelog \o Batch(Flushed)
    /\ scopedLog' = ScopedLogWith(SelectSeq(Flushed, InScope))
    /\ journal' = journal \o Batch(lpending[txn])
    /\ pending' = IF attached THEN [pending EXCEPT ![txn] = << >>] ELSE pending
    /\ lpending' = [lpending EXCEPT ![txn] = << >>]
    /\ owed' = owed \o <<writes>>
    /\ End
    /\ UNCHANGED failed

\* on_discard.
Discarded == IF attached THEN [pending EXCEPT ![txn] = << >>] ELSE pending

\* rollback, the guard's destructor, and a native commit error.
Discard ==
    /\ txn # None
    /\ pending' = Discarded
    /\ lpending' = [lpending EXCEPT ![txn] = << >>]
    /\ failed' = IF failed = txn THEN None ELSE failed
    /\ End
    /\ UNCHANGED <<stores, owed>>

-----------------------------------------------------------------------------
ChangeNext ==
    \/ ToggleCapture \/ InitializeIdentity \/ Unsuppress
    \/ \E h \in Handles : BeginTxn(h)
    \/ \E kind \in {"raw", "apply"} : Suppress(kind)
    \/ \E t \in CapturedTables : RecordWrite(t)
    \/ RefuseCommit \/ CommitTxn \/ Discard

ChangeSpec == ChangeInit /\ [][ChangeNext]_changeVars

-----------------------------------------------------------------------------
(* Properties                                                              *)

\* Every variable stays in its type; a stored batch or frame is never empty.
ChangeTypeOK ==
    LET Batches == Seq(Seq(Op) \ {<< >>}) IN
    /\ txns \in 0..MaxTxns
    /\ txn \in Handles \cup {None} /\ failed \in Handles \cup {None}
    /\ suppressed \in {"no", "raw", "apply"}
    /\ attached \in BOOLEAN /\ identified \in BOOLEAN
    /\ pending \in [Handles -> Seq(Op)] /\ lpending \in [Handles -> Seq(Op)]
    /\ changelog \in Batches /\ journal \in Batches
    /\ scopedLog \in [Scopes -> Batches]
    /\ writes \in Seq(Op) /\ owed \in Seq(Seq(Op))

\* The batches left when each transaction keeps only the writes that pass Test.
Projection(log, Test(_)) ==
    LET kept == [i \in DOMAIN log |-> SelectSeq(log[i], Test)]
    IN  SelectSeq(kept, LAMBDA ops : ops # << >>)

\* ChangeAccumulator.hpp:9: what a committed transaction wrote is published by
\* one batch (one frame for logical tables) with exactly its writes, in commit
\* order; nothing an aborted or failed transaction wrote is published, and no
\* write that must be published commits without its batch.
PublishedExactly ==
    /\ changelog = Projection(owed, LAMBDA op : op.table \notin Logical)
    /\ journal = Projection(owed, LAMBDA op : op.table \in Logical)

\* build_and_append_batch: the changelog of a scope is the global changelog
\* restricted to the scope's tables, so its receivers miss and gain nothing.
ScopedLogIsProjection ==
    \A sc \in Scopes :
        scopedLog[sc] = Projection(changelog, LAMBDA op : ScopeOf[op.table] = sc)

\* ChangeAccumulator.hpp:29: pending state never outlives its transaction, so a
\* reused pointer starts clean.
PendingOnlyWhileOpen ==
    /\ \A h \in Handles \ {txn} : pending[h] = << >> /\ lpending[h] = << >>
    /\ failed \in {None, txn}
=============================================================================
