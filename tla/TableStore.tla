----------------------------- MODULE TableStore -----------------------------
(***************************************************************************)
(* What every table wrapper shares: the ordered DBI with the cursor moves   *)
(* the wrappers use, and the transaction frame of detail/BaseTable.hpp in   *)
(* which each call runs and reports what it wrote.                          *)
(*                                                                         *)
(* A DBI is a set of rows [key, seq, val], ordered by key and then by seq:  *)
(* the order libmdbx keeps keys in and, in an MDBX_DUPSORT DBI whose values *)
(* start with a big-endian number, the order of the duplicates of a key.    *)
(* Plain DBIs use seq 0, so a key has one row.                              *)
(*                                                                         *)
(* A call computes an outcome [rows, copy, ok, live, n] from the state of   *)
(* its transaction: "copy" is what a follower holds once it has replayed    *)
(* the operations reported so far (the replay is a fold, so only its result *)
(* is kept), ok is FALSE when the call throws, live is FALSE when the       *)
(* failure also forbids the commit, and n is the number the call returns.   *)
(***************************************************************************)
EXTENDS Integers, Sequences, FiniteSets, SequencesExt

CONSTANTS Values,     \* the values that fit
          Oversized,  \* values that exceed Config::max_dupsort_value_size
          Containers, \* the sequences of pairs given to bulk calls
          Tables      \* the tables explored

VARIABLES table,     \* [wrapper, capture, version, keys, max]: the wrapper, what
                     \* captures its DBI and its schema version, the keys used,
                     \* and the number standing for the largest uint64_t
          rows,      \* the committed DBI
          work,      \* the caller's writable transaction
          replica    \* a follower that replayed every committed batch

storeVars == <<table, rows, work, replica>>

Keys == table.keys      \* integers, in comparator order
MaxOrder == table.max

Row(k, s, v) == [key |-> k, seq |-> s, val |-> v]
Closed == [open |-> FALSE, live |-> TRUE, rows |-> {}, copy |-> {}]

---------------------------------------------------------------------------
(* The cursor of libmdbx over the ordered rows; position 0 is NOTFOUND.     *)

RowBefore(a, b) == a.key < b.key \/ (a.key = b.key /\ a.seq < b.seq)

Ordered(rs) == SetToSortSeq(rs, RowBefore)

FirstAt(s, P(_)) ==
    IF \E i \in DOMAIN s : P(s[i])
    THEN CHOOSE i \in DOMAIN s : P(s[i]) /\ \A j \in 1..(i - 1) : ~P(s[j])
    ELSE 0

CursorFirst(s) == IF s = <<>> THEN 0 ELSE 1
CursorLast(s) == Len(s)
CursorNext(s, i) == IF i < Len(s) THEN i + 1 ELSE 0
CursorPrev(s, i) == i - 1
CursorSetKey(s, k) == FirstAt(s, LAMBDA r : r.key = k)
CursorSetRange(s, k) == FirstAt(s, LAMBDA r : r.key >= k)
CursorNextDup(s, i) == IF i < Len(s) /\ s[i + 1].key = s[i].key THEN i + 1 ELSE 0
CursorNextNodup(s, i) == CursorSetRange(s, s[i].key + 1)
CursorLastDup(s, i) ==
    CHOOSE j \in DOMAIN s : s[j].key = s[i].key /\ CursorNextDup(s, j) = 0

---------------------------------------------------------------------------
(* The raw operation a wrapper reports, and its replay by a follower.       *)

Put(k, v) == [type |-> "Put", key |-> k, val |-> v]
Delete(k) == [type |-> "Delete", key |-> k, val |-> 0]
ClearTable == [type |-> "ClearTable", key |-> 0, val |-> 0]

Upserted(rs, k, v) == {r \in rs : r.key # k} \cup {Row(k, 0, v)}
Without(rs, k) == {r \in rs : r.key # k}
HasKey(rs, k) == \E r \in rs : r.key = k

\* SyncEngine::apply_one_op: upsert, erase (an absent key is fine), drop.
ApplyOneOp(c, op) ==
    CASE op.type = "Put" -> Upserted(c, op.key, op.val)
      [] op.type = "Delete" -> Without(c, op.key)
      [] op.type = "ClearTable" -> {}

---------------------------------------------------------------------------
(* What a call does with its transaction.                                   *)

\* The state of the transaction a call runs in: the caller's, or its own.
Start == IF work.open
         THEN [rows |-> work.rows, copy |-> work.copy, ok |-> TRUE,
               live |-> work.live, n |-> 0]
         ELSE [rows |-> rows, copy |-> replica, ok |-> TRUE, live |-> TRUE,
               n |-> 0]

\* An exception before anything else is written.
Throw(d) == [d EXCEPT !.ok = FALSE]

\* One storage call, then what it reports. replayed is the follower's copy
\* after the report; a DBI nothing captures reports nothing.
Write(d, rs, replayed) ==
    [d EXCEPT !.rows = rs,
              !.copy = IF table.capture = "none" \/ ~d.live THEN @ ELSE replayed,
              !.n = @ + 1]

\* Runs Step for the elements of a container until one throws.
ForEach(d, seq, Step(_, _)) ==
    FoldLeft(LAMBDA acc, e : IF acc.ok THEN Step(acc, e) ELSE acc, d, seq)

\* A transaction whose capture failed; what it reported no longer matters.
Broken(rs) == [open |-> TRUE, live |-> FALSE, rows |-> rs, copy |-> {}]

\* BaseTable::with_transaction: a call in a transaction of its own commits
\* it or rolls it back; in the caller's transaction what it wrote stays, even
\* when it throws.  Mutant: the caller's transaction is ignored.
WithTransactionOwn(d) ==
    /\ d.ok /\ d.live
    /\ rows' = d.rows
    /\ replica' = d.copy
    /\ UNCHANGED <<table, work>>

WithTransaction(d) ==
    /\ IF work.open
       THEN /\ work' = IF d.live THEN [work EXCEPT !.rows = d.rows, !.copy = d.copy]
                       ELSE Broken(d.rows)
            /\ UNCHANGED <<rows, replica>>
       ELSE /\ d.ok /\ d.live
            /\ rows' = d.rows
            /\ replica' = d.copy
            /\ work' = work
    /\ table' = table

\* A logical capture session (CapturedLogicalTransaction): a failed
\* operation rolls the whole session back.
WithSession(d) ==
    /\ work.open
    /\ work' = IF d.ok /\ d.live
               THEN [work EXCEPT !.rows = d.rows, !.copy = d.copy]
               ELSE Closed
    /\ UNCHANGED <<table, rows, replica>>

\* BaseTable::begin, or the constructor of a capture session.
Begin ==
    /\ ~work.open
    /\ work' = [open |-> TRUE, live |-> TRUE, rows |-> rows, copy |-> replica]
    /\ UNCHANGED <<table, rows, replica>>

\* A storage call or the capture sink fails inside a call: the exception
\* leaves the transaction unfit to commit.
CallBreaks ==
    /\ work.open
    /\ work' = IF table.capture = "session" THEN Closed
               ELSE Broken(work.rows)
    /\ UNCHANGED <<table, rows, replica>>

\* BaseTable::commit; a transaction whose capture failed cannot commit.
Commit ==
    /\ work.open
    /\ work' = Closed
    /\ IF work.live THEN rows' = work.rows /\ replica' = work.copy
       ELSE UNCHANGED <<rows, replica>>
    /\ table' = table

Rollback ==
    /\ work.open
    /\ work' = Closed
    /\ UNCHANGED <<table, rows, replica>>

StoreInit ==
    /\ table \in Tables
    /\ rows = {}
    /\ work = Closed
    /\ replica = {}

StoreNext == Begin \/ CallBreaks \/ Commit \/ Rollback

\* Whose calls act now: in a session only the session's own operations.
Wrapper(w) == table.wrapper = w /\ table.capture # "session"
Session(w) == table.wrapper = w /\ table.capture = "session" /\ work.live

\* The rows a reader sees: its transaction's, or the last committed ones.
View == IF work.open THEN work.rows ELSE rows
Seen == Ordered(View)

\* A position as the row found there, if any.
RowAt(s, i) == IF i = 0 THEN {} ELSE {s[i]}

=============================================================================
