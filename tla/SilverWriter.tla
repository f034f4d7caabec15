---------------------------- MODULE SilverWriter ----------------------------
(***************************************************************************)
(* One streaming query of streaming/pyspark/silver_writer.py: it reads a   *)
(* Bronze table in micro-batches of whole files, quarantines the rows that *)
(* are no changes, merges the latest change of each key into the Silver    *)
(* table under the LSN guard, and, for customers, maintains the history    *)
(* dimension gold.dim_customer_history (scd2.py) from the same rows.       *)
(*                                                                         *)
(* The writes of a batch are separate Iceberg commits and the checkpoint   *)
(* follows the last of them, so a crash may fall between any two.          *)
(***************************************************************************)
EXTENDS ChangeFeed

CONSTANTS
    DeleteStrategy,  \* "soft" or "hard", the table's TableConfig
    HasScd2,         \* whether the table feeds the history dimension
    MaxFiles,        \* streaming-max-files-per-micro-batch
    MaxCrashes       \* bound: crashes of the writer

ASSUME StrategyAssumption == DeleteStrategy \in {"soft", "hard"} /\ HasScd2 \in BOOLEAN
ASSUME BatchAssumption == MaxFiles \in Nat \ {0} /\ MaxCrashes \in Nat

VARIABLES
    planned,    \* files covered by the checkpoint's offset log
    committed,  \* files covered by the checkpoint's commit log
    pc,         \* the step of the query
    latest,     \* the persisted `latest` frame: one row per key of the batch
    opening,    \* keys of the cached classification that are new or changed
    closing,    \* keys of the cached classification that are changed
    silver,     \* [Keys -> SilverRow], the Silver table
    dlq,        \* the rows recorded in silver.dlq_events
    dim,        \* [Keys -> Seq(HistoryRow)], dim_customer_history in append order
    crashes

checkpoint == <<planned, committed>>
frames == <<latest, opening, closing>>
tables == <<silver, dlq, dim>>
vars == <<feed, checkpoint, pc, frames, tables, crashes>>

Steps == {"idle", "quarantine", "merge", "classify", "close", "append", "checkpoint", "down"}

\* _source_lsn is the LSN of the change the row was last written by; is_deleted
\* and deleted_at always change together.
SilverRow == [val : Values \cup {NoValue}, lsn : Nat, deleted : BOOLEAN]

NoRow == [val |-> NoValue, lsn |-> NullLsn, deleted |-> FALSE]

\* valid_from and _source_lsn come from the same change, and the changes of one
\* row commit in WAL order: `from` stands for both, and `to`, the commit time
\* of the change that closed the row, is 0 while it is NULL.
HistoryRow == [val : Values \cup {NoValue}, from : Nat, to : Nat, current : BOOLEAN]

Init ==
    /\ FeedInit
    /\ planned = 0
    /\ committed = 0
    /\ pc = "idle"
    /\ latest = {}
    /\ opening = {}
    /\ closing = {}
    /\ silver = [k \in Keys |-> NoRow]
    /\ dlq = {}
    /\ dim = [k \in Keys |-> <<>>]
    /\ crashes = 0

-----------------------------------------------------------------------------
(* silver_transform.validate(), in SQL's three-valued logic.               *)

\* The first condition that is FALSE names the error.  `operation IN (...)` is
\* NULL, not FALSE, for a NULL operation, so it names none.
ErrorType(e) ==
    CASE e.op \notin Operations \cup {"null"} -> "invalid_operation"
      [] PayloadOf(e).state = "absent" -> "missing_payload"
      [] PayloadOf(e).state = "garbled" -> "payload_parse_error"
      [] KeyOf(e) = NullKey -> "null_primary_key"
      [] e.lsn = NullLsn -> "null_source_lsn"
      [] OTHER -> "none"

\* filter(_valid) and filter(~_valid): when all else is right and the operation
\* is NULL, _valid is NULL and the row passes neither.
IsGood(e) == ErrorType(e) = "none" /\ e.op # "null"

IsBad(e) == ErrorType(e) # "none"

-----------------------------------------------------------------------------
(* silver_transform.dedupe(), pick_latest_per_key() and the MERGE.         *)

RowsOf(first, last) == UNION {bronze[i] : i \in first .. last}

Batch == RowsOf(committed + 1, planned)

\* A slip: the window ordered ascending.
PickEarliest(rows) ==
    {e \in rows : \A f \in rows : KeyOf(f) = KeyOf(e) => f.lsn >= e.lsn}

\* The change of each key with the highest LSN.
PickLatest(rows) ==
    {e \in rows : \A f \in rows : KeyOf(f) = KeyOf(e) => f.lsn <= e.lsn}

LatestKeys == {KeyOf(e) : e \in latest}

LatestOf(k) == CHOOSE e \in latest : KeyOf(e) = k

Upserted(e) == [val |-> ValueOf(e), lsn |-> e.lsn, deleted |-> FALSE]

\* Delete events carry their values in `before`, so a soft delete keeps them.
Deleted(e) ==
    IF DeleteStrategy = "hard" THEN NoRow ELSE [Upserted(e) EXCEPT !.deleted = TRUE]

\* Slips: no LSN guard; a guard off by one; a NOT MATCHED clause without its
\* condition; an UPDATE SET with the bookkeeping columns only.
MergeUnguarded(row, e) ==
    CASE e.op # "d" -> Upserted(e)
      [] e.op = "d" /\ row # NoRow -> Deleted(e)
      [] OTHER -> row

MergeOffByOne(row, e) ==
    CASE row # NoRow /\ e.op # "d" /\ e.lsn > row.lsn + 1 -> Upserted(e)
      [] row # NoRow /\ e.op = "d" /\ e.lsn > row.lsn + 1 -> Deleted(e)
      [] row = NoRow /\ e.op # "d" -> Upserted(e)
      [] OTHER -> row

MergeInsertsDeletes(row, e) ==
    CASE row # NoRow /\ e.op # "d" /\ e.lsn > row.lsn -> Upserted(e)
      [] row # NoRow /\ e.op = "d" /\ e.lsn > row.lsn -> Deleted(e)
      [] row = NoRow -> Upserted(e)
      [] OTHER -> row

MergeBookkeepingOnly(row, e) ==
    CASE row # NoRow /\ e.lsn > row.lsn -> [Upserted(e) EXCEPT !.val = row.val]
      [] row = NoRow /\ e.op # "d" -> Upserted(e)
      [] OTHER -> row

\* build_merge_sql(): the clauses of the MERGE in order, for a row of the source.
Merge(row, e) ==
    CASE row # NoRow /\ e.op # "d" /\ e.lsn > row.lsn -> Upserted(e)
      [] row # NoRow /\ e.op = "d" /\ e.lsn > row.lsn -> Deleted(e)
      [] row = NoRow /\ e.op # "d" -> Upserted(e)
      [] OTHER -> row

-----------------------------------------------------------------------------
(* scd2.apply_scd2().                                                      *)

CurrentRows(k) == {i \in DOMAIN dim[k] : dim[k][i].current}

IsNew(k) == CurrentRows(k) = {}

\* A slip: no LSN guard in the classification.
IsChangedUnguarded(k) ==
    \E i \in CurrentRows(k) : ValueOf(LatestOf(k)) # dim[k][i].val

\* A later change than the one the current row shows, with other values.
IsChanged(k) ==
    \E i \in CurrentRows(k) :
        /\ LatestOf(k).lsn > dim[k][i].from
        /\ ValueOf(LatestOf(k)) # dim[k][i].val

Closed(rows, to) ==
    [i \in DOMAIN rows |->
        IF rows[i].current THEN [rows[i] EXCEPT !.to = to, !.current = FALSE] ELSE rows[i]]

Opened(e) == [val |-> ValueOf(e), from |-> e.lsn, to |-> 0, current |-> TRUE]

-----------------------------------------------------------------------------
(* The query.                                                              *)

\* A slip: the plan runs past the files that exist.
PlanPastEnd ==
    /\ pc = "idle"
    /\ committed < Len(bronze)
    /\ planned' = committed + MaxFiles
    /\ pc' = "quarantine"
    /\ UNCHANGED <<feed, committed, frames, tables, crashes>>

\* A trigger with new files: at most MaxFiles of them are planned, and the plan
\* is in the checkpoint before the batch runs.
PlanBatch ==
    /\ pc = "idle"
    /\ committed < Len(bronze)
    /\ planned' = IF committed + MaxFiles < Len(bronze) THEN committed + MaxFiles ELSE Len(bronze)
    /\ pc' = "quarantine"
    /\ UNCHANGED <<feed, committed, frames, tables, crashes>>

\* A slip: the early return for a batch without good rows comes first.
QuarantineLast ==
    /\ pc = "quarantine"
    /\ latest' = PickLatest({e \in Batch : IsGood(e)})
    /\ dlq' = IF latest' = {} THEN dlq ELSE dlq \cup {e \in Batch : IsBad(e)}
    /\ pc' = IF latest' = {} THEN "checkpoint" ELSE "merge"
    /\ UNCHANGED <<feed, checkpoint, opening, closing, silver, dim, crashes>>

\* process_batch() up to the MERGE: the bad rows go to the DLQ table first, then
\* the good ones are reduced to the latest per key.  A batch without good rows
\* ends here.
Quarantine ==
    /\ pc = "quarantine"
    /\ dlq' = dlq \cup {e \in Batch : IsBad(e)}
    /\ latest' = PickLatest({e \in Batch : IsGood(e)})
    /\ pc' = IF latest' = {} THEN "checkpoint" ELSE "merge"
    /\ UNCHANGED <<feed, checkpoint, opening, closing, silver, dim, crashes>>

\* apply_merge(): one Iceberg commit.
MergeSilver ==
    /\ pc = "merge"
    /\ silver' = [k \in Keys |->
                    IF k \in LatestKeys THEN Merge(silver[k], LatestOf(k)) ELSE silver[k]]
    /\ pc' = IF HasScd2 THEN "classify" ELSE "checkpoint"
    /\ UNCHANGED <<feed, checkpoint, frames, dlq, dim, crashes>>

\* A slip: new customers are forgotten.
ClassifyChangedOnly ==
    /\ pc = "classify"
    /\ opening' = {k \in LatestKeys : IsChanged(k)}
    /\ closing' = opening'
    /\ pc' = IF opening' = {} THEN "checkpoint" ELSE "close"
    /\ UNCHANGED <<feed, checkpoint, latest, tables, crashes>>

\* The classification is computed once and cached: both writes below use it.
Classify ==
    /\ pc = "classify"
    /\ opening' = {k \in LatestKeys : IsNew(k) \/ IsChanged(k)}
    /\ closing' = {k \in LatestKeys : IsChanged(k)}
    /\ pc' = IF opening' = {} THEN "checkpoint" ELSE IF closing' = {} THEN "append" ELSE "close"
    /\ UNCHANGED <<feed, checkpoint, latest, tables, crashes>>

\* Step A, one Iceberg commit: close the current rows of the changed keys.
CloseHistory ==
    /\ pc = "close"
    /\ dim' = [k \in Keys |->
                IF k \in closing THEN Closed(dim[k], LatestOf(k).lsn) ELSE dim[k]]
    /\ pc' = "append"
    /\ UNCHANGED <<feed, checkpoint, frames, silver, dlq, crashes>>

\* Step B, one more commit: append the new current rows.
AppendHistory ==
    /\ pc = "append"
    /\ dim' = [k \in Keys |->
                IF k \in opening THEN Append(dim[k], Opened(LatestOf(k))) ELSE dim[k]]
    /\ pc' = "checkpoint"
    /\ UNCHANGED <<feed, checkpoint, frames, silver, dlq, crashes>>

\* _batch_fn() returned and unpersisted its frames; Spark commits the batch.
AdvanceCheckpoint ==
    /\ pc = "checkpoint"
    /\ committed' = planned
    /\ latest' = {}
    /\ opening' = {}
    /\ closing' = {}
    /\ pc' = "idle"
    /\ UNCHANGED <<feed, planned, tables, crashes>>

\* The process dies or a write of this or another query raises: main() returns
\* from awaitAnyTermination() and the frames are gone.
Crash ==
    /\ pc # "down"
    /\ crashes < MaxCrashes
    /\ crashes' = crashes + 1
    /\ pc' = "down"
    /\ latest' = {}
    /\ opening' = {}
    /\ closing' = {}
    /\ UNCHANGED <<feed, checkpoint, tables>>

\* A slip: a planned batch counts as processed.
RestartAsCommitted ==
    /\ pc = "down"
    /\ committed' = planned
    /\ pc' = "idle"
    /\ UNCHANGED <<feed, planned, frames, tables, crashes>>

\* The container restarts; a planned batch that was not committed runs again
\* over the same files.
Restart ==
    /\ pc = "down"
    /\ pc' = IF planned = committed THEN "idle" ELSE "quarantine"
    /\ UNCHANGED <<feed, checkpoint, frames, tables, crashes>>

Query ==
    \/ PlanBatch
    \/ Quarantine
    \/ MergeSilver
    \/ Classify
    \/ CloseHistory
    \/ AppendHistory
    \/ AdvanceCheckpoint
    \/ Restart

writer == <<checkpoint, pc, frames, tables, crashes>>

Next ==
    \/ \E k \in Keys, v \in Values : Insert(k, v) /\ UNCHANGED writer
    \/ \E k \in Keys, v \in Values : Update(k, v) /\ UNCHANGED writer
    \/ \E k \in Keys : Delete(k) /\ UNCHANGED writer
    \/ \E n \in 1 .. MaxChanges : Ship(n) /\ UNCHANGED writer
    \/ \E lsn \in 0 .. MaxChanges : Replay(lsn) /\ UNCHANGED writer
    \/ Redeliver /\ UNCHANGED writer
    \/ \E e \in MalformedRows : LandMalformed(e) /\ UNCHANGED writer
    \/ Query
    \/ Crash

\* Spark triggers the query, its steps end and Docker restarts the container; the
\* Bronze query delivers every message (EventuallyDelivered of BronzeWriter).
Fairness == WF_vars(Query) /\ WF_vars(ShipNext /\ UNCHANGED writer)

Spec == Init /\ [][Next]_vars /\ Fairness

-----------------------------------------------------------------------------
(* Properties.                                                             *)

\* Types, the order of the checkpoint's two logs, and what the frames of a batch
\* hold and when.
TypeOK ==
    /\ db \in [Keys -> Values \cup {NoValue}]
    /\ wal \in Seq(BronzeRow)
    /\ shipped \in 0 .. Len(wal)
    /\ bronze \in Seq(SUBSET BronzeRow)
    /\ replays \in Nat
    /\ redeliveries \in Nat
    /\ planned \in committed .. Len(bronze)
    /\ committed \in Nat
    /\ pc \in Steps
    /\ latest \in SUBSET {e \in BronzeRow : IsGood(e)}
    /\ opening \in SUBSET LatestKeys
    /\ closing \in SUBSET opening
    /\ opening # {} => pc \in {"close", "append", "checkpoint"}
    /\ silver \in [Keys -> SilverRow]
    /\ dlq \in SUBSET BronzeRow
    /\ dim \in [Keys -> Seq(HistoryRow)]
    /\ crashes \in Nat

\* Every Silver row is, column for column, the version of its key that Postgres
\* committed at its _source_lsn: no batch, crash, duplicate or malformed row
\* makes the MERGE mix two versions or invent one.
RowsFromSource ==
    \A k \in Keys :
        silver[k] # NoRow =>
            \E i \in DOMAIN wal :
                /\ KeyOf(wal[i]) = k
                /\ silver[k] = [val |-> ValueOf(wal[i]), lsn |-> i, deleted |-> wal[i].op = "d"]

\* The rows of the batches whose checkpoint is written.
CommittedRows == RowsOf(1, committed)

\* While no change is a delete, a committed change is never lost: the Silver row
\* of its key shows that change or a later one, whatever was replayed,
\* appended twice or retried after a crash since.
NoLostUpdate ==
    \A e \in CommittedRows : IsGood(e) => silver[KeyOf(e)].lsn >= e.lsn

\* As long as Debezium does not replay, a row whose delete is committed does not
\* come back unless Postgres inserted it again.
DeletedStaysDeleted ==
    replays = 0 =>
        \A e \in CommittedRows :
            IsGood(e) /\ e.op = "d" =>
                LET row == silver[KeyOf(e)]
                IN  row = NoRow \/ row.deleted \/ row.lsn > e.lsn

\* The docstring of build_merge_sql: the LSN guard "makes cross-batch duplicates
\* and out-of-order replays no-ops", replays by Debezium included.
ReplaysAreNoOps ==
    \A e \in CommittedRows :
        IsGood(e) /\ e.op = "d" =>
            LET row == silver[KeyOf(e)]
            IN  row = NoRow \/ row.deleted \/ row.lsn > e.lsn

\* Quarantine is complete and exact: once a batch is committed its malformed
\* rows are in the DLQ table, and no change of the source is ever there.  Rows
\* with a NULL operation are the exception: both filters of validate() drop them.
QuarantineExact ==
    /\ \A e \in CommittedRows : NotAChange(e) /\ e.op # "null" => e \in dlq
    /\ \A e \in dlq : NotAChange(e)

\* The history of a key is a chain: each row is closed by the change that opened
\* the next one and differs from it, and only the last row is current.  The
\* one exception is the gap between the two commits of apply_scd2(), which
\* a crash may leave open and the retry of that batch closes.
HistoryChain ==
    \A k \in Keys :
        LET rows == dim[k]
            n == Len(rows)
        IN  /\ \A i \in 1 .. n - 1 :
                /\ ~rows[i].current
                /\ rows[i].to = rows[i + 1].from
                /\ rows[i].val # rows[i + 1].val
            /\ \A i \in 1 .. n : ~rows[i].current => rows[i].from < rows[i].to
            /\ n > 0 /\ ~rows[n].current =>
                \E e \in Batch : IsGood(e) /\ KeyOf(e) = k /\ e.lsn = rows[n].to

\* Between batches the current history row of a key shows the values of its
\* Silver row, as long as Debezium has not replayed.
HistoryAgrees ==
    HasScd2 /\ pc = "idle" /\ replays = 0 =>
        \A k \in Keys :
            silver[k] # NoRow => \E i \in CurrentRows(k) : dim[k][i].val = silver[k].val

\* scd2.py: "SCD2 needs the ordered stream of individual changes", and "a full
\* backfill reproduces identical values regardless of when it's run".  When all
\* is processed, every change of a key's values has its history row.
HistoryIsComplete ==
    pc = "idle" /\ shipped = Len(wal) /\ committed = Len(bronze) =>
        \A i \in DOMAIN wal :
            wal[i].before.val # wal[i].after.val =>
                \E j \in DOMAIN dim[KeyOf(wal[i])] : dim[KeyOf(wal[i])][j].from = i

\* What a reader of the Silver table sees of a key.
Visible(k) == IF silver[k].deleted THEN NoValue ELSE silver[k].val

\* Once the source is quiet, Silver and the current history rows come to show
\* what Postgres holds and stay so, through replays, duplicates and crashes.
Converged ==
    \A k \in Keys :
        /\ Visible(k) = db[k]
        /\ HasScd2 /\ db[k] # NoValue => \E i \in CurrentRows(k) : dim[k][i].val = db[k]

EventuallyConsistent == <>[]Converged

\* A soft-deleting Silver table implements CurrentState: a key's version is
\* always a change of that key, and never goes back to an older one.
LatestWins == INSTANCE CurrentState WITH
    log <- [i \in DOMAIN wal |-> KeyOf(wal[i])],
    view <- [k \in Keys |-> silver[k].lsn]

ImplementsCurrentState == LatestWins!Spec
=============================================================================
