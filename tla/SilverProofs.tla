---------------------------- MODULE SilverProofs ----------------------------
(***************************************************************************)
(* Theorems about SilverWriter, for every table, batch size, number of     *)
(* files and number of crashes, replays and duplicates.                    *)
(***************************************************************************)
EXTENDS SilverWriter, SequenceTheorems, TLAPS

-----------------------------------------------------------------------------
(* What validate() lets through.                                           *)

\* A row that passes validation names a key and has an LSN, and is a change.
LEMMA GoodRow ==
    ASSUME NEW e \in BronzeRow, IsGood(e)
    PROVE  /\ KeyOf(e) \in Keys
           /\ ValueOf(e) \in Values \cup {NoValue}
           /\ e.lsn \in Nat
           /\ e.lsn # NullLsn
           /\ ~NotAChange(e)
<1>1. PayloadOf(e) \in Image
  BY DEF BronzeRow, PayloadOf
<1>2. e.lsn \in Nat /\ e.op \in Operations \cup {"t", "null"}
  BY DEF BronzeRow
<1>3. /\ e.op \in Operations
      /\ PayloadOf(e).state # "absent"
      /\ PayloadOf(e).state # "garbled"
      /\ KeyOf(e) # NullKey
      /\ e.lsn # NullLsn
  BY <1>2 DEF IsGood, ErrorType
<1>. QED
  BY <1>1, <1>2, <1>3 DEF Image, KeyOf, ValueOf, NotAChange

\* The row a MERGE leaves is a Silver row.
LEMMA MergeType ==
    ASSUME NEW row \in SilverRow, NEW e \in BronzeRow, IsGood(e)
    PROVE  Merge(row, e) \in SilverRow
<1>1. Upserted(e) \in SilverRow
  BY GoodRow DEF Upserted, SilverRow
<1>2. Deleted(e) \in SilverRow
  BY <1>1 DEF Deleted, NoRow, NullLsn, SilverRow
<1>. QED
  BY <1>1, <1>2 DEF Merge

\* LatestOf picks a row of the frame for each key in it.
LEMMA LatestRow ==
    ASSUME NEW k \in LatestKeys
    PROVE  LatestOf(k) \in latest /\ KeyOf(LatestOf(k)) = k
  BY DEF LatestKeys, LatestOf

\* The rows of a range of files are rows.
LEMMA RowsType ==
    ASSUME bronze \in Seq(SUBSET BronzeRow), NEW m \in Nat \ {0}, NEW n \in 0 .. Len(bronze)
    PROVE  RowsOf(m, n) \subseteq BronzeRow
  BY DEF RowsOf

\* Closing the current rows of a key keeps its history a sequence of the same
\* length.
LEMMA ClosedType ==
    ASSUME NEW rows \in Seq(HistoryRow), NEW to \in Nat
    PROVE  /\ Closed(rows, to) \in Seq(HistoryRow)
           /\ Len(Closed(rows, to)) = Len(rows)
<1>. DEFINE n == Len(rows)
<1>1. n \in Nat /\ DOMAIN rows = 1 .. n
  BY LenProperties
<1>2. ASSUME NEW i \in 1 .. n
      PROVE  Closed(rows, to)[i] \in HistoryRow
  <2>1. rows[i] \in HistoryRow
    BY ElementOfSeq
  <2>2. [rows[i] EXCEPT !.to = to] \in HistoryRow
    BY <2>1 DEF HistoryRow
  <2>3. [rows[i] EXCEPT !.to = to, !.current = FALSE] \in HistoryRow
    BY <2>2 DEF HistoryRow
  <2>. QED
    BY <1>1, <2>1, <2>3 DEF Closed
<1>3. Closed(rows, to) \in [1 .. n -> HistoryRow]
  BY <1>1, <1>2 DEF Closed
<1>4. Closed(rows, to) \in Seq(HistoryRow)
  BY <1>1, <1>3, SeqDef
<1>. QED
  BY <1>1, <1>3, <1>4, LenProperties

-----------------------------------------------------------------------------
(* Type correctness.                                                       *)

LEMMA TypeInit == Init => TypeOK
  BY DEF Init, FeedInit, TypeOK, Steps, SilverRow, NoRow, NullLsn, LatestKeys

\* A change of the source: it is a row of the right shape, at the end of the WAL.
LEMMA CommitType ==
    ASSUME TypeOK, NEW op \in Operations, NEW k \in Keys,
           NEW old \in Values \cup {NoValue}, NEW new \in Values \cup {NoValue},
           Commit(op, k, old, new), UNCHANGED writer
    PROVE  TypeOK'
<1>. DEFINE row == [op |-> op,
                    before |-> IF old = NoValue THEN NoImage ELSE ImageOf(k, old),
                    after |-> IF new = NoValue THEN NoImage ELSE ImageOf(k, new),
                    lsn |-> Len(wal) + 1]
<1>1. row \in BronzeRow
  BY DEF TypeOK, BronzeRow, Image, NoImage, ImageOf
<1>2. wal' = Append(wal, row) /\ db' = [db EXCEPT ![k] = new]
  BY DEF Commit
<1>3. wal' \in Seq(BronzeRow) /\ Len(wal') = Len(wal) + 1
  BY <1>1, <1>2 DEF TypeOK
<1>4. db' \in [Keys -> Values \cup {NoValue}]
  BY <1>2 DEF TypeOK
<1>5. shipped' \in 0 .. Len(wal')
  BY <1>3 DEF TypeOK, Commit
<1>. QED
  BY <1>3, <1>4, <1>5
  DEF TypeOK, Commit, writer, checkpoint, frames, tables, LatestKeys

\* A file of rows at the end of the Bronze table.
LEMMA FileType ==
    ASSUME TypeOK, NEW file \in SUBSET BronzeRow, AppendFile(file),
           shipped' \in 0 .. Len(wal), replays' \in Nat, redeliveries' \in Nat,
           UNCHANGED <<db, wal>>, UNCHANGED writer
    PROVE  TypeOK'
<1>1. bronze' \in Seq(SUBSET BronzeRow) /\ Len(bronze') = Len(bronze) + 1
  BY DEF TypeOK, AppendFile
<1>2. planned' \in committed' .. Len(bronze')
  BY <1>1 DEF TypeOK, writer, checkpoint
<1>. QED
  BY <1>1, <1>2 DEF TypeOK, writer, checkpoint, frames, tables, LatestKeys

LEMMA TypeNext == TypeOK /\ [Next]_vars => TypeOK'
<1>. SUFFICES ASSUME TypeOK, [Next]_vars PROVE TypeOK'
  OBVIOUS
<1>1. ASSUME NEW k \in Keys, NEW v \in Values, Insert(k, v), UNCHANGED writer
      PROVE  TypeOK'
  BY <1>1, CommitType DEF Insert, Operations
<1>2. ASSUME NEW k \in Keys, NEW v \in Values, Update(k, v), UNCHANGED writer
      PROVE  TypeOK'
  BY <1>2, CommitType DEF Update, Operations, TypeOK
<1>3. ASSUME NEW k \in Keys, Delete(k), UNCHANGED writer
      PROVE  TypeOK'
  BY <1>3, CommitType DEF Delete, Operations, TypeOK
<1>4. ASSUME NEW n \in 1 .. MaxChanges, Ship(n), UNCHANGED writer
      PROVE  TypeOK'
  <2>1. {wal[i] : i \in shipped + 1 .. shipped + n} \in SUBSET BronzeRow
    BY <1>4, FeedBounds DEF TypeOK, Ship
  <2>. QED
    BY <1>4, <2>1, FileType, FeedBounds DEF TypeOK, Ship
<1>5. ASSUME NEW lsn \in 0 .. MaxChanges, Replay(lsn), UNCHANGED writer
      PROVE  TypeOK'
  BY <1>5 DEF TypeOK, Replay, writer, checkpoint, frames, tables, LatestKeys
<1>6. ASSUME Redeliver, UNCHANGED writer
      PROVE  TypeOK'
  <2>1. bronze[Len(bronze)] \in SUBSET BronzeRow
    BY <1>6 DEF TypeOK, Redeliver
  <2>. QED
    BY <1>6, <2>1, FileType DEF TypeOK, Redeliver
<1>7. ASSUME NEW e \in MalformedRows, LandMalformed(e), UNCHANGED writer
      PROVE  TypeOK'
  <2>1. {e} \in SUBSET BronzeRow
    BY MalformedAssumption
  <2>. QED
    BY <1>7, <2>1, FileType DEF TypeOK, LandMalformed
<1>8. CASE PlanBatch
  BY <1>8, BatchAssumption
  DEF TypeOK, PlanBatch, feed, frames, tables, Steps, LatestKeys
<1>9. CASE Quarantine
  <2>1. Batch \subseteq BronzeRow
    BY RowsType DEF TypeOK, Batch
  <2>2. opening = {} /\ closing = {}
    BY <1>9 DEF TypeOK, Quarantine
  <2>3. latest' \in SUBSET {e \in BronzeRow : IsGood(e)}
    BY <1>9, <2>1 DEF Quarantine, PickLatest
  <2>4. dlq' \in SUBSET BronzeRow
    BY <1>9, <2>1 DEF Quarantine, TypeOK
  <2>. QED
    BY <1>9, <2>2, <2>3, <2>4 DEF TypeOK, Quarantine, feed, checkpoint, Steps
<1>10. CASE MergeSilver
  <2>1. silver' \in [Keys -> SilverRow]
    BY <1>10, LatestRow, MergeType DEF TypeOK, MergeSilver
  <2>. QED
    BY <1>10, <2>1 DEF TypeOK, MergeSilver, feed, checkpoint, frames, Steps, LatestKeys
<1>11. CASE Classify
  BY <1>11 DEF TypeOK, Classify, feed, checkpoint, tables, Steps, LatestKeys
<1>12. CASE CloseHistory
  <2>1. ASSUME NEW k \in Keys, k \in closing
        PROVE  Closed(dim[k], LatestOf(k).lsn) \in Seq(HistoryRow)
    BY <2>1, LatestRow, GoodRow, ClosedType DEF TypeOK
  <2>2. dim' \in [Keys -> Seq(HistoryRow)]
    BY <1>12, <2>1 DEF TypeOK, CloseHistory
  <2>. QED
    BY <1>12, <2>2 DEF TypeOK, CloseHistory, feed, checkpoint, frames, Steps, LatestKeys
<1>13. CASE AppendHistory
  <2>1. ASSUME NEW k \in Keys, k \in opening
        PROVE  Opened(LatestOf(k)) \in HistoryRow
    BY <2>1, LatestRow, GoodRow DEF TypeOK, Opened, HistoryRow
  <2>2. dim' \in [Keys -> Seq(HistoryRow)]
    BY <1>13, <2>1 DEF TypeOK, AppendHistory
  <2>. QED
    BY <1>13, <2>2 DEF TypeOK, AppendHistory, feed, checkpoint, frames, Steps, LatestKeys
<1>14. CASE AdvanceCheckpoint
  BY <1>14 DEF TypeOK, AdvanceCheckpoint, feed, tables, Steps, LatestKeys
<1>15. CASE Restart
  BY <1>15 DEF TypeOK, Restart, feed, checkpoint, frames, tables, Steps, LatestKeys
<1>16. CASE Crash
  BY <1>16 DEF TypeOK, Crash, feed, checkpoint, tables, Steps, LatestKeys
<1>17. CASE UNCHANGED vars
  BY <1>17 DEF TypeOK, vars, feed, checkpoint, frames, tables, LatestKeys
<1>. QED
  BY <1>1, <1>2, <1>3, <1>4, <1>5, <1>6, <1>7, <1>8, <1>9, <1>10, <1>11, <1>12,
     <1>13, <1>14, <1>15, <1>16, <1>17
  DEF Next, Query

\* Every reachable state is well-typed: the checkpoint's logs never pass each
\* other, and a frame holds valid rows of its batch alone.
THEOREM TypeCorrect == Spec => []TypeOK
<1>. QED
  BY TypeInit, TypeNext, PTL DEF Spec

-----------------------------------------------------------------------------
(* Where rows come from.                                                   *)

\* The WAL's rows are changes, each at the index that is its LSN.
WalInv == \A i \in DOMAIN wal : wal[i].lsn = i /\ ~NotAChange(wal[i])

IsWalRow(e) == \E i \in DOMAIN wal : e = wal[i]

\* Bronze holds changes of the WAL and malformed rows; the frame of a batch holds
\* changes of the WAL only.
BronzeInv == \A j \in DOMAIN bronze : \A e \in bronze[j] : e \in MalformedRows \/ IsWalRow(e)

FrameInv == \A e \in latest : IsWalRow(e)

SourceInv == TypeOK /\ WalInv /\ BronzeInv /\ FrameInv /\ RowsFromSource

LEMMA SourceInit == Init => SourceInv
  BY TypeInit
  DEF Init, FeedInit, SourceInv, WalInv, BronzeInv, FrameInv, RowsFromSource

\* A change is at the end of the WAL; what was there stays where it was.
LEMMA CommitSource ==
    ASSUME SourceInv, TypeOK', NEW op \in Operations, NEW k \in Keys,
           NEW old \in Values \cup {NoValue}, NEW new \in Values \cup {NoValue},
           op = "d" => old # NoValue, op # "d" => new # NoValue,
           Commit(op, k, old, new), UNCHANGED writer
    PROVE  /\ SourceInv'
           /\ Len(wal') = Len(wal) + 1
           /\ \A i \in DOMAIN wal : wal'[i] = wal[i]
           /\ KeyOf(wal'[Len(wal) + 1]) = k
           /\ wal'[Len(wal) + 1].op = op
<1>. DEFINE row == [op |-> op,
                    before |-> IF old = NoValue THEN NoImage ELSE ImageOf(k, old),
                    after |-> IF new = NoValue THEN NoImage ELSE ImageOf(k, new),
                    lsn |-> Len(wal) + 1]
<1>1. wal' = Append(wal, row) /\ wal \in Seq(BronzeRow)
  BY DEF Commit, SourceInv, TypeOK
<1>2. /\ Len(wal') = Len(wal) + 1
      /\ DOMAIN wal = 1 .. Len(wal)
      /\ DOMAIN wal' = 1 .. Len(wal) + 1
      /\ \A i \in DOMAIN wal : wal'[i] = wal[i]
      /\ wal'[Len(wal) + 1] = row
  BY <1>1
<1>3. PayloadOf(row).state = "parsed" /\ KeyOf(row) = k /\ row.op = op
  BY DEF PayloadOf, KeyOf, ImageOf
<1>4. ~NotAChange(row)
  BY <1>1, <1>3, NullAssumption, LenProperties DEF NotAChange, NullLsn
<1>5. WalInv'
  BY <1>2, <1>4 DEF WalInv, SourceInv
<1>6. \A e : IsWalRow(e) => IsWalRow(e)'
  BY <1>2 DEF IsWalRow
<1>7. BronzeInv' /\ FrameInv'
  BY <1>6 DEF BronzeInv, FrameInv, SourceInv, Commit, writer, frames
<1>8. RowsFromSource'
  <2>1. silver' = silver /\ RowsFromSource
    BY DEF SourceInv, writer, tables
  <2>2. \A i \in DOMAIN wal : i \in DOMAIN wal' /\ wal'[i] = wal[i]
    BY <1>2
  <2>. QED
    BY <2>1, <2>2 DEF RowsFromSource
<1>. QED
  BY <1>2, <1>3, <1>5, <1>7, <1>8 DEF SourceInv

\* A file at the end of Bronze; the files before it stay.
LEMMA FileSource ==
    ASSUME SourceInv, TypeOK', NEW file,
           \A e \in file : e \in MalformedRows \/ IsWalRow(e),
           AppendFile(file), UNCHANGED wal, UNCHANGED writer
    PROVE  SourceInv'
<1>1. bronze' = Append(bronze, file) /\ bronze \in Seq(SUBSET BronzeRow)
  BY DEF AppendFile, SourceInv, TypeOK
<1>2. \A j \in DOMAIN bronze' : bronze'[j] = file \/ (j \in DOMAIN bronze /\ bronze'[j] = bronze[j])
  <2>1. bronze' \in Seq(SUBSET BronzeRow)
    BY DEF TypeOK
  <2>2. Len(bronze') = Len(bronze) + 1
    BY <1>1
  <2>. QED
    BY <1>1, <2>1, <2>2
<1>3. BronzeInv'
  BY <1>2 DEF BronzeInv, IsWalRow, SourceInv
<1>. QED
  BY <1>3 DEF SourceInv, WalInv, FrameInv, IsWalRow, RowsFromSource, writer, frames, tables

\* A row of a batch that passes validation is a change of the WAL.
LEMMA GoodIsWalRow ==
    ASSUME SourceInv, NEW m \in Nat \ {0}, NEW n \in 0 .. Len(bronze),
           NEW e \in RowsOf(m, n), IsGood(e)
    PROVE  IsWalRow(e)
<1>1. PICK j \in m .. n : e \in bronze[j]
  BY DEF RowsOf
<1>2. j \in DOMAIN bronze /\ e \in BronzeRow
  BY <1>1 DEF SourceInv, TypeOK
<1>3. e \notin MalformedRows
  BY <1>2, GoodRow, MalformedAssumption
<1>. QED
  BY <1>1, <1>2, <1>3 DEF SourceInv, BronzeInv

LEMMA SourceNext == SourceInv /\ [Next]_vars => SourceInv'
<1>. SUFFICES ASSUME SourceInv, [Next]_vars PROVE SourceInv'
  OBVIOUS
<1>. TypeOK /\ TypeOK'
  BY TypeNext DEF SourceInv
<1>1. ASSUME NEW k \in Keys, NEW v \in Values, Insert(k, v), UNCHANGED writer
      PROVE  SourceInv'
  BY <1>1, CommitSource, NullAssumption DEF Insert, Operations
<1>2. ASSUME NEW k \in Keys, NEW v \in Values, Update(k, v), UNCHANGED writer
      PROVE  SourceInv'
  BY <1>2, CommitSource, NullAssumption DEF Update, Operations, TypeOK
<1>3. ASSUME NEW k \in Keys, Delete(k), UNCHANGED writer
      PROVE  SourceInv'
  BY <1>3, CommitSource DEF Delete, Operations, TypeOK
<1>4. ASSUME NEW n \in 1 .. MaxChanges, Ship(n), UNCHANGED writer
      PROVE  SourceInv'
  <2>1. \A e \in {wal[i] : i \in shipped + 1 .. shipped + n} : IsWalRow(e)
    BY <1>4, FeedBounds DEF TypeOK, Ship, IsWalRow
  <2>. QED
    BY <1>4, <2>1, FileSource DEF Ship
<1>5. ASSUME NEW lsn \in 0 .. MaxChanges, Replay(lsn), UNCHANGED writer
      PROVE  SourceInv'
  BY <1>5
  DEF SourceInv, WalInv, BronzeInv, FrameInv, IsWalRow, RowsFromSource, Replay, writer, frames, tables
<1>6. ASSUME Redeliver, UNCHANGED writer
      PROVE  SourceInv'
  <2>1. Len(bronze) \in DOMAIN bronze
    BY <1>6 DEF TypeOK, Redeliver
  <2>. QED
    BY <1>6, <2>1, FileSource DEF SourceInv, BronzeInv, Redeliver
<1>7. ASSUME NEW e \in MalformedRows, LandMalformed(e), UNCHANGED writer
      PROVE  SourceInv'
  BY <1>7, FileSource DEF LandMalformed
<1>8. CASE Quarantine
  <2>1. \A e \in latest' : e \in Batch /\ IsGood(e)
    BY <1>8 DEF Quarantine, PickLatest
  <2>2. \A e \in latest' : IsWalRow(e)
    BY <2>1, GoodIsWalRow DEF Batch, TypeOK
  <2>. QED
    BY <1>8, <2>2
    DEF SourceInv, WalInv, BronzeInv, FrameInv, IsWalRow, RowsFromSource, Quarantine, feed
<1>9. CASE MergeSilver
  <2>1. ASSUME NEW k \in Keys, silver'[k] # NoRow
        PROVE  \E i \in DOMAIN wal :
                  /\ KeyOf(wal[i]) = k
                  /\ silver'[k] = [val |-> ValueOf(wal[i]), lsn |-> i, deleted |-> wal[i].op = "d"]
    <3>1. CASE silver'[k] = silver[k]
      BY <2>1, <3>1 DEF SourceInv, RowsFromSource
    <3>2. CASE silver'[k] # silver[k]
      <4>. DEFINE e == LatestOf(k)
      <4>1. k \in LatestKeys /\ silver'[k] = Merge(silver[k], e)
        BY <1>9, <3>2 DEF MergeSilver
      <4>2. PICK i \in DOMAIN wal : e = wal[i] /\ e.lsn = i /\ KeyOf(e) = k
        BY <4>1, LatestRow DEF SourceInv, FrameInv, WalInv, IsWalRow
      <4>3. \/ e.op # "d" /\ silver'[k] = Upserted(e)
            \/ e.op = "d" /\ silver'[k] = Deleted(e)
        BY <3>2, <4>1 DEF Merge
      <4>4. e.op = "d" => Deleted(e) = [val |-> ValueOf(e), lsn |-> e.lsn, deleted |-> TRUE]
        BY <2>1, <4>3 DEF Deleted, Upserted
      <4>. QED
        BY <4>2, <4>3, <4>4 DEF Upserted
    <3>. QED
      BY <3>1, <3>2
  <2>2. RowsFromSource'
    BY <1>9, <2>1 DEF RowsFromSource, MergeSilver, feed
  <2>. QED
    BY <1>9, <2>2 DEF SourceInv, WalInv, BronzeInv, FrameInv, IsWalRow, MergeSilver, feed, frames
<1>10. CASE AdvanceCheckpoint \/ Crash
  BY <1>10
  DEF SourceInv, WalInv, BronzeInv, FrameInv, IsWalRow, RowsFromSource, AdvanceCheckpoint, Crash, feed, tables
<1>11. CASE PlanBatch \/ Classify \/ CloseHistory \/ AppendHistory \/ Restart \/ UNCHANGED vars
  BY <1>11
  DEF SourceInv, WalInv, BronzeInv, FrameInv, IsWalRow, RowsFromSource,
      PlanBatch, Classify, CloseHistory, AppendHistory, Restart, vars, feed, frames, tables
<1>. QED
  BY <1>1, <1>2, <1>3, <1>4, <1>5, <1>6, <1>7, <1>8, <1>9, <1>10, <1>11 DEF Next, Query

LEMMA SourceInvariant == Spec => []SourceInv
<1>. QED
  BY SourceInit, SourceNext, PTL DEF Spec

\* A Silver row is always, column for column, the version of its key that Postgres
\* committed at the row's _source_lsn, and never a malformed row.
THEOREM RowsAreVersions == Spec => []RowsFromSource
<1>. QED
  BY SourceInvariant, PTL DEF SourceInv
=============================================================================
