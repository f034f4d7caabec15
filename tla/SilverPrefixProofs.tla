------------------------- MODULE SilverPrefixProofs -------------------------
(***************************************************************************)
(* What the Silver writer guarantees about the batches whose checkpoint is *)
(* written: their malformed rows are quarantined and, on a table without   *)
(* deletes, none of their changes is ever lost.                            *)
(***************************************************************************)
EXTENDS SilverProofs, WellFoundedInduction

-----------------------------------------------------------------------------
(* Batches.                                                                *)

\* A nonempty set of naturals with a bound has a greatest element.
LEMMA Greatest ==
    ASSUME NEW S \in SUBSET Nat, S # {}, NEW n \in Nat, \A x \in S : x <= n
    PROVE  \E x \in S : \A y \in S : y <= x
<1>. DEFINE T == {x \in 0 .. n : n - x \in S}
            R == OpToRel(<, Nat)
<1>1. T \subseteq Nat
  OBVIOUS
<1>2. T # {}
  <2>1. PICK x \in S : TRUE
    OBVIOUS
  <2>2. n - x \in T
    BY <2>1
  <2>. QED
    BY <2>2
<1>3. PICK m \in T : \A y \in T : ~(<<y, m>> \in R)
  BY ONLY <1>1, <1>2, NatLessThanWellFounded, WFMin, Zenon
<1>4. \A y \in T : ~(y < m)
  BY <1>1, <1>3 DEF OpToRel
<1>5. n - m \in S
  OBVIOUS
<1>6. \A y \in S : n - y \in T
  OBVIOUS
<1>7. \A y \in S : y <= n - m
  BY <1>4, <1>6
<1>. QED
  BY <1>5, <1>7

\* The committed files and the planned ones together are a prefix of Bronze.
LEMMA RowsSplit ==
    ASSUME TypeOK
    PROVE  RowsOf(1, planned) = CommittedRows \cup Batch
<1>1. /\ committed \in Nat /\ planned \in Nat /\ committed <= planned
  BY DEF TypeOK
<1>2. 1 .. planned = (1 .. committed) \cup (committed + 1 .. planned)
  BY <1>1
<1>. QED
  BY <1>2 DEF RowsOf, CommittedRows, Batch

\* What the steps outside the query leave alone.
Outside ==
    /\ UNCHANGED writer
    /\ \/ bronze' = bronze
       \/ \E file \in SUBSET BronzeRow : bronze' = Append(bronze, file)

\* Files at the end of Bronze leave the older files as they are.
LEMMA FilesStay ==
    ASSUME TypeOK, Outside, NEW m \in Nat \ {0}, NEW n \in 0 .. Len(bronze)
    PROVE  \A i \in m .. n : bronze'[i] = bronze[i]
<1>1. CASE bronze' = bronze
  BY <1>1
<1>2. ASSUME NEW file \in SUBSET BronzeRow, bronze' = Append(bronze, file)
      PROVE  \A i \in m .. n : bronze'[i] = bronze[i]
  <2>1. \A i \in m .. n : i \in 1 .. Len(bronze)
    OBVIOUS
  <2>2. bronze \in Seq(SUBSET BronzeRow)
    BY DEF TypeOK
  <2>3. \A i \in 1 .. Len(bronze) : Append(bronze, file)[i] = bronze[i]
    BY <2>2
  <2>. QED
    BY <1>2, <2>1, <2>3
<1>. QED
  BY <1>1, <1>2 DEF Outside

LEMMA OutsideKeepsBatches ==
    ASSUME TypeOK, Outside
    PROVE  Batch' = Batch /\ CommittedRows' = CommittedRows
<1>1. /\ committed \in Nat /\ committed \in 0 .. Len(bronze) /\ planned \in 0 .. Len(bronze)
      /\ committed' = committed /\ planned' = planned
  BY DEF TypeOK, Outside, writer, checkpoint
<1>2. RowsOf(committed + 1, planned)' = RowsOf(committed + 1, planned)
  <2>1. \A i \in committed + 1 .. planned : bronze'[i] = bronze[i]
    BY <1>1, FilesStay
  <2>. QED
    BY <1>1, <2>1 DEF RowsOf
<1>3. RowsOf(1, committed)' = RowsOf(1, committed)
  <2>1. \A i \in 1 .. committed : bronze'[i] = bronze[i]
    BY <1>1, FilesStay
  <2>. QED
    BY <1>1, <2>1 DEF RowsOf
<1>. QED
  BY <1>2, <1>3 DEF Batch, CommittedRows

\* Every step is a step of the outside or of the query, or stutters.
LEMMA StepKinds ==
    ASSUME TypeOK, [Next]_vars
    PROVE  Outside \/ Query \/ Crash
<1>1. ASSUME NEW k \in Keys, NEW v \in Values, Insert(k, v) \/ Update(k, v), UNCHANGED writer
      PROVE  Outside
  BY <1>1 DEF Insert, Update, Commit, Outside
<1>2. ASSUME NEW k \in Keys, Delete(k), UNCHANGED writer
      PROVE  Outside
  BY <1>2 DEF Delete, Commit, Outside
<1>3. ASSUME NEW n \in 1 .. MaxChanges, Ship(n), UNCHANGED writer
      PROVE  Outside
  <2>1. {wal[i] : i \in shipped + 1 .. shipped + n} \in SUBSET BronzeRow
    BY <1>3, FeedBounds DEF TypeOK, Ship
  <2>. QED
    BY <1>3, <2>1 DEF Ship, AppendFile, Outside
<1>4. ASSUME NEW lsn \in 0 .. MaxChanges, Replay(lsn), UNCHANGED writer
      PROVE  Outside
  BY <1>4 DEF Replay, Outside
<1>5. ASSUME Redeliver, UNCHANGED writer
      PROVE  Outside
  BY <1>5 DEF TypeOK, Redeliver, AppendFile, Outside
<1>6. ASSUME NEW e \in MalformedRows, LandMalformed(e), UNCHANGED writer
      PROVE  Outside
  BY <1>6, MalformedAssumption DEF LandMalformed, AppendFile, Outside
<1>7. CASE UNCHANGED vars
  BY <1>7 DEF vars, feed, writer, Outside
<1>. QED
  BY <1>1, <1>2, <1>3, <1>4, <1>5, <1>6, <1>7 DEF Next

-----------------------------------------------------------------------------
(* Quarantine.                                                             *)

\* validate() calls a row bad only if it is malformed, and every malformed row bad
\* unless its operation is NULL.
LEMMA BadRow ==
    ASSUME NEW e \in BronzeRow
    PROVE  /\ IsBad(e) => NotAChange(e)
           /\ NotAChange(e) /\ e.op # "null" => IsBad(e)
<1>1. PayloadOf(e).state \in {"absent", "garbled", "parsed"}
  BY DEF BronzeRow, Image, PayloadOf
<1>2. e.op \in Operations \/ e.op = "t" \/ e.op = "null"
  BY DEF BronzeRow
<1>3. IsBad(e) <=> \/ e.op \notin Operations \cup {"null"}
                   \/ PayloadOf(e).state = "absent"
                   \/ PayloadOf(e).state = "garbled"
                   \/ KeyOf(e) = NullKey
                   \/ e.lsn = NullLsn
  BY DEF IsBad, ErrorType
<1>. QED
  BY <1>1, <1>2, <1>3 DEF NotAChange

\* The steps of a batch after its quarantine.
Quarantined == pc \in {"merge", "classify", "close", "append", "checkpoint"}

QuarantineInv ==
    /\ TypeOK
    /\ QuarantineExact
    /\ Quarantined => \A e \in Batch : IsBad(e) => e \in dlq

LEMMA QuarantineInit == Init => QuarantineInv
<1>1. ASSUME Init PROVE CommittedRows = {}
  BY <1>1 DEF Init, FeedInit, CommittedRows, RowsOf
<1>. QED
  BY <1>1, TypeInit DEF Init, QuarantineInv, QuarantineExact, Quarantined

LEMMA QuarantineNext == QuarantineInv /\ [Next]_vars => QuarantineInv'
<1>. SUFFICES ASSUME QuarantineInv, [Next]_vars PROVE QuarantineInv'
  OBVIOUS
<1>. TypeOK /\ TypeOK'
  BY TypeNext DEF QuarantineInv
<1>1. CASE Outside
  BY <1>1, OutsideKeepsBatches
  DEF QuarantineInv, QuarantineExact, Quarantined, Outside, writer, tables
<1>2. CASE Quarantine
  <2>1. Batch' = Batch /\ CommittedRows' = CommittedRows
    BY <1>2 DEF Quarantine, Batch, CommittedRows, RowsOf, feed, checkpoint
  <2>2. Batch \subseteq BronzeRow
    BY RowsType DEF TypeOK, Batch
  <2>3. dlq' = dlq \cup {e \in Batch : IsBad(e)}
    BY <1>2 DEF Quarantine
  <2>. QED
    BY <2>1, <2>2, <2>3, BadRow DEF QuarantineInv, QuarantineExact
<1>3. CASE MergeSilver \/ Classify \/ CloseHistory \/ AppendHistory
  <2>1. Batch' = Batch /\ CommittedRows' = CommittedRows /\ dlq' = dlq /\ Quarantined
    BY <1>3
    DEF MergeSilver, Classify, CloseHistory, AppendHistory,
        Batch, CommittedRows, RowsOf, feed, checkpoint, tables, Quarantined
  <2>. QED
    BY <2>1 DEF QuarantineInv, QuarantineExact
<1>4. CASE AdvanceCheckpoint
  <2>1. CommittedRows' = CommittedRows \cup Batch /\ dlq' = dlq /\ ~Quarantined'
    BY <1>4, RowsSplit DEF AdvanceCheckpoint, CommittedRows, RowsOf, feed, tables, Quarantined
  <2>2. Batch \subseteq BronzeRow
    BY RowsType DEF TypeOK, Batch
  <2>3. \A e \in Batch : IsBad(e) => e \in dlq
    BY <1>4 DEF QuarantineInv, AdvanceCheckpoint, Quarantined
  <2>. QED
    BY <2>1, <2>2, <2>3, BadRow DEF QuarantineInv, QuarantineExact
<1>5. CASE PlanBatch \/ Restart \/ Crash
  <2>1. CommittedRows' = CommittedRows /\ dlq' = dlq /\ ~Quarantined'
    BY <1>5
    DEF PlanBatch, Restart, Crash, CommittedRows, RowsOf, feed, checkpoint, tables, Quarantined
  <2>. QED
    BY <2>1 DEF QuarantineInv, QuarantineExact
<1>. QED
  BY <1>1, <1>2, <1>3, <1>4, <1>5, StepKinds DEF Query

\* Once a batch is committed its malformed rows are in silver.dlq_events, except
\* those whose operation is NULL, and no change of the source ever is.
THEOREM QuarantineIsExact == Spec => []QuarantineExact
<1>. QED
  BY QuarantineInit, QuarantineNext, PTL DEF Spec, QuarantineInv

-----------------------------------------------------------------------------
(* No lost update.                                                         *)

\* The table's rows are only inserted and updated, the documented life of every
\* soft-deleted entity.
NoDeletes == \A i \in DOMAIN wal : wal[i].op # "d"

\* The frame of a quarantined batch holds, for each good row, a row of the same
\* key with the same LSN or a later one.
FrameCovers ==
    Quarantined =>
        \A e \in Batch : IsGood(e) => \E f \in latest : KeyOf(f) = KeyOf(e) /\ f.lsn >= e.lsn

FrameUnique == \A f, g \in latest : KeyOf(f) = KeyOf(g) => f.lsn <= g.lsn

\* After the MERGE, Silver has caught up with the frame.
FrameMerged ==
    pc \in {"classify", "close", "append", "checkpoint"} =>
        \A f \in latest : silver[KeyOf(f)].lsn >= f.lsn

UpdateInv ==
    /\ SourceInv
    /\ NoDeletes
    /\ FrameCovers
    /\ FrameUnique
    /\ FrameMerged
    /\ NoLostUpdate

LEMMA UpdateInit == Init => UpdateInv
<1>1. ASSUME Init PROVE CommittedRows = {}
  BY <1>1 DEF Init, FeedInit, CommittedRows, RowsOf
<1>. QED
  BY <1>1, SourceInit
  DEF Init, FeedInit, UpdateInv, NoDeletes, FrameCovers, FrameUnique, FrameMerged, NoLostUpdate, Quarantined

\* pick_latest_per_key() covers every row it is given, and keeps one LSN a key.
LEMMA PickCovers ==
    ASSUME NEW rows \in SUBSET BronzeRow, NEW n \in Nat, \A e \in rows : e.lsn <= n
    PROVE  /\ \A e \in rows : \E f \in PickLatest(rows) : KeyOf(f) = KeyOf(e) /\ f.lsn >= e.lsn
           /\ \A f, g \in PickLatest(rows) : KeyOf(f) = KeyOf(g) => f.lsn <= g.lsn
<1>1. ASSUME NEW e \in rows
      PROVE  \E f \in PickLatest(rows) : KeyOf(f) = KeyOf(e) /\ f.lsn >= e.lsn
  <2>. DEFINE S == {f.lsn : f \in {g \in rows : KeyOf(g) = KeyOf(e)}}
  <2>1. S \in SUBSET Nat
    BY DEF BronzeRow
  <2>2. e.lsn \in S
    OBVIOUS
  <2>3. PICK x \in S : \A y \in S : y <= x
    <3>1. S # {} /\ \A y \in S : y <= n
      BY <2>2
    <3>. HIDE DEF S
    <3>. QED
      BY <2>1, <3>1, Greatest
  <2>4. PICK f \in rows : KeyOf(f) = KeyOf(e) /\ f.lsn = x
    BY <2>3
  <2>5. f \in PickLatest(rows)
    BY <2>3, <2>4 DEF PickLatest
  <2>6. f.lsn >= e.lsn
    BY <2>1, <2>2, <2>3, <2>4
  <2>. QED
    BY <2>4, <2>5, <2>6
<1>2. \A f, g \in PickLatest(rows) : KeyOf(f) = KeyOf(g) => f.lsn <= g.lsn
  BY DEF PickLatest
<1>. QED
  BY <1>1, <1>2

\* On a table without deletes a MERGE never lowers the LSN of a row, and raises it
\* at least to that of the source row.
LEMMA MergeMonotone ==
    ASSUME NEW row \in SilverRow, NEW e \in BronzeRow, e.op # "d"
    PROVE  Merge(row, e).lsn >= row.lsn /\ Merge(row, e).lsn >= e.lsn
<1>1. row.lsn \in Nat /\ e.lsn \in Nat /\ NoRow.lsn = 0
  BY DEF SilverRow, BronzeRow, NoRow, NullLsn
<1>2. Upserted(e).lsn = e.lsn
  BY DEF Upserted
<1>3. CASE row # NoRow /\ e.lsn > row.lsn
  <2>1. Merge(row, e) = Upserted(e)
    BY <1>3 DEF Merge
  <2>. QED
    BY <1>1, <1>2, <1>3, <2>1
<1>4. CASE row # NoRow /\ ~(e.lsn > row.lsn)
  <2>1. Merge(row, e) = row
    BY <1>4 DEF Merge
  <2>. QED
    BY <1>1, <1>4, <2>1
<1>5. CASE row = NoRow
  <2>1. Merge(row, e) = Upserted(e)
    BY <1>5 DEF Merge
  <2>. QED
    BY <1>1, <1>2, <1>5, <2>1
<1>. QED
  BY <1>3, <1>4, <1>5

\* No step of a source without deletes adds one.
LEMMA NoDeletesNext ==
    ASSUME "d" \notin SourceOps, SourceInv, NoDeletes, [Next]_vars
    PROVE  NoDeletes'
<1>. TypeOK /\ TypeOK'
  BY TypeNext DEF SourceInv
<1>1. ASSUME NEW op \in Operations, NEW k \in Keys,
             NEW old \in Values \cup {NoValue}, NEW new \in Values,
             op # "d", Commit(op, k, old, new), UNCHANGED writer
      PROVE  NoDeletes'
  <2>1. /\ Len(wal') = Len(wal) + 1
        /\ \A i \in DOMAIN wal : wal'[i] = wal[i]
        /\ wal'[Len(wal) + 1].op = op
    BY <1>1, CommitSource, NullAssumption
  <2>2. \A i \in DOMAIN wal' : i \in DOMAIN wal \/ i = Len(wal) + 1
    BY <2>1 DEF TypeOK
  <2>. QED
    BY <1>1, <2>1, <2>2 DEF NoDeletes
<1>2. ASSUME NEW k \in Keys, NEW v \in Values, Insert(k, v), UNCHANGED writer
      PROVE  NoDeletes'
  BY <1>1, <1>2 DEF Insert, Operations
<1>3. ASSUME NEW k \in Keys, NEW v \in Values, Update(k, v), UNCHANGED writer
      PROVE  NoDeletes'
  BY <1>1, <1>3 DEF Update, Operations, TypeOK
<1>4. ASSUME NEW k \in Keys, Delete(k)
      PROVE  FALSE
  BY <1>4 DEF Delete, Commit
<1>5. ASSUME UNCHANGED wal
      PROVE  NoDeletes'
  BY <1>5 DEF NoDeletes
<1>6. CASE Query \/ Crash \/ UNCHANGED vars
  BY <1>5, <1>6
  DEF Query, PlanBatch, Quarantine, MergeSilver, Classify, CloseHistory, AppendHistory,
      AdvanceCheckpoint, Restart, Crash, vars, feed
<1>. QED
  BY <1>2, <1>3, <1>4, <1>5, <1>6 DEF Next, Ship, Replay, Redeliver, LandMalformed

\* The frame of a batch covers its good rows.
LEMMA QuarantineUpdate ==
    ASSUME UpdateInv, SourceInv', NoDeletes', Quarantine
    PROVE  UpdateInv'
<1>. DEFINE good == {e \in Batch : IsGood(e)}
<1>. TypeOK /\ SourceInv
  BY DEF UpdateInv, SourceInv
<1>1. Batch \subseteq BronzeRow
  BY RowsType DEF TypeOK, Batch
<1>2. \A e \in good : e.lsn <= Len(wal)
  <2>1. \A e \in good : IsWalRow(e)
    BY GoodIsWalRow DEF Batch, TypeOK
  <2>2. \A i \in DOMAIN wal : wal[i].lsn = i /\ i <= Len(wal)
    BY DEF SourceInv, WalInv, TypeOK
  <2>. QED
    BY <2>1, <2>2 DEF IsWalRow
<1>3. /\ \A e \in good : \E f \in latest' : KeyOf(f) = KeyOf(e) /\ f.lsn >= e.lsn
      /\ \A f, g \in latest' : KeyOf(f) = KeyOf(g) => f.lsn <= g.lsn
  <2>1. latest' = PickLatest(good)
    BY DEF Quarantine
  <2>2. good \in SUBSET BronzeRow /\ Len(wal) \in Nat
    BY <1>1 DEF TypeOK
  <2>. HIDE DEF good
  <2>. QED
    BY <1>2, <2>1, <2>2, PickCovers
<1>4. Batch' = Batch /\ CommittedRows' = CommittedRows /\ silver' = silver
  BY DEF Quarantine, Batch, CommittedRows, RowsOf, feed, checkpoint
<1>5. pc' \in {"classify", "close", "append", "checkpoint"} => latest' = {}
  BY DEF Quarantine
<1>. QED
  BY <1>3, <1>4, <1>5 DEF UpdateInv, FrameCovers, FrameUnique, FrameMerged, NoLostUpdate

\* The MERGE brings Silver up to the frame, and takes no row back.
LEMMA MergeUpdate ==
    ASSUME UpdateInv, SourceInv', NoDeletes', MergeSilver
    PROVE  UpdateInv'
<1>. TypeOK /\ SourceInv
  BY DEF UpdateInv, SourceInv
<1>1. ASSUME NEW e \in latest
      PROVE  e \in BronzeRow /\ e.lsn \in Nat /\ e.op # "d" /\ KeyOf(e) \in Keys
  <2>1. e \in BronzeRow /\ IsGood(e)
    BY DEF TypeOK
  <2>2. e.op # "d"
    BY DEF SourceInv, FrameInv, IsWalRow, UpdateInv, NoDeletes
  <2>. QED
    BY <2>1, <2>2, GoodRow
<1>2. ASSUME NEW k \in LatestKeys
      PROVE  /\ k \in Keys
             /\ silver'[k].lsn >= silver[k].lsn
             /\ silver'[k].lsn >= LatestOf(k).lsn
  <2>1. LatestOf(k) \in latest /\ KeyOf(LatestOf(k)) = k
    BY LatestRow
  <2>2. k \in Keys /\ silver[k] \in SilverRow
    BY <1>1, <2>1 DEF TypeOK
  <2>3. silver'[k] = Merge(silver[k], LatestOf(k))
    BY <2>2 DEF MergeSilver
  <2>. QED
    BY <1>1, <2>1, <2>2, <2>3, MergeMonotone
<1>3. \A k \in Keys : silver[k].lsn \in Nat /\ silver'[k].lsn \in Nat
  BY DEF TypeOK, SourceInv, SilverRow
<1>4. \A k \in Keys : silver'[k].lsn >= silver[k].lsn
  <2>1. ASSUME NEW k \in Keys, k \notin LatestKeys
        PROVE  silver'[k] = silver[k]
    BY <2>1 DEF MergeSilver
  <2>. QED
    BY <1>2, <1>3, <2>1
<1>5. Batch' = Batch /\ CommittedRows' = CommittedRows /\ latest' = latest /\ Quarantined
  BY DEF MergeSilver, Batch, CommittedRows, RowsOf, feed, checkpoint, frames, Quarantined
<1>6. \A f \in latest : silver'[KeyOf(f)].lsn >= f.lsn
  <2>. SUFFICES ASSUME NEW f \in latest
                PROVE  silver'[KeyOf(f)].lsn >= f.lsn
    OBVIOUS
  <2>. DEFINE k == KeyOf(f)
  <2>1. k \in LatestKeys /\ k \in Keys
    BY <1>1 DEF LatestKeys
  <2>2. LatestOf(k) \in latest /\ KeyOf(LatestOf(k)) = k
    BY <2>1, LatestRow
  <2>3. f.lsn <= LatestOf(k).lsn
    BY <2>2 DEF UpdateInv, FrameUnique
  <2>. QED
    BY <1>1, <1>2, <1>3, <2>1, <2>2, <2>3
<1>7. CommittedRows \subseteq BronzeRow
  BY RowsType DEF TypeOK, CommittedRows
<1>8. NoLostUpdate'
  <2>. SUFFICES ASSUME NEW e \in CommittedRows, IsGood(e)
                PROVE  silver'[KeyOf(e)].lsn >= e.lsn
    BY <1>5 DEF NoLostUpdate
  <2>1. silver[KeyOf(e)].lsn >= e.lsn
    BY DEF UpdateInv, NoLostUpdate
  <2>2. KeyOf(e) \in Keys /\ e.lsn \in Nat
    BY <1>7, GoodRow
  <2>. QED
    BY <1>3, <1>4, <2>1, <2>2
<1>. QED
  BY <1>5, <1>6, <1>8 DEF UpdateInv, FrameCovers, FrameUnique, FrameMerged

\* A committed batch has been merged.
LEMMA CheckpointUpdate ==
    ASSUME UpdateInv, SourceInv', NoDeletes', AdvanceCheckpoint
    PROVE  UpdateInv'
<1>. TypeOK /\ SourceInv
  BY DEF UpdateInv, SourceInv
<1>1. /\ CommittedRows' = CommittedRows \cup Batch
      /\ silver' = silver
      /\ latest' = {}
      /\ pc' = "idle"
  BY RowsSplit DEF AdvanceCheckpoint, CommittedRows, RowsOf, feed, tables
<1>2. Batch \subseteq BronzeRow
  BY RowsType DEF TypeOK, Batch
<1>3. ASSUME NEW e \in Batch, IsGood(e)
      PROVE  silver[KeyOf(e)].lsn >= e.lsn
  <2>1. PICK f \in latest : KeyOf(f) = KeyOf(e) /\ f.lsn >= e.lsn
    BY <1>3 DEF AdvanceCheckpoint, UpdateInv, FrameCovers, Quarantined
  <2>2. silver[KeyOf(f)].lsn >= f.lsn
    BY DEF AdvanceCheckpoint, UpdateInv, FrameMerged
  <2>3. KeyOf(e) \in Keys /\ e.lsn \in Nat /\ f.lsn \in Nat
    BY <1>2, <1>3, GoodRow DEF TypeOK
  <2>4. silver[KeyOf(e)].lsn \in Nat
    BY <2>3 DEF TypeOK, SilverRow
  <2>. QED
    BY <2>1, <2>2, <2>3, <2>4
<1>4. NoLostUpdate'
  BY <1>1, <1>3 DEF UpdateInv, NoLostUpdate
<1>. QED
  BY <1>1, <1>4 DEF UpdateInv, FrameCovers, FrameUnique, FrameMerged, Quarantined

LEMMA UpdateNext ==
    ASSUME "d" \notin SourceOps
    PROVE  UpdateInv /\ [Next]_vars => UpdateInv'
<1>. SUFFICES ASSUME UpdateInv, [Next]_vars PROVE UpdateInv'
  OBVIOUS
<1>. TypeOK /\ SourceInv' /\ NoDeletes'
  BY SourceNext, NoDeletesNext DEF UpdateInv, SourceInv
<1>1. CASE Outside
  <2>1. /\ Batch' = Batch
        /\ CommittedRows' = CommittedRows
        /\ UNCHANGED <<pc, latest, silver>>
    BY <1>1, OutsideKeepsBatches DEF Outside, writer, frames, tables
  <2>. QED
    BY <2>1 DEF UpdateInv, FrameCovers, FrameUnique, FrameMerged, NoLostUpdate, Quarantined
<1>2. CASE Quarantine
  BY <1>2, QuarantineUpdate
<1>3. CASE MergeSilver
  BY <1>3, MergeUpdate
<1>4. CASE Classify \/ CloseHistory \/ AppendHistory
  <2>1. /\ Batch' = Batch
        /\ CommittedRows' = CommittedRows
        /\ UNCHANGED <<latest, silver>>
        /\ pc \in {"classify", "close", "append"}
    BY <1>4
    DEF Classify, CloseHistory, AppendHistory,
        Batch, CommittedRows, RowsOf, feed, checkpoint, frames, tables
  <2>. QED
    BY <2>1 DEF UpdateInv, FrameCovers, FrameUnique, FrameMerged, NoLostUpdate, Quarantined
<1>5. CASE AdvanceCheckpoint
  BY <1>5, CheckpointUpdate
<1>6. CASE PlanBatch \/ Restart \/ Crash
  <2>1. /\ CommittedRows' = CommittedRows
        /\ silver' = silver
        /\ latest' \subseteq latest
        /\ pc' \in {"idle", "quarantine", "down"}
    BY <1>6
    DEF PlanBatch, Restart, Crash, CommittedRows, RowsOf, feed, checkpoint, frames, tables
  <2>. QED
    BY <2>1 DEF UpdateInv, FrameCovers, FrameUnique, FrameMerged, NoLostUpdate, Quarantined
<1>. QED
  BY <1>1, <1>2, <1>3, <1>4, <1>5, <1>6, StepKinds DEF Query

\* On a table without deletes (every table but order_items) no committed change is
\* ever lost: duplicates, replays, malformed rows and crashes between the writes
\* of a batch leave each Silver row at that change of its key or a later one.
THEOREM NoUpdateIsLost ==
    ASSUME "d" \notin SourceOps
    PROVE  Spec => []NoLostUpdate
<1>1. Init => UpdateInv
  BY UpdateInit
<1>2. UpdateInv /\ [Next]_vars => UpdateInv'
  BY UpdateNext
<1>3. UpdateInv => NoLostUpdate
  BY DEF UpdateInv
<1>. QED
  BY <1>1, <1>2, <1>3, PTL DEF Spec
=============================================================================
