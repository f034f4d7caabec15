---------------------------- MODULE HistoryProofs ----------------------------
(***************************************************************************)
(* Theorems about the order in which the Silver writer applies changes:    *)
(* the history dimension is a chain whatever is replayed and wherever the  *)
(* writer dies, and, as long as Debezium does not replay, Silver and the   *)
(* history show the last change of each key and deleted rows stay deleted. *)
(***************************************************************************)
EXTENDS SilverPrefixProofs

-----------------------------------------------------------------------------
(* The inductive invariants.                                               *)

GoodRows == {e \in Batch : IsGood(e)}

\* Two files are copies, or the changes of the first are older than those of the
\* second.
InOrder(file, later) ==
    \/ file = later
    \/ \A e \in file, f \in later : IsGood(e) /\ IsGood(f) => e.lsn < f.lsn

\* Without replays Bronze holds the changes in order, but for copies of a file that
\* follow it.
FilesInv ==
    replays = 0 =>
        /\ \A i, j \in DOMAIN bronze : i < j => InOrder(bronze[i], bronze[j])
        /\ \A j \in DOMAIN bronze : \A e \in bronze[j] : IsGood(e) => e.lsn <= shipped

\* The frame of a batch, until the batch is committed.
FrameIsLatest == Quarantined => latest = PickLatest(GoodRows)

\* The changes of a key in the first n files, and the last of them.
ChangesOf(k, n) == {e \in RowsOf(1, n) : IsGood(e) /\ KeyOf(e) = k}

IsTop(e, k, n) == e \in ChangesOf(k, n) /\ \A f \in ChangesOf(k, n) : f.lsn <= e.lsn

\* The Silver row of a key, if there is one, is that of the first n files.
SilverAt(k, n) == silver[k] # NoRow => \E e \in ChangesOf(k, n) : IsTop(e, k, n) /\ silver[k].lsn = e.lsn

Merged == pc \in {"classify", "close", "append", "checkpoint"}

SilverFollows ==
    replays = 0 =>
        \A k \in Keys :
            /\ SilverAt(k, committed) \/ SilverAt(k, planned)
            /\ Merged => SilverAt(k, planned)

OrderInv ==
    /\ SourceInv
    /\ pc = "idle" => planned = committed
    /\ FilesInv
    /\ FrameIsLatest
    /\ SilverFollows

\* The links of the chain.
Linked ==
    \A k \in Keys :
        /\ \A i \in 1 .. Len(dim[k]) - 1 :
            /\ ~dim[k][i].current
            /\ dim[k][i].to = dim[k][i + 1].from
            /\ dim[k][i].val # dim[k][i + 1].val
        /\ \A i \in 1 .. Len(dim[k]) : ~dim[k][i].current => dim[k][i].from < dim[k][i].to

\* The last row of a key is closed and the next is not there yet.
Gap(k) == dim[k] # <<>> /\ ~dim[k][Len(dim[k])].current

\* The change that closed it is the last of its key in the batch that runs again.
GapIsClosing(k) ==
    \E e \in GoodRows :
        /\ KeyOf(e) = k /\ e.lsn = dim[k][Len(dim[k])].to
        /\ ValueOf(e) # dim[k][Len(dim[k])].val
        /\ \A f \in GoodRows : KeyOf(f) = k => f.lsn <= e.lsn

\* What the cached classification says of the history, before and between the two
\* commits.
Classified ==
    /\ pc = "close" =>
        /\ opening = {k \in LatestKeys : IsNew(k) \/ IsChanged(k)}
        /\ closing = {k \in LatestKeys : IsChanged(k)}
    /\ pc = "append" => \A k \in Keys : (k \in opening => IsNew(k)) /\ (Gap(k) => k \in opening)

ChainInv ==
    /\ OrderInv
    /\ Linked
    /\ \A k \in Keys : Gap(k) => pc \notin {"idle", "checkpoint"} /\ GapIsClosing(k)
    /\ Classified
    /\ ~HasScd2 => pc \notin {"classify", "close", "append"} /\ \A k \in Keys : dim[k] = <<>>

\* The current history row of a key shows the first n files.
HistoryAt(k, n) ==
    \/ ChangesOf(k, n) = {} /\ dim[k] = <<>>
    \/ \E e \in ChangesOf(k, n) :
           /\ IsTop(e, k, n)
           /\ \E i \in CurrentRows(k) : dim[k][i].val = ValueOf(e) /\ dim[k][i].from <= e.lsn

HistoryFollows ==
    HasScd2 /\ replays = 0 =>
        \A k \in Keys :
            /\ HistoryAt(k, committed) \/ HistoryAt(k, planned) \/ Gap(k)
            /\ pc = "append" /\ k \notin opening => HistoryAt(k, planned)
            /\ pc = "checkpoint" => HistoryAt(k, planned)

HistoryInv == ChainInv /\ HistoryFollows

-----------------------------------------------------------------------------
(* Files and the changes in them.                                          *)

\* A valid row of a range of files is the change of a key at its LSN.
LEMMA GoodInRange ==
    ASSUME SourceInv, NEW m \in Nat \ {0}, NEW n \in 0 .. Len(bronze),
           NEW e \in RowsOf(m, n), IsGood(e)
    PROVE  /\ e \in BronzeRow /\ e.lsn \in Nat /\ KeyOf(e) \in Keys
           /\ e.lsn \in DOMAIN wal /\ e = wal[e.lsn] /\ e.lsn <= Len(wal)
<1>1. e \in BronzeRow
  BY RowsType DEF SourceInv, TypeOK
<1>2. PICK i \in DOMAIN wal : e = wal[i]
  BY GoodIsWalRow DEF IsWalRow
<1>3. wal[i].lsn = i /\ i <= Len(wal)
  BY DEF SourceInv, WalInv, TypeOK
<1>. QED
  BY <1>1, <1>2, <1>3, GoodRow

\* The bounds of a batch.
LEMMA BatchRange ==
    ASSUME TypeOK
    PROVE  /\ committed \in Nat /\ planned \in Nat /\ committed <= planned
           /\ committed \in 0 .. Len(bronze) /\ planned \in 0 .. Len(bronze)
           /\ committed + 1 \in Nat \ {0}
  BY DEF TypeOK

\* A file at the end of Bronze that is in order.
LEMMA FilesAppend ==
    ASSUME TypeOK, TypeOK', FilesInv, NEW file, bronze' = Append(bronze, file),
           replays' = replays, shipped' >= shipped,
           replays = 0 =>
               /\ \A i \in DOMAIN bronze : InOrder(bronze[i], file)
               /\ \A e \in file : IsGood(e) => e.lsn <= shipped'
    PROVE  FilesInv'
<1>1. bronze \in Seq(SUBSET BronzeRow) /\ shipped \in Nat /\ shipped' \in Nat
  BY DEF TypeOK
<1>2. /\ DOMAIN bronze = 1 .. Len(bronze) /\ Len(bronze) \in Nat
      /\ DOMAIN bronze' = 1 .. Len(bronze) + 1
      /\ \A i \in 1 .. Len(bronze) : bronze'[i] = bronze[i]
      /\ bronze'[Len(bronze) + 1] = file
  BY <1>1
<1>. SUFFICES ASSUME replays = 0
              PROVE  /\ \A i, j \in DOMAIN bronze' : i < j => InOrder(bronze'[i], bronze'[j])
                     /\ \A j \in DOMAIN bronze' : \A e \in bronze'[j] : IsGood(e) => e.lsn <= shipped'
  BY DEF FilesInv
<1>3. ASSUME NEW i \in DOMAIN bronze', NEW j \in DOMAIN bronze', i < j
      PROVE  InOrder(bronze'[i], bronze'[j])
  <2>1. CASE j \in DOMAIN bronze
    <3>1. i \in DOMAIN bronze /\ bronze'[i] = bronze[i] /\ bronze'[j] = bronze[j]
      BY <1>2, <1>3, <2>1
    <3>. QED
      BY <1>3, <2>1, <3>1 DEF FilesInv
  <2>2. CASE j = Len(bronze) + 1
    <3>1. i \in DOMAIN bronze /\ bronze'[i] = bronze[i] /\ bronze'[j] = file
      BY <1>2, <1>3, <2>2
    <3>. QED
      BY <3>1
  <2>. QED
    BY <1>2, <2>1, <2>2
<1>4. ASSUME NEW j \in DOMAIN bronze', NEW e \in bronze'[j], IsGood(e)
      PROVE  e.lsn <= shipped'
  <2>1. CASE j \in DOMAIN bronze
    <3>1. e \in bronze[j] /\ e \in BronzeRow
      BY <1>1, <1>2, <2>1
    <3>2. e.lsn <= shipped /\ e.lsn \in Nat
      BY <1>4, <2>1, <3>1, GoodRow DEF FilesInv
    <3>. QED
      BY <1>1, <3>2
  <2>2. CASE j = Len(bronze) + 1
    BY <1>2, <1>4, <2>2
  <2>. QED
    BY <1>2, <2>1, <2>2
<1>. QED
  BY <1>3, <1>4

LEMMA FilesNext ==
    ASSUME SourceInv, SourceInv', FilesInv, [Next]_vars
    PROVE  FilesInv'
<1>. TypeOK /\ TypeOK'
  BY DEF SourceInv
<1>1. ASSUME NEW n \in 1 .. MaxChanges, Ship(n)
      PROVE  FilesInv'
  <2>. DEFINE file == {wal[i] : i \in shipped + 1 .. shipped + n}
  <2>1. /\ bronze' = Append(bronze, file) /\ replays' = replays
        /\ shipped' = shipped + n /\ shipped + n <= Len(wal)
    BY <1>1 DEF Ship, AppendFile
  <2>2. n \in Nat /\ shipped \in Nat /\ Len(wal) \in Nat /\ DOMAIN wal = 1 .. Len(wal)
    BY FeedBounds DEF TypeOK
  <2>3. ASSUME NEW f \in file
        PROVE  f.lsn \in Nat /\ shipped < f.lsn /\ f.lsn <= shipped + n
    <3>1. PICK i \in shipped + 1 .. shipped + n : f = wal[i]
      OBVIOUS
    <3>2. i \in DOMAIN wal /\ i \in Nat /\ shipped < i /\ i <= shipped + n
      BY <2>1, <2>2
    <3>3. f.lsn = i
      BY <3>1, <3>2 DEF SourceInv, WalInv
    <3>. QED
      BY <3>2, <3>3
  <2>4. ASSUME replays = 0, NEW j \in DOMAIN bronze
        PROVE  InOrder(bronze[j], file)
    <3>1. ASSUME NEW e \in bronze[j], NEW f \in file, IsGood(e)
          PROVE  e.lsn < f.lsn
      <4>1. e \in BronzeRow
        BY DEF TypeOK
      <4>2. e.lsn <= shipped /\ e.lsn \in Nat
        BY <2>4, <3>1, <4>1, GoodRow DEF FilesInv
      <4>. QED
        BY <2>2, <2>3, <4>2
    <3>. QED
      BY <3>1 DEF InOrder
  <2>. HIDE DEF file
  <2>. QED
    BY <2>1, <2>2, <2>3, <2>4, FilesAppend
<1>2. ASSUME NEW lsn \in 0 .. MaxChanges, Replay(lsn)
      PROVE  FilesInv'
  <2>1. replays' # 0
    BY <1>2 DEF Replay, TypeOK
  <2>. QED
    BY <2>1 DEF FilesInv
<1>3. CASE Redeliver
  <2>. DEFINE file == bronze[Len(bronze)]
  <2>1. /\ bronze' = Append(bronze, file) /\ replays' = replays /\ shipped' = shipped
    BY <1>3 DEF Redeliver, AppendFile
  <2>2. Len(bronze) \in Nat /\ Len(bronze) \in DOMAIN bronze /\ DOMAIN bronze = 1 .. Len(bronze)
    BY <1>3 DEF Redeliver, TypeOK
  <2>3. ASSUME replays = 0, NEW i \in DOMAIN bronze
        PROVE  InOrder(bronze[i], file)
    <3>1. CASE i = Len(bronze)
      BY <3>1 DEF InOrder
    <3>2. CASE i < Len(bronze)
      BY <2>2, <2>3, <3>2 DEF FilesInv
    <3>. QED
      BY <2>2, <3>1, <3>2
  <2>4. replays = 0 => \A e \in file : IsGood(e) => e.lsn <= shipped'
    BY <2>1, <2>2 DEF FilesInv
  <2>5. shipped' >= shipped
    BY <2>1 DEF TypeOK
  <2>. HIDE DEF file
  <2>. QED
    BY <2>1, <2>3, <2>4, <2>5, FilesAppend
<1>4. ASSUME NEW e \in MalformedRows, LandMalformed(e)
      PROVE  FilesInv'
  <2>1. ~IsGood(e)
    BY GoodRow, MalformedAssumption
  <2>2. bronze' = Append(bronze, {e}) /\ replays' = replays /\ shipped' = shipped
    BY <1>4 DEF LandMalformed, AppendFile
  <2>3. \A f \in {e} : ~IsGood(f)
    BY <2>1
  <2>4. \A i \in DOMAIN bronze : InOrder(bronze[i], {e})
    BY <2>3 DEF InOrder
  <2>5. shipped' >= shipped
    BY <2>2 DEF TypeOK
  <2>. QED
    BY <2>2, <2>3, <2>4, <2>5, FilesAppend
<1>5. ASSUME UNCHANGED <<bronze, replays, shipped>>
      PROVE  FilesInv'
  BY <1>5 DEF FilesInv
<1>6. ASSUME NEW k \in Keys, NEW v \in Values, Insert(k, v) \/ Update(k, v) \/ Delete(k)
      PROVE  FilesInv'
  BY <1>5, <1>6 DEF Insert, Update, Delete, Commit
<1>7. ASSUME NEW k \in Keys, Delete(k)
      PROVE  FilesInv'
  BY <1>5, <1>7 DEF Delete, Commit
<1>8. CASE Query \/ Crash \/ UNCHANGED vars
  BY <1>5, <1>8
  DEF Query, PlanBatch, Quarantine, MergeSilver, Classify, CloseHistory, AppendHistory,
      AdvanceCheckpoint, Restart, Crash, vars, feed
<1>. QED
  BY <1>1, <1>2, <1>3, <1>4, <1>6, <1>7, <1>8 DEF Next

-----------------------------------------------------------------------------
(* What a batch adds to the changes of a key.                              *)

\* The changes in the planned files are those in the committed ones and in the
\* batch.
LEMMA ChangesSplit ==
    ASSUME TypeOK, NEW k
    PROVE  ChangesOf(k, planned) = ChangesOf(k, committed) \cup {e \in GoodRows : KeyOf(e) = k}
  BY RowsSplit DEF ChangesOf, GoodRows, CommittedRows

\* The changes of a key are changes of the WAL, told apart by their LSN.
LEMMA ChangesType ==
    ASSUME SourceInv, NEW k
    PROVE  /\ ChangesOf(k, committed) \subseteq ChangesOf(k, planned)
           /\ \A e \in ChangesOf(k, planned) :
                /\ e \in BronzeRow /\ e.lsn \in Nat /\ e = wal[e.lsn] /\ e.lsn \in DOMAIN wal
                /\ IsGood(e) /\ KeyOf(e) = k /\ k \in Keys
<1>. TypeOK
  BY DEF SourceInv
<1>1. ChangesOf(k, committed) \subseteq ChangesOf(k, planned)
  BY ChangesSplit
<1>2. ASSUME NEW e \in ChangesOf(k, planned)
      PROVE  /\ e \in BronzeRow /\ e.lsn \in Nat /\ e = wal[e.lsn] /\ e.lsn \in DOMAIN wal
             /\ IsGood(e) /\ KeyOf(e) = k /\ k \in Keys
  <2>1. e \in RowsOf(1, planned) /\ IsGood(e) /\ KeyOf(e) = k
    BY DEF ChangesOf
  <2>2. planned \in 0 .. Len(bronze) /\ 1 \in Nat \ {0}
    BY BatchRange
  <2>. QED
    BY <2>1, <2>2, GoodInRange
<1>. QED
  BY <1>1, <1>2

\* The rows that pass validation, and the frame of the latest of them.
LEMMA GoodRowsType ==
    ASSUME SourceInv
    PROVE  /\ GoodRows \in SUBSET BronzeRow
           /\ \A e \in GoodRows : /\ e \in ChangesOf(KeyOf(e), planned)
                                  /\ e.lsn \in Nat /\ e.lsn <= Len(wal) /\ e = wal[e.lsn]
           /\ \A e \in GoodRows : \E f \in PickLatest(GoodRows) : KeyOf(f) = KeyOf(e) /\ f.lsn >= e.lsn
<1>. TypeOK
  BY DEF SourceInv
<1>1. Batch \subseteq BronzeRow
  BY RowsType, BatchRange DEF TypeOK, Batch
<1>2. GoodRows \in SUBSET BronzeRow
  BY <1>1 DEF GoodRows
<1>3. ASSUME NEW e \in GoodRows
      PROVE  e.lsn \in Nat /\ e.lsn <= Len(wal) /\ e = wal[e.lsn]
  BY BatchRange, GoodInRange DEF GoodRows, Batch
<1>4. ASSUME NEW e \in GoodRows
      PROVE  e \in ChangesOf(KeyOf(e), planned)
  BY ChangesSplit
<1>5. \A e \in GoodRows : \E f \in PickLatest(GoodRows) : KeyOf(f) = KeyOf(e) /\ f.lsn >= e.lsn
  <2>1. Len(wal) \in Nat
    BY DEF TypeOK
  <2>. QED
    BY <1>2, <1>3, <2>1, PickCovers
<1>. QED
  BY <1>2, <1>3, <1>4, <1>5

\* A key of the batch is in its frame, with the last change of the batch.
LEMMA FrameRow ==
    ASSUME SourceInv, FrameIsLatest, Quarantined
    PROVE  /\ \A e \in GoodRows : KeyOf(e) \in LatestKeys
           /\ \A k \in LatestKeys :
                /\ LatestOf(k) \in GoodRows /\ KeyOf(LatestOf(k)) = k /\ k \in Keys
                /\ \A f \in GoodRows : KeyOf(f) = k => f.lsn <= LatestOf(k).lsn
<1>1. latest = PickLatest(GoodRows)
  BY DEF FrameIsLatest
<1>2. \A e \in GoodRows : KeyOf(e) \in LatestKeys
  BY <1>1, GoodRowsType DEF LatestKeys
<1>3. ASSUME NEW k \in LatestKeys
      PROVE  /\ LatestOf(k) \in GoodRows /\ KeyOf(LatestOf(k)) = k /\ k \in Keys
             /\ \A f \in GoodRows : KeyOf(f) = k => f.lsn <= LatestOf(k).lsn
  <2>1. LatestOf(k) \in latest /\ KeyOf(LatestOf(k)) = k
    BY LatestRow
  <2>2. /\ LatestOf(k) \in GoodRows
        /\ \A f \in GoodRows : KeyOf(f) = KeyOf(LatestOf(k)) => f.lsn <= LatestOf(k).lsn
    BY <1>1, <2>1 DEF PickLatest
  <2>3. LatestOf(k) \in BronzeRow /\ IsGood(LatestOf(k))
    BY <2>2, GoodRowsType DEF GoodRows
  <2>. QED
    BY <2>1, <2>2, <2>3, GoodRow
<1>. QED
  BY <1>2, <1>3

\* A key that is not in the frame has no change in the batch.
LEMMA NotInFrame ==
    ASSUME SourceInv, FrameIsLatest, Quarantined, NEW k, k \notin LatestKeys
    PROVE  ChangesOf(k, planned) = ChangesOf(k, committed)
<1>. TypeOK
  BY DEF SourceInv
<1>1. {e \in GoodRows : KeyOf(e) = k} = {}
  BY FrameRow
<1>. QED
  BY <1>1, ChangesSplit

\* Without replays, the last change of a key in the batch is its last change in
\* all files planned so far: those of older files are older, or the same.
LEMMA TopOfBatch ==
    ASSUME SourceInv, FilesInv, FrameIsLatest, Quarantined, replays = 0, NEW k \in LatestKeys
    PROVE  IsTop(LatestOf(k), k, planned)
<1>. TypeOK
  BY DEF SourceInv
<1>. DEFINE e == LatestOf(k)
<1>1. /\ e \in GoodRows /\ KeyOf(e) = k
      /\ \A f \in GoodRows : KeyOf(f) = k => f.lsn <= e.lsn
  BY FrameRow
<1>2. e \in ChangesOf(k, planned) /\ e.lsn \in Nat
  BY <1>1, GoodRowsType
<1>3. PICK i \in committed + 1 .. planned : e \in bronze[i]
  BY <1>1 DEF GoodRows, Batch, RowsOf
<1>4. ASSUME NEW f \in ChangesOf(k, committed)
      PROVE  f.lsn <= e.lsn
  <2>1. f \in ChangesOf(k, planned) /\ f.lsn \in Nat /\ IsGood(f) /\ KeyOf(f) = k
    BY ChangesType
  <2>2. PICK j \in 1 .. committed : f \in bronze[j]
    BY DEF ChangesOf, RowsOf
  <2>3. i \in DOMAIN bronze /\ j \in DOMAIN bronze /\ j < i
    BY BatchRange DEF TypeOK
  <2>4. InOrder(bronze[j], bronze[i])
    BY <2>3 DEF FilesInv
  <2>5. CASE bronze[j] = bronze[i]
    <3>1. f \in GoodRows
      BY <2>1, <2>2, <2>5 DEF GoodRows, Batch, RowsOf
    <3>. QED
      BY <1>1, <2>1, <3>1
  <2>6. CASE bronze[j] # bronze[i]
    <3>1. f.lsn < e.lsn
      BY <1>1, <1>3, <2>1, <2>2, <2>4, <2>6 DEF InOrder, GoodRows
    <3>. QED
      BY <1>2, <2>1, <3>1
  <2>. QED
    BY <2>5, <2>6
<1>5. \A f \in ChangesOf(k, planned) : f.lsn <= e.lsn
  BY <1>1, <1>4, ChangesSplit
<1>. QED
  BY <1>2, <1>5 DEF IsTop

\* Steps outside the query leave the changes of both prefixes as they are.
LEMMA OutsideKeepsChanges ==
    ASSUME TypeOK, Outside
    PROVE  /\ GoodRows' = GoodRows
           /\ \A k : /\ ChangesOf(k, committed)' = ChangesOf(k, committed)
                     /\ ChangesOf(k, planned)' = ChangesOf(k, planned)
<1>1. Batch' = Batch /\ CommittedRows' = CommittedRows
  BY OutsideKeepsBatches
<1>2. RowsOf(1, planned)' = RowsOf(1, planned)
  <2>1. planned' = planned
    BY DEF Outside, writer, checkpoint
  <2>2. \A i \in 1 .. planned : bronze'[i] = bronze[i]
    BY BatchRange, FilesStay
  <2>. QED
    BY <2>1, <2>2 DEF RowsOf
<1>3. GoodRows' = GoodRows
  BY <1>1 DEF GoodRows
<1>. QED
  BY <1>1, <1>2, <1>3 DEF ChangesOf, CommittedRows

\* The steps of a batch between its plan and its checkpoint, and crashes.
LEMMA InsideKeepsChanges ==
    ASSUME Quarantine \/ MergeSilver \/ Classify \/ CloseHistory \/ AppendHistory \/ Restart \/ Crash
    PROVE  /\ GoodRows' = GoodRows
           /\ \A k : /\ ChangesOf(k, committed)' = ChangesOf(k, committed)
                     /\ ChangesOf(k, planned)' = ChangesOf(k, planned)
           /\ UNCHANGED <<feed, committed, planned>>
<1>1. UNCHANGED <<bronze, committed, planned, feed>>
  BY DEF Quarantine, MergeSilver, Classify, CloseHistory, AppendHistory, Restart, Crash,
         feed, checkpoint
<1>. QED
  BY <1>1 DEF GoodRows, Batch, ChangesOf, RowsOf

-----------------------------------------------------------------------------
(* Silver follows the order of the changes.                                *)

LEMMA OrderInit == Init => OrderInv
<1>. SUFFICES ASSUME Init PROVE OrderInv
  OBVIOUS
<1>1. SourceInv
  BY SourceInit
<1>. QED
  BY <1>1
  DEF Init, FeedInit, OrderInv, FilesInv, FrameIsLatest, Quarantined, SilverFollows, SilverAt, Merged

LEMMA FrameNext ==
    ASSUME SourceInv, FrameIsLatest, [Next]_vars
    PROVE  FrameIsLatest'
<1>. TypeOK
  BY DEF SourceInv
<1>1. CASE Outside
  BY <1>1, OutsideKeepsChanges DEF FrameIsLatest, Quarantined, Outside, writer, frames
<1>2. CASE Quarantine
  BY <1>2, InsideKeepsChanges DEF FrameIsLatest, Quarantine, GoodRows
<1>3. CASE MergeSilver \/ Classify \/ CloseHistory \/ AppendHistory
  <2>1. GoodRows' = GoodRows
    BY <1>3, InsideKeepsChanges
  <2>2. Quarantined /\ latest' = latest
    BY <1>3 DEF MergeSilver, Classify, CloseHistory, AppendHistory, Quarantined, frames
  <2>. QED
    BY <2>1, <2>2 DEF FrameIsLatest
<1>4. CASE AdvanceCheckpoint \/ PlanBatch \/ Restart \/ Crash
  <2>1. ~Quarantined'
    BY <1>4 DEF AdvanceCheckpoint, PlanBatch, Restart, Crash, Quarantined
  <2>. QED
    BY <2>1 DEF FrameIsLatest
<1>. QED
  BY <1>1, <1>2, <1>3, <1>4, StepKinds DEF Query

\* A row that Silver has from the committed or the planned files is no later than
\* the last change of its key in the planned ones.
LEMMA SilverBound ==
    ASSUME SourceInv, NEW k, SilverAt(k, committed) \/ SilverAt(k, planned), silver[k] # NoRow,
           NEW e, IsTop(e, k, planned)
    PROVE  silver[k].lsn <= e.lsn /\ silver[k].lsn \in Nat /\ e.lsn \in Nat
<1>1. PICK f \in ChangesOf(k, planned) : silver[k].lsn = f.lsn
  BY ChangesType DEF SilverAt
<1>. QED
  BY <1>1, ChangesType DEF IsTop

\* The MERGE leaves the row of a key of the frame as its last change has it.
LEMMA MergeFollows ==
    ASSUME OrderInv, replays = 0, MergeSilver, NEW k \in Keys
    PROVE  SilverAt(k, planned)'
<1>. TypeOK /\ SourceInv /\ FilesInv /\ FrameIsLatest /\ Quarantined
  BY DEF OrderInv, SourceInv, MergeSilver, Quarantined
<1>1. ChangesOf(k, planned)' = ChangesOf(k, planned)
  BY InsideKeepsChanges
<1>2. SilverAt(k, committed) \/ SilverAt(k, planned)
  BY DEF OrderInv, SilverFollows
<1>3. CASE k \in LatestKeys
  <2>. DEFINE e == LatestOf(k)
  <2>1. IsTop(e, k, planned)
    BY <1>3, TopOfBatch
  <2>2. silver'[k] = Merge(silver[k], e)
    BY <1>3 DEF MergeSilver
  <2>3. silver'[k] # NoRow => silver'[k].lsn = e.lsn
    <3>1. CASE silver[k] = NoRow
      BY <2>2, <3>1 DEF Merge, Upserted
    <3>2. CASE silver[k] # NoRow /\ e.lsn > silver[k].lsn
      BY <2>2, <3>2 DEF Merge, Upserted, Deleted
    <3>3. CASE silver[k] # NoRow /\ ~(e.lsn > silver[k].lsn)
      <4>1. silver'[k] = silver[k]
        BY <2>2, <3>3 DEF Merge
      <4>. QED
        BY <1>2, <2>1, <3>3, <4>1, SilverBound
    <3>. QED
      BY <3>1, <3>2, <3>3
  <2>4. e \in ChangesOf(k, planned) /\ \A f \in ChangesOf(k, planned) : f.lsn <= e.lsn
    BY <2>1 DEF IsTop
  <2>. HIDE DEF e
  <2>. QED
    BY <1>1, <2>3, <2>4 DEF SilverAt, IsTop
<1>4. CASE k \notin LatestKeys
  <2>1. ChangesOf(k, planned) = ChangesOf(k, committed)
    BY <1>4, NotInFrame
  <2>2. silver'[k] = silver[k]
    BY <1>4 DEF MergeSilver
  <2>. QED
    BY <1>1, <1>2, <2>1, <2>2 DEF SilverAt, IsTop
<1>. QED
  BY <1>3, <1>4

\* The number of replays never goes back to zero.
LEMMA ReplaysGrow ==
    ASSUME TypeOK, [Next]_vars
    PROVE  replays' = 0 => replays = 0
<1>1. ASSUME NEW lsn \in 0 .. MaxChanges, Replay(lsn)
      PROVE  replays' # 0
  BY <1>1 DEF Replay, TypeOK
<1>2. ASSUME NEW k \in Keys, NEW v \in Values, Insert(k, v) \/ Update(k, v)
      PROVE  replays' = replays
  BY <1>2 DEF Insert, Update, Commit
<1>3. ASSUME NEW k \in Keys, Delete(k)
      PROVE  replays' = replays
  BY <1>3 DEF Delete, Commit
<1>4. CASE Query \/ Crash \/ UNCHANGED vars
  BY <1>4
  DEF Query, PlanBatch, Quarantine, MergeSilver, Classify, CloseHistory, AppendHistory,
      AdvanceCheckpoint, Restart, Crash, vars, feed
<1>. QED
  BY <1>1, <1>2, <1>3, <1>4 DEF Next, Ship, Redeliver, LandMalformed

LEMMA OrderNext == OrderInv /\ [Next]_vars => OrderInv'
<1>. SUFFICES ASSUME OrderInv, [Next]_vars PROVE OrderInv'
  OBVIOUS
<1>. SourceInv /\ SourceInv' /\ TypeOK /\ TypeOK'
  BY SourceNext DEF OrderInv, SourceInv
<1>. FilesInv /\ FilesInv' /\ FrameIsLatest /\ FrameIsLatest'
  BY FilesNext, FrameNext DEF OrderInv
<1>1. CASE Outside
  <2>1. UNCHANGED <<pc, committed, planned, silver>>
    BY <1>1 DEF Outside, writer, checkpoint, tables
  <2>2. replays' = 0 => replays = 0
    BY ReplaysGrow
  <2>3. \A k : /\ SilverAt(k, committed)' <=> SilverAt(k, committed)
               /\ SilverAt(k, planned)' <=> SilverAt(k, planned)
    BY <1>1, <2>1, OutsideKeepsChanges DEF SilverAt, IsTop
  <2>. QED
    BY <2>1, <2>2, <2>3 DEF OrderInv, SilverFollows, Merged
<1>2. CASE PlanBatch
  <2>1. /\ planned = committed /\ committed' = committed /\ silver' = silver /\ feed' = feed
        /\ pc' = "quarantine"
    BY <1>2 DEF PlanBatch, OrderInv, tables
  <2>2. \A k : ChangesOf(k, committed)' = ChangesOf(k, committed)
    BY <2>1 DEF ChangesOf, RowsOf, feed
  <2>3. \A k : SilverAt(k, committed)' <=> SilverAt(k, committed)
    BY <2>1, <2>2 DEF SilverAt, IsTop
  <2>. QED
    BY <2>1, <2>3 DEF OrderInv, SilverFollows, Merged, feed
<1>3. CASE Quarantine
  <2>1. \A k : /\ SilverAt(k, committed)' <=> SilverAt(k, committed)
               /\ SilverAt(k, planned)' <=> SilverAt(k, planned)
    BY <1>3, InsideKeepsChanges DEF SilverAt, IsTop, Quarantine
  <2>2. ASSUME Merged', NEW k \in Keys, replays = 0
        PROVE  SilverAt(k, planned)
    <3>1. latest' = {} /\ latest' = PickLatest(GoodRows)
      BY <1>3, <2>2 DEF Quarantine, Merged, GoodRows
    <3>2. GoodRows = {}
      BY <3>1, GoodRowsType
    <3>3. ChangesOf(k, planned) = ChangesOf(k, committed)
      BY <3>2, ChangesSplit
    <3>. QED
      BY <2>2, <3>3 DEF OrderInv, SilverFollows, SilverAt, IsTop
  <2>. QED
    BY <1>3, <2>1, <2>2 DEF OrderInv, SilverFollows, Quarantine, feed
<1>4. CASE MergeSilver
  BY <1>4, MergeFollows DEF OrderInv, SilverFollows, MergeSilver, feed
<1>5. CASE Classify \/ CloseHistory \/ AppendHistory \/ Crash
  <2>1. silver' = silver /\ replays' = replays /\ pc' # "idle" /\ (Merged' => Merged)
    BY <1>5 DEF Classify, CloseHistory, AppendHistory, Crash, Merged, tables, feed
  <2>2. \A k : /\ SilverAt(k, committed)' <=> SilverAt(k, committed)
               /\ SilverAt(k, planned)' <=> SilverAt(k, planned)
    BY <1>5, <2>1, InsideKeepsChanges DEF SilverAt, IsTop
  <2>. QED
    BY <2>1, <2>2 DEF OrderInv, SilverFollows
<1>6. CASE Restart
  <2>1. silver' = silver /\ replays' = replays /\ ~Merged' /\ (pc' = "idle" => planned = committed)
    BY <1>6 DEF Restart, Merged, tables, feed
  <2>2. \A k : /\ SilverAt(k, committed)' <=> SilverAt(k, committed)
               /\ SilverAt(k, planned)' <=> SilverAt(k, planned)
    BY <1>6, <2>1, InsideKeepsChanges DEF SilverAt, IsTop
  <2>3. committed' = committed /\ planned' = planned
    BY <1>6 DEF Restart, checkpoint
  <2>. QED
    BY <2>1, <2>2, <2>3 DEF OrderInv, SilverFollows
<1>7. CASE AdvanceCheckpoint
  <2>1. /\ silver' = silver /\ replays' = replays /\ bronze' = bronze
        /\ committed' = planned /\ planned' = planned /\ pc = "checkpoint" /\ pc' = "idle"
    BY <1>7 DEF AdvanceCheckpoint, tables, feed
  <2>2. \A k : ChangesOf(k, planned)' = ChangesOf(k, planned)
    BY <2>1 DEF ChangesOf, RowsOf
  <2>3. \A k : SilverAt(k, planned)' <=> SilverAt(k, planned)
    BY <2>1, <2>2 DEF SilverAt, IsTop
  <2>4. Merged /\ ~Merged'
    BY <2>1 DEF Merged
  <2>. QED
    BY <2>1, <2>3, <2>4 DEF OrderInv, SilverFollows
<1>. QED
  BY <1>1, <1>2, <1>3, <1>4, <1>5, <1>6, <1>7, StepKinds DEF Query

LEMMA OrderInvariant == Spec => []OrderInv
<1>. QED
  BY OrderInit, OrderNext, PTL DEF Spec

\* Silver's row of a deleted key is that of the delete, or of a later change.
LEMMA DeletedStays ==
    ASSUME OrderInv
    PROVE  DeletedStaysDeleted
<1>. SourceInv /\ TypeOK
  BY DEF OrderInv, SourceInv
<1>. SUFFICES ASSUME replays = 0, NEW e \in CommittedRows, IsGood(e), e.op = "d",
                     silver[KeyOf(e)] # NoRow
              PROVE  silver[KeyOf(e)].deleted \/ silver[KeyOf(e)].lsn > e.lsn
  BY DEF DeletedStaysDeleted
<1>. DEFINE k == KeyOf(e)
<1>1. e \in ChangesOf(k, committed)
  BY DEF ChangesOf, CommittedRows
<1>2. e \in ChangesOf(k, planned) /\ k \in Keys /\ e.lsn \in Nat /\ e = wal[e.lsn]
  BY <1>1, ChangesType
<1>3. silver[k].lsn >= e.lsn /\ silver[k].lsn \in Nat
  <2>1. SilverAt(k, committed) \/ SilverAt(k, planned)
    BY <1>2 DEF OrderInv, SilverFollows
  <2>2. PICK f \in ChangesOf(k, planned) : silver[k].lsn = f.lsn /\ e.lsn <= f.lsn
    BY <1>1, <1>2, <2>1, ChangesType DEF SilverAt, IsTop
  <2>. QED
    BY <1>2, <2>2, ChangesType
<1>4. PICK i \in DOMAIN wal : silver[k] = [val |-> ValueOf(wal[i]), lsn |-> i, deleted |-> wal[i].op = "d"]
  BY <1>2 DEF SourceInv, RowsFromSource
<1>5. CASE silver[k].lsn = e.lsn
  <2>1. silver[k].lsn = i /\ silver[k].deleted = (wal[i].op = "d")
    BY <1>4
  <2>2. wal[i].op = "d"
    BY <1>2, <1>5, <2>1
  <2>. QED
    BY <2>1, <2>2, Zenon
<1>6. CASE silver[k].lsn # e.lsn
  BY <1>2, <1>3, <1>6
<1>. QED
  BY <1>5, <1>6

\* As long as Debezium does not replay, a row whose delete is in a committed batch
\* is gone, marked deleted, or was inserted again by a later change.
THEOREM DeletesLast == Spec => []DeletedStaysDeleted
<1>. QED
  BY OrderInvariant, DeletedStays, PTL

-----------------------------------------------------------------------------
(* The history is a chain.                                                 *)

\* What is needed of the rows of a history.
LEMMA HistoryRows ==
    ASSUME TypeOK, NEW k \in Keys
    PROVE  /\ Len(dim[k]) \in Nat /\ DOMAIN dim[k] = 1 .. Len(dim[k])
           /\ (dim[k] # <<>> <=> Len(dim[k]) # 0)
           /\ \A i \in 1 .. Len(dim[k]) :
                /\ dim[k][i] \in HistoryRow
                /\ dim[k][i].from \in Nat /\ dim[k][i].to \in Nat /\ dim[k][i].current \in BOOLEAN
<1>1. dim[k] \in Seq(HistoryRow)
  BY DEF TypeOK
<1>2. Len(dim[k]) \in Nat /\ DOMAIN dim[k] = 1 .. Len(dim[k])
  BY <1>1
<1>3. dim[k] # <<>> <=> Len(dim[k]) # 0
  BY <1>1
<1>4. ASSUME NEW i \in 1 .. Len(dim[k])
      PROVE  dim[k][i] \in HistoryRow
  BY <1>1
<1>. QED
  BY <1>2, <1>3, <1>4 DEF HistoryRow

\* Only the last row of a key may be current, and a gap is a history without a
\* current row.
LEMMA CurrentIsLast ==
    ASSUME TypeOK, Linked, NEW k \in Keys
    PROVE  /\ \A i \in CurrentRows(k) : dim[k] # <<>> /\ i = Len(dim[k]) /\ dim[k][i].current
           /\ Gap(k) <=> dim[k] # <<>> /\ IsNew(k)
<1>1. /\ Len(dim[k]) \in Nat /\ DOMAIN dim[k] = 1 .. Len(dim[k])
      /\ (dim[k] # <<>> <=> Len(dim[k]) # 0)
  BY HistoryRows
<1>2. \A i \in 1 .. Len(dim[k]) - 1 : ~dim[k][i].current
  BY DEF Linked
<1>3. \A i \in CurrentRows(k) : dim[k] # <<>> /\ i = Len(dim[k]) /\ dim[k][i].current
  BY <1>1, <1>2 DEF CurrentRows
<1>4. Gap(k) <=> dim[k] # <<>> /\ IsNew(k)
  <2>1. dim[k] # <<>> => Len(dim[k]) \in DOMAIN dim[k]
    BY <1>1
  <2>. QED
    BY <1>3, <2>1 DEF Gap, IsNew, CurrentRows
<1>. QED
  BY <1>3, <1>4

\* The key of a gap is in the frame and not current, so it is classified as new.
LEMMA GapIsOpened ==
    ASSUME ChainInv, Quarantined, NEW k \in Keys, Gap(k)
    PROVE  k \in LatestKeys /\ IsNew(k)
<1>. TypeOK /\ SourceInv /\ FrameIsLatest /\ Linked
  BY DEF ChainInv, OrderInv, SourceInv
<1>1. IsNew(k)
  BY CurrentIsLast
<1>2. PICK e \in GoodRows : KeyOf(e) = k
  BY DEF ChainInv, GapIsClosing
<1>. QED
  BY <1>1, <1>2, FrameRow

LEMMA ChainInit == Init => ChainInv
<1>. SUFFICES ASSUME Init PROVE ChainInv
  OBVIOUS
<1>1. OrderInv
  BY OrderInit
<1>2. \A k \in Keys : dim[k] = <<>> /\ Len(dim[k]) = 0
  BY DEF Init
<1>3. pc = "idle"
  BY DEF Init
<1>. QED
  BY <1>1, <1>2, <1>3 DEF ChainInv, Linked, Gap, Classified

\* apply_scd2() closes the current row of a changed key with a later change of
\* other values, and leaves the rows before it.
LEMMA ClosedRows ==
    ASSUME ChainInv, CloseHistory, NEW k \in closing
    PROVE  /\ k \in LatestKeys /\ k \in Keys /\ dim[k] # <<>> /\ dim'[k] # <<>>
           /\ Len(dim'[k]) = Len(dim[k])
           /\ \A i \in 1 .. Len(dim[k]) - 1 : dim'[k][i] = dim[k][i]
           /\ LET n == Len(dim[k]) IN
                /\ dim'[k][n].val = dim[k][n].val /\ dim'[k][n].from = dim[k][n].from
                /\ ~dim'[k][n].current /\ dim'[k][n].to = LatestOf(k).lsn
                /\ dim[k][n].from < LatestOf(k).lsn
                /\ ValueOf(LatestOf(k)) # dim[k][n].val
<1>. TypeOK /\ SourceInv /\ FrameIsLatest /\ Linked /\ Quarantined
  BY DEF ChainInv, OrderInv, SourceInv, CloseHistory, Quarantined
<1>1. k \in LatestKeys /\ IsChanged(k)
  BY DEF CloseHistory, ChainInv, Classified
<1>2. k \in Keys /\ LatestOf(k) \in BronzeRow /\ LatestOf(k).lsn \in Nat
  BY <1>1, FrameRow, GoodRowsType
<1>. DEFINE n == Len(dim[k])
<1>3. /\ n \in Nat /\ DOMAIN dim[k] = 1 .. n
      /\ \A i \in 1 .. n : dim[k][i] \in HistoryRow /\ dim[k][i].from \in Nat
  BY <1>2, HistoryRows
<1>4. PICK i \in CurrentRows(k) :
        LatestOf(k).lsn > dim[k][i].from /\ ValueOf(LatestOf(k)) # dim[k][i].val
  BY <1>1 DEF IsChanged
<1>5. i = n /\ dim[k][n].current /\ dim[k] # <<>> /\ n \in 1 .. n
  BY <1>2, <1>3, CurrentIsLast DEF CurrentRows
<1>6. dim'[k] = Closed(dim[k], LatestOf(k).lsn)
  BY <1>2 DEF CloseHistory
<1>7. /\ Len(dim'[k]) = n
      /\ dim'[k] # <<>>
  <2>1. dim[k] \in Seq(HistoryRow)
    BY <1>2 DEF TypeOK
  <2>2. Closed(dim[k], LatestOf(k).lsn) \in Seq(HistoryRow) /\ Len(Closed(dim[k], LatestOf(k).lsn)) = n
    BY <1>2, <2>1, ClosedType
  <2>. QED
    BY <1>3, <1>5, <1>6, <2>2
<1>8. \A j \in 1 .. n - 1 : dim'[k][j] = dim[k][j]
  <2>1. \A j \in 1 .. n - 1 : ~dim[k][j].current /\ j \in DOMAIN dim[k]
    BY <1>2, <1>3 DEF Linked
  <2>. QED
    BY <1>6, <2>1 DEF Closed
<1>9. dim'[k][n] = [dim[k][n] EXCEPT !.to = LatestOf(k).lsn, !.current = FALSE]
  BY <1>3, <1>5, <1>6 DEF Closed
<1>10. /\ dim'[k][n].val = dim[k][n].val /\ dim'[k][n].from = dim[k][n].from
       /\ ~dim'[k][n].current /\ dim'[k][n].to = LatestOf(k).lsn
  <2>1. dim[k][n] \in HistoryRow
    BY <1>3, <1>5
  <2>. QED
    BY <1>9, <2>1 DEF HistoryRow
<1>. QED
  BY <1>1, <1>2, <1>4, <1>5, <1>7, <1>8, <1>10, <1>3

LEMMA CloseNext ==
    ASSUME ChainInv, OrderInv', CloseHistory
    PROVE  ChainInv'
<1>. TypeOK /\ SourceInv /\ FrameIsLatest /\ Linked /\ Quarantined /\ TypeOK'
  BY DEF ChainInv, OrderInv, SourceInv, CloseHistory, Quarantined
<1>1. GoodRows' = GoodRows
  BY InsideKeepsChanges
<1>2. /\ pc = "close" /\ pc' = "append" /\ opening' = opening /\ latest' = latest
      /\ \A k \in Keys : k \notin closing => dim'[k] = dim[k]
  BY DEF CloseHistory, frames
<1>3. HasScd2
  BY <1>2 DEF ChainInv
<1>4. /\ opening = {k \in LatestKeys : IsNew(k) \/ IsChanged(k)}
      /\ closing = {k \in LatestKeys : IsChanged(k)}
  BY <1>2 DEF ChainInv, Classified
<1>5. Linked'
  <2>1. ASSUME NEW k \in Keys, k \notin closing
        PROVE  /\ \A i \in 1 .. Len(dim'[k]) - 1 :
                    /\ ~dim'[k][i].current
                    /\ dim'[k][i].to = dim'[k][i + 1].from
                    /\ dim'[k][i].val # dim'[k][i + 1].val
               /\ \A i \in 1 .. Len(dim'[k]) : ~dim'[k][i].current => dim'[k][i].from < dim'[k][i].to
    BY <1>2, <2>1 DEF Linked
  <2>2. ASSUME NEW k \in Keys, k \in closing
        PROVE  /\ \A i \in 1 .. Len(dim'[k]) - 1 :
                    /\ ~dim'[k][i].current
                    /\ dim'[k][i].to = dim'[k][i + 1].from
                    /\ dim'[k][i].val # dim'[k][i + 1].val
               /\ \A i \in 1 .. Len(dim'[k]) : ~dim'[k][i].current => dim'[k][i].from < dim'[k][i].to
    <3>. DEFINE n == Len(dim[k])
    <3>1. /\ Len(dim'[k]) = n
          /\ \A i \in 1 .. n - 1 : dim'[k][i] = dim[k][i]
          /\ dim'[k][n].val = dim[k][n].val /\ dim'[k][n].from = dim[k][n].from
          /\ ~dim'[k][n].current /\ dim'[k][n].to = LatestOf(k).lsn
          /\ dim[k][n].from < LatestOf(k).lsn
      BY <2>2, ClosedRows
    <3>2. n \in Nat
      BY HistoryRows
    <3>3. \A i \in 1 .. n : i \in 1 .. n - 1 \/ i = n
      BY <3>2
    <3>4. ASSUME NEW i \in 1 .. n - 1
          PROVE  /\ ~dim'[k][i].current
                 /\ dim'[k][i].to = dim'[k][i + 1].from
                 /\ dim'[k][i].val # dim'[k][i + 1].val
      <4>1. i + 1 \in 1 .. n
        BY <3>2
      <4>2. dim'[k][i + 1].from = dim[k][i + 1].from /\ dim'[k][i + 1].val = dim[k][i + 1].val
        BY <3>1, <3>3, <4>1
      <4>. QED
        BY <3>1, <4>2 DEF Linked
    <3>5. ASSUME NEW i \in 1 .. n, ~dim'[k][i].current
          PROVE  dim'[k][i].from < dim'[k][i].to
      <4>1. CASE i \in 1 .. n - 1
        BY <3>1, <3>5, <4>1 DEF Linked
      <4>2. CASE i = n
        BY <3>1, <4>2
      <4>. QED
        BY <3>3, <4>1, <4>2
    <3>. QED
      BY <3>1, <3>4, <3>5
  <2>. QED
    BY <2>1, <2>2 DEF Linked
<1>6. ASSUME NEW k \in Keys, Gap(k)'
      PROVE  GapIsClosing(k)' /\ k \in opening
  <2>1. CASE k \in closing
    <3>1. /\ Len(dim'[k]) = Len(dim[k])
          /\ dim'[k][Len(dim[k])].to = LatestOf(k).lsn
          /\ dim'[k][Len(dim[k])].val # ValueOf(LatestOf(k))
          /\ k \in LatestKeys
      BY <2>1, ClosedRows
    <3>2. /\ LatestOf(k) \in GoodRows /\ KeyOf(LatestOf(k)) = k
          /\ \A f \in GoodRows : KeyOf(f) = k => f.lsn <= LatestOf(k).lsn
      BY <3>1, FrameRow
    <3>3. k \in opening
      BY <2>1 DEF TypeOK
    <3>. QED
      BY <1>1, <3>1, <3>2, <3>3 DEF GapIsClosing
  <2>2. CASE k \notin closing
    <3>1. dim'[k] = dim[k] /\ Gap(k)
      BY <1>2, <1>6, <2>2 DEF Gap
    <3>2. GapIsClosing(k)
      BY <3>1 DEF ChainInv
    <3>3. GapIsClosing(k)'
      BY <1>1, <3>1, <3>2 DEF GapIsClosing
    <3>. QED
      BY <1>4, <3>1, <3>3, GapIsOpened
  <2>. QED
    BY <2>1, <2>2
<1>7. ASSUME NEW k \in Keys, k \in opening
      PROVE  IsNew(k)'
  <2>1. CASE k \in closing
    <3>. DEFINE n == Len(dim[k])
    <3>1. /\ Len(dim'[k]) = n
          /\ ~dim'[k][n].current
      BY <2>1, ClosedRows
    <3>2. DOMAIN dim'[k] = 1 .. n /\ n \in Nat
      BY <3>1, HistoryRows DEF TypeOK
    <3>3. \A i \in 1 .. n - 1 : ~dim'[k][i].current
      BY <1>5, <3>1 DEF Linked
    <3>. QED
      BY <3>1, <3>2, <3>3 DEF IsNew, CurrentRows
  <2>2. CASE k \notin closing
    BY <1>2, <1>4, <1>7, <2>2 DEF IsNew, CurrentRows
  <2>. QED
    BY <2>1, <2>2
<1>8. Classified'
  BY <1>2, <1>6, <1>7 DEF Classified
<1>. QED
  BY <1>2, <1>3, <1>5, <1>6, <1>8 DEF ChainInv

\* The row that step B appends starts where the row before it was closed: that row
\* was closed by the same change, in this run of the batch or an earlier one.
LEMMA AppendNext ==
    ASSUME ChainInv, OrderInv', AppendHistory
    PROVE  ChainInv'
<1>. TypeOK /\ SourceInv /\ FrameIsLatest /\ Linked /\ Quarantined
  BY DEF ChainInv, OrderInv, SourceInv, AppendHistory, Quarantined
<1>1. /\ pc = "append" /\ pc' = "checkpoint"
      /\ \A k \in Keys : k \notin opening => dim'[k] = dim[k]
      /\ \A k \in Keys : k \in opening => dim'[k] = Append(dim[k], Opened(LatestOf(k)))
  BY DEF AppendHistory
<1>2. HasScd2
  BY <1>1 DEF ChainInv
<1>3. ASSUME NEW k \in Keys, k \in opening
      PROVE  /\ ~Gap(k)'
             /\ \A i \in 1 .. Len(dim'[k]) - 1 :
                    /\ ~dim'[k][i].current
                    /\ dim'[k][i].to = dim'[k][i + 1].from
                    /\ dim'[k][i].val # dim'[k][i + 1].val
             /\ \A i \in 1 .. Len(dim'[k]) : ~dim'[k][i].current => dim'[k][i].from < dim'[k][i].to
  <2>. DEFINE n == Len(dim[k])
              e == LatestOf(k)
  <2>1. k \in LatestKeys /\ IsNew(k)
    BY <1>1, <1>3 DEF ChainInv, Classified, TypeOK
  <2>2. /\ e \in GoodRows /\ KeyOf(e) = k
        /\ \A f \in GoodRows : KeyOf(f) = k => f.lsn <= e.lsn
    BY <2>1, FrameRow
  <2>3. n \in Nat /\ DOMAIN dim[k] = 1 .. n /\ (dim[k] # <<>> <=> n # 0)
    BY HistoryRows
  <2>4. /\ Len(dim'[k]) = n + 1
        /\ \A i \in 1 .. n : dim'[k][i] = dim[k][i]
        /\ dim'[k][n + 1] = Opened(e)
    <3>1. dim[k] \in Seq(HistoryRow)
      BY DEF TypeOK
    <3>. QED
      BY <1>1, <1>3, <3>1
  <2>5. Opened(e).from = e.lsn /\ Opened(e).val = ValueOf(e) /\ Opened(e).current
    BY DEF Opened
  <2>6. n # 0 => dim[k][n].to = e.lsn /\ dim[k][n].val # ValueOf(e) /\ ~dim[k][n].current
    <3>. SUFFICES ASSUME n # 0
                  PROVE  dim[k][n].to = e.lsn /\ dim[k][n].val # ValueOf(e) /\ ~dim[k][n].current
      OBVIOUS
    <3>1. Gap(k)
      BY <2>1, <2>3, CurrentIsLast
    <3>2. PICK f \in GoodRows : /\ KeyOf(f) = k /\ f.lsn = dim[k][n].to /\ ValueOf(f) # dim[k][n].val
                                /\ \A g \in GoodRows : KeyOf(g) = k => g.lsn <= f.lsn
      BY <3>1 DEF ChainInv, GapIsClosing
    <3>3. f.lsn \in Nat /\ e.lsn \in Nat /\ f = wal[f.lsn] /\ e = wal[e.lsn]
      BY <2>2, GoodRowsType
    <3>4. f.lsn = e.lsn
      BY <2>2, <3>2, <3>3
    <3>. QED
      BY <3>1, <3>2, <3>3, <3>4 DEF Gap
  <2>. HIDE DEF e, n
  <2>7. ASSUME NEW i \in 1 .. n
        PROVE  /\ ~dim'[k][i].current
               /\ dim'[k][i].to = dim'[k][i + 1].from
               /\ dim'[k][i].val # dim'[k][i + 1].val
    <3>1. CASE i = n
      BY <2>3, <2>4, <2>5, <2>6, <3>1
    <3>2. CASE i \in 1 .. n - 1
      <4>1. i + 1 \in 1 .. n
        BY <2>3, <3>2
      <4>. QED
        BY <2>4, <3>2, <4>1 DEF Linked, n
    <3>. QED
      BY <2>3, <3>1, <3>2
  <2>8. ASSUME NEW i \in 1 .. n + 1, ~dim'[k][i].current
        PROVE  dim'[k][i].from < dim'[k][i].to
    <3>1. CASE i = n + 1
      BY <2>4, <2>5, <2>8, <3>1
    <3>2. CASE i \in 1 .. n
      BY <2>4, <2>8, <3>2 DEF Linked, n
    <3>. QED
      BY <2>3, <3>1, <3>2
  <2>9. ~Gap(k)'
    BY <2>4, <2>5 DEF Gap
  <2>10. Len(dim'[k]) - 1 = n
    BY <2>3, <2>4
  <2>. QED
    BY <2>4, <2>7, <2>8, <2>9, <2>10
<1>4. ASSUME NEW k \in Keys, k \notin opening
      PROVE  ~Gap(k) /\ ~Gap(k)'
  <2>1. ~Gap(k)
    BY <1>1, <1>4 DEF ChainInv, Classified
  <2>. QED
    BY <1>1, <1>4, <2>1 DEF Gap
<1>5. Linked'
  BY <1>1, <1>3 DEF Linked
<1>6. Classified'
  BY <1>1 DEF Classified
<1>. QED
  BY <1>1, <1>2, <1>3, <1>4, <1>5, <1>6 DEF ChainInv

LEMMA ClassifyNext ==
    ASSUME ChainInv, OrderInv', Classify
    PROVE  ChainInv'
<1>. TypeOK /\ SourceInv /\ FrameIsLatest /\ Linked /\ Quarantined
  BY DEF ChainInv, OrderInv, SourceInv, Classify, Quarantined
<1>1. /\ pc = "classify" /\ dim' = dim /\ latest' = latest
      /\ opening' = {k \in LatestKeys : IsNew(k) \/ IsChanged(k)}
      /\ closing' = {k \in LatestKeys : IsChanged(k)}
      /\ pc' = IF opening' = {} THEN "checkpoint" ELSE IF closing' = {} THEN "append" ELSE "close"
  BY DEF Classify, tables
<1>2. GoodRows' = GoodRows
  BY InsideKeepsChanges
<1>3. LatestKeys' = LatestKeys /\ \A k : (IsNew(k)' <=> IsNew(k)) /\ (IsChanged(k)' <=> IsChanged(k))
  BY <1>1 DEF LatestKeys, IsNew, IsChanged, CurrentRows, LatestOf
<1>4. \A k \in Keys : Gap(k) => k \in opening'
  BY <1>1, GapIsOpened
<1>5. \A k \in Keys : (Gap(k)' <=> Gap(k)) /\ (GapIsClosing(k)' <=> GapIsClosing(k))
  BY <1>1, <1>2 DEF Gap, GapIsClosing
<1>6. \A k \in Keys : Gap(k)' => pc' \notin {"idle", "checkpoint"} /\ GapIsClosing(k)'
  BY <1>1, <1>4, <1>5 DEF ChainInv
<1>7. Classified'
  <2>1. pc' = "close" =>
          /\ opening' = {k \in LatestKeys' : IsNew(k)' \/ IsChanged(k)'}
          /\ closing' = {k \in LatestKeys' : IsChanged(k)'}
    BY <1>1, <1>3
  <2>2. ASSUME pc' = "append", NEW k \in Keys
        PROVE  (k \in opening' => IsNew(k)') /\ (Gap(k)' => k \in opening')
    <3>1. closing' = {}
      BY <1>1, <2>2
    <3>2. k \in opening' => IsNew(k)
      BY <1>1, <3>1
    <3>. QED
      BY <1>3, <1>4, <1>5, <3>2
  <2>. QED
    BY <2>1, <2>2 DEF Classified
<1>8. Linked'
  BY <1>1 DEF Linked
<1>9. HasScd2
  BY <1>1 DEF ChainInv
<1>. QED
  BY <1>6, <1>7, <1>8, <1>9 DEF ChainInv

\* A step that leaves the history and the batch alone.
LEMMA ChainStays ==
    ASSUME ChainInv, OrderInv', dim' = dim, GoodRows' = GoodRows,
           pc' \notin {"close", "append"} \/ UNCHANGED <<pc, opening, closing, latest>>,
           ~HasScd2 => pc' # "classify",
           pc' \in {"idle", "checkpoint"} => \A k \in Keys : ~Gap(k)
    PROVE  ChainInv'
<1>1. Linked'
  BY DEF ChainInv, Linked
<1>2. \A k \in Keys : (Gap(k)' <=> Gap(k)) /\ (GapIsClosing(k)' <=> GapIsClosing(k))
  BY DEF Gap, GapIsClosing
<1>3. CASE pc' \notin {"close", "append"}
  <2>1. Classified'
    BY <1>3 DEF Classified
  <2>. QED
    BY <1>1, <1>2, <1>3, <2>1 DEF ChainInv
<1>4. CASE UNCHANGED <<pc, opening, closing, latest>>
  <2>1. LatestKeys' = LatestKeys /\ \A k : (IsNew(k)' <=> IsNew(k)) /\ (IsChanged(k)' <=> IsChanged(k))
    BY <1>4 DEF LatestKeys, IsNew, IsChanged, CurrentRows, LatestOf
  <2>2. Classified'
    BY <1>2, <1>4, <2>1 DEF ChainInv, Classified
  <2>. QED
    BY <1>1, <1>2, <1>4, <2>2 DEF ChainInv
<1>. QED
  BY <1>3, <1>4

LEMMA ChainNext == ChainInv /\ [Next]_vars => ChainInv'
<1>. SUFFICES ASSUME ChainInv, [Next]_vars PROVE ChainInv'
  OBVIOUS
<1>. OrderInv /\ OrderInv' /\ SourceInv /\ TypeOK /\ FrameIsLatest
  BY OrderNext DEF ChainInv, OrderInv, SourceInv
<1>1. CASE Outside
  <2>1. /\ GoodRows' = GoodRows /\ dim' = dim
        /\ UNCHANGED <<pc, opening, closing, latest>>
    BY <1>1, OutsideKeepsChanges DEF Outside, writer, tables, frames
  <2>. QED
    BY <2>1, ChainStays DEF ChainInv
<1>2. CASE PlanBatch \/ AdvanceCheckpoint
  <2>1. pc \in {"idle", "checkpoint"} /\ dim' = dim /\ pc' \in {"quarantine", "idle"}
    BY <1>2 DEF PlanBatch, AdvanceCheckpoint, tables
  <2>2. \A k \in Keys : ~Gap(k) /\ ~Gap(k)'
    BY <2>1 DEF ChainInv, Gap
  <2>3. Linked' /\ Classified'
    BY <2>1 DEF ChainInv, Linked, Classified
  <2>. QED
    BY <2>1, <2>2, <2>3 DEF ChainInv
<1>3. CASE Quarantine
  <2>1. /\ GoodRows' = GoodRows /\ dim' = dim /\ latest' = PickLatest(GoodRows)
        /\ pc' = IF latest' = {} THEN "checkpoint" ELSE "merge"
    BY <1>3, InsideKeepsChanges DEF Quarantine, GoodRows
  <2>2. pc' \in {"idle", "checkpoint"} => \A k \in Keys : ~Gap(k)
    <3>. SUFFICES ASSUME pc' = "checkpoint", NEW k \in Keys, Gap(k)
                  PROVE  FALSE
      BY <2>1
    <3>1. latest' = {}
      BY <2>1
    <3>2. \E e \in GoodRows : TRUE
      BY DEF ChainInv, GapIsClosing
    <3>. QED
      BY <2>1, <3>1, <3>2, GoodRowsType
  <2>. QED
    BY <2>1, <2>2, ChainStays
<1>4. CASE MergeSilver
  <2>1. GoodRows' = GoodRows /\ dim' = dim /\ pc' = IF HasScd2 THEN "classify" ELSE "checkpoint"
    BY <1>4, InsideKeepsChanges DEF MergeSilver
  <2>2. ~HasScd2 => \A k \in Keys : ~Gap(k)
    BY DEF ChainInv, Gap
  <2>. QED
    BY <2>1, <2>2, ChainStays
<1>5. CASE Restart \/ Crash
  <2>1. /\ GoodRows' = GoodRows /\ dim' = dim /\ pc' \in {"idle", "quarantine", "down"}
        /\ pc' = "idle" => planned = committed
    BY <1>5, InsideKeepsChanges DEF Restart, Crash, tables
  <2>2. pc' = "idle" => GoodRows = {}
    <3>. SUFFICES ASSUME planned = committed PROVE GoodRows = {}
      BY <2>1
    <3>1. committed + 1 .. planned = {}
      BY BatchRange
    <3>. QED
      BY <3>1 DEF GoodRows, Batch, RowsOf
  <2>3. pc' = "idle" => \A k \in Keys : ~Gap(k)
    BY <2>2 DEF ChainInv, GapIsClosing
  <2>. QED
    BY <2>1, <2>3, ChainStays
<1>. QED
  BY <1>1, <1>2, <1>3, <1>4, <1>5, StepKinds, ClassifyNext, CloseNext, AppendNext DEF Query

LEMMA ChainIsChain ==
    ASSUME ChainInv
    PROVE  HistoryChain
<1>. TypeOK
  BY DEF ChainInv, OrderInv, SourceInv
<1>1. ASSUME NEW k \in Keys, Len(dim[k]) > 0, ~dim[k][Len(dim[k])].current
      PROVE  \E e \in Batch : IsGood(e) /\ KeyOf(e) = k /\ e.lsn = dim[k][Len(dim[k])].to
  <2>1. Gap(k)
    BY <1>1, HistoryRows DEF Gap
  <2>. QED
    BY <2>1 DEF ChainInv, GapIsClosing, GoodRows
<1>. QED
  BY <1>1 DEF ChainInv, Linked, HistoryChain

\* The history of a key is always a chain: each row is closed by the change that
\* opened the next, differs from it and ended after it began, and only the last
\* row is current.  A gap is left only by a crash between the two commits of
\* apply_scd2(), and the batch that runs again holds the change that closes it.
\* This holds under replays, duplicates and crashes alike.
THEOREM HistoryIsChain == Spec => []HistoryChain
<1>. QED
  BY ChainInit, ChainNext, ChainIsChain, PTL DEF Spec

-----------------------------------------------------------------------------
(* The history follows the order of the changes.                           *)

\* A change of a key is the only one with its LSN.
LEMMA SameLsn ==
    ASSUME SourceInv, NEW k, NEW e \in ChangesOf(k, planned), NEW f \in ChangesOf(k, planned),
           e.lsn = f.lsn
    PROVE  e = f
  BY ChangesType

LEMMA HistoryInit == Init => HistoryInv
<1>. SUFFICES ASSUME Init PROVE HistoryInv
  OBVIOUS
<1>1. ChainInv
  BY ChainInit
<1>2. \A k \in Keys : dim[k] = <<>>
  BY DEF Init
<1>3. pc = "idle" /\ committed = 0
  BY DEF Init
<1>4. \A k : ChangesOf(k, committed) = {}
  BY <1>3 DEF ChangesOf, RowsOf
<1>. QED
  BY <1>1, <1>2, <1>3, <1>4 DEF HistoryInv, HistoryFollows, HistoryAt

\* Without replays, a key that apply_scd2() classifies as neither new nor changed
\* already shows its last change.
LEMMA NotOpening ==
    ASSUME HistoryInv, Quarantined, HasScd2, replays = 0,
           NEW k \in Keys, ~(k \in LatestKeys /\ (IsNew(k) \/ IsChanged(k)))
    PROVE  HistoryAt(k, planned)
<1>. /\ ChainInv /\ TypeOK /\ SourceInv /\ FrameIsLatest /\ Linked /\ FilesInv
  BY DEF HistoryInv, ChainInv, OrderInv, SourceInv
<1>1. ~Gap(k)
  BY GapIsOpened
<1>2. HistoryAt(k, committed) \/ HistoryAt(k, planned)
  BY <1>1 DEF HistoryInv, HistoryFollows
<1>3. CASE k \notin LatestKeys
  <2>1. ChangesOf(k, planned) = ChangesOf(k, committed)
    BY <1>3, NotInFrame
  <2>. QED
    BY <1>2, <2>1 DEF HistoryAt, IsTop
<1>4. CASE k \in LatestKeys /\ HistoryAt(k, committed)
  <2>. DEFINE l == LatestOf(k)
  <2>1. ~IsNew(k) /\ ~IsChanged(k)
    BY <1>4
  <2>2. IsTop(l, k, planned)
    BY <1>4, TopOfBatch
  <2>3. dim[k] # <<>>
    BY <2>1 DEF IsNew, CurrentRows
  <2>4. PICK e \in ChangesOf(k, committed), i \in CurrentRows(k) :
          dim[k][i].val = ValueOf(e) /\ dim[k][i].from <= e.lsn
    BY <1>4, <2>3 DEF HistoryAt
  <2>5. /\ e \in ChangesOf(k, planned) /\ l \in ChangesOf(k, planned)
        /\ e.lsn \in Nat /\ l.lsn \in Nat /\ e.lsn <= l.lsn
    BY <2>2, ChangesType DEF IsTop
  <2>6. dim[k][i].from \in Nat
    BY HistoryRows DEF CurrentRows
  <2>7. dim[k][i].from <= l.lsn
    BY <2>4, <2>5, <2>6
  <2>8. dim[k][i].val = ValueOf(l)
    <3>1. CASE l.lsn > dim[k][i].from
      BY <2>1, <3>1 DEF IsChanged
    <3>2. CASE ~(l.lsn > dim[k][i].from)
      <4>1. l.lsn = e.lsn
        BY <2>4, <2>5, <2>6, <3>2
      <4>2. l = e
        BY <2>5, <4>1, SameLsn
      <4>. QED
        BY <2>4, <4>2
    <3>. QED
      BY <3>1, <3>2
  <2>. HIDE DEF l
  <2>. QED
    BY <2>2, <2>5, <2>7, <2>8 DEF HistoryAt
<1>. QED
  BY <1>2, <1>3, <1>4

\* A step that leaves the history and the two prefixes alone.
LEMMA HistoryStays ==
    ASSUME HistoryInv, dim' = dim, replays' = 0 => replays = 0,
           \A k : /\ ChangesOf(k, committed)' = ChangesOf(k, committed)
                  /\ ChangesOf(k, planned)' = ChangesOf(k, planned),
           pc' \notin {"append", "checkpoint"} \/ UNCHANGED <<pc, opening>>
    PROVE  HistoryFollows'
<1>1. \A k : /\ HistoryAt(k, committed)' <=> HistoryAt(k, committed)
             /\ HistoryAt(k, planned)' <=> HistoryAt(k, planned)
             /\ Gap(k)' <=> Gap(k)
  BY DEF HistoryAt, IsTop, CurrentRows, Gap
<1>. QED
  BY <1>1 DEF HistoryInv, HistoryFollows

LEMMA HistoryNext == HistoryInv /\ [Next]_vars => HistoryInv'
<1>. SUFFICES ASSUME HistoryInv, [Next]_vars PROVE HistoryInv'
  OBVIOUS
<1>. /\ ChainInv /\ ChainInv' /\ SourceInv /\ TypeOK /\ TypeOK' /\ FrameIsLatest /\ Linked
     /\ OrderInv /\ FilesInv
  BY ChainNext DEF HistoryInv, ChainInv, OrderInv, SourceInv
<1>. SUFFICES HistoryFollows'
  BY DEF HistoryInv
<1>1. CASE Outside
  <2>1. dim' = dim /\ UNCHANGED <<pc, opening>>
    BY <1>1 DEF Outside, writer, tables, frames
  <2>. QED
    BY <1>1, <2>1, OutsideKeepsChanges, ReplaysGrow, HistoryStays
<1>2. CASE MergeSilver \/ Restart \/ Crash
  <2>1. dim' = dim /\ replays' = replays /\ pc' # "append" /\ (HasScd2 => pc' # "checkpoint")
    BY <1>2 DEF MergeSilver, Restart, Crash, tables, feed
  <2>2. CASE HasScd2
    BY <1>2, <2>1, <2>2, InsideKeepsChanges, HistoryStays
  <2>. QED
    BY <2>2 DEF HistoryFollows
<1>3. CASE PlanBatch
  <2>1. /\ planned = committed /\ committed' = committed /\ dim' = dim /\ feed' = feed
        /\ pc' = "quarantine"
    BY <1>3 DEF PlanBatch, OrderInv, tables
  <2>2. \A k : ChangesOf(k, committed)' = ChangesOf(k, committed)
    BY <2>1 DEF ChangesOf, RowsOf, feed
  <2>3. \A k : (HistoryAt(k, committed)' <=> HistoryAt(k, committed)) /\ (Gap(k)' <=> Gap(k))
    BY <2>1, <2>2 DEF HistoryAt, IsTop, CurrentRows, Gap
  <2>. QED
    BY <2>1, <2>3 DEF HistoryInv, HistoryFollows, feed
<1>4. CASE Quarantine
  <2>1. /\ dim' = dim /\ replays' = replays /\ latest' = PickLatest(GoodRows)
        /\ pc' = IF latest' = {} THEN "checkpoint" ELSE "merge"
    BY <1>4 DEF Quarantine, GoodRows, feed
  <2>2. CASE latest' = {} /\ HasScd2 /\ replays = 0
    <3>1. GoodRows = {}
      BY <2>1, <2>2, GoodRowsType
    <3>2. ASSUME NEW k \in Keys
          PROVE  HistoryAt(k, planned)'
      <4>1. ChangesOf(k, planned) = ChangesOf(k, committed)
        BY <3>1, ChangesSplit
      <4>2. ~Gap(k)
        BY <3>1 DEF ChainInv, GapIsClosing
      <4>3. HistoryAt(k, planned)
        BY <2>2, <4>1, <4>2 DEF HistoryInv, HistoryFollows, HistoryAt, IsTop
      <4>4. ChangesOf(k, planned)' = ChangesOf(k, planned)
        BY <1>4, InsideKeepsChanges
      <4>. QED
        BY <2>1, <4>3, <4>4 DEF HistoryAt, IsTop, CurrentRows
    <3>. QED
      BY <2>1, <2>2, <3>2 DEF HistoryFollows
  <2>3. CASE latest' # {}
    BY <1>4, <2>1, <2>3, InsideKeepsChanges, HistoryStays
  <2>. QED
    BY <2>1, <2>2, <2>3 DEF HistoryFollows
<1>5. CASE Classify
  <2>1. /\ dim' = dim /\ replays' = replays /\ pc = "classify"
        /\ opening' = {k \in LatestKeys : IsNew(k) \/ IsChanged(k)}
        /\ pc' = "checkpoint" => opening' = {}
    BY <1>5 DEF Classify, tables, feed
  <2>2. \A k : /\ HistoryAt(k, committed)' <=> HistoryAt(k, committed)
               /\ HistoryAt(k, planned)' <=> HistoryAt(k, planned)
               /\ Gap(k)' <=> Gap(k)
    BY <1>5, <2>1, InsideKeepsChanges DEF HistoryAt, IsTop, CurrentRows, Gap
  <2>3. Quarantined
    BY <2>1 DEF Quarantined
  <2>4. ASSUME HasScd2, replays = 0, NEW k \in Keys, k \notin opening'
        PROVE  HistoryAt(k, planned)
    <3>1. ~(k \in LatestKeys /\ (IsNew(k) \/ IsChanged(k)))
      BY <2>1, <2>4
    <3>. QED
      BY <2>3, <2>4, <3>1, NotOpening
  <2>. QED
    BY <2>1, <2>2, <2>4 DEF HistoryInv, HistoryFollows
<1>6. CASE CloseHistory
  <2>1. /\ replays' = replays /\ pc = "close" /\ pc' = "append" /\ opening' = opening
        /\ \A k \in Keys : k \notin closing => dim'[k] = dim[k]
    BY <1>6 DEF CloseHistory, feed, frames
  <2>2. ASSUME NEW k \in Keys, k \notin closing
        PROVE  /\ HistoryAt(k, committed)' <=> HistoryAt(k, committed)
               /\ HistoryAt(k, planned)' <=> HistoryAt(k, planned)
               /\ Gap(k)' <=> Gap(k)
    BY <1>6, <2>1, <2>2, InsideKeepsChanges DEF HistoryAt, IsTop, CurrentRows, Gap
  <2>3. ASSUME NEW k \in Keys, k \in closing
        PROVE  Gap(k)' /\ k \in opening
    BY <1>6, <2>3, ClosedRows DEF Gap, TypeOK
  <2>4. ASSUME HasScd2, replays = 0, NEW k \in Keys, k \notin opening
        PROVE  HistoryAt(k, planned)
    <3>1. ~(k \in LatestKeys /\ (IsNew(k) \/ IsChanged(k)))
      BY <2>1, <2>4 DEF ChainInv, Classified
    <3>2. Quarantined
      BY <2>1 DEF Quarantined
    <3>. QED
      BY <2>4, <3>1, <3>2, NotOpening
  <2>. QED
    BY <2>1, <2>2, <2>3, <2>4 DEF HistoryInv, HistoryFollows
<1>7. CASE AppendHistory
  <2>1. /\ replays' = replays /\ pc = "append" /\ pc' = "checkpoint"
        /\ \A k \in Keys : k \notin opening => dim'[k] = dim[k]
        /\ \A k \in Keys : k \in opening => dim'[k] = Append(dim[k], Opened(LatestOf(k)))
    BY <1>7 DEF AppendHistory, feed
  <2>2. \A k : ChangesOf(k, planned)' = ChangesOf(k, planned)
    BY <1>7, InsideKeepsChanges
  <2>3. Quarantined
    BY <2>1 DEF Quarantined
  <2>4. ASSUME HasScd2, replays = 0, NEW k \in Keys
        PROVE  HistoryAt(k, planned)'
    <3>1. CASE k \notin opening
      <4>1. HistoryAt(k, planned)
        BY <2>1, <2>4, <3>1 DEF HistoryInv, HistoryFollows
      <4>. QED
        BY <2>1, <2>2, <3>1, <4>1 DEF HistoryAt, IsTop, CurrentRows
    <3>2. CASE k \in opening
      <4>. DEFINE e == LatestOf(k)
                  n == Len(dim[k])
      <4>1. IsTop(e, k, planned)
        BY <2>3, <2>4, <3>2, TopOfBatch DEF TypeOK
      <4>2. e \in ChangesOf(k, planned) /\ e.lsn \in Nat
        BY <4>1, ChangesType DEF IsTop
      <4>3. dim[k] \in Seq(HistoryRow) /\ n \in Nat
        BY HistoryRows DEF TypeOK
      <4>4. n + 1 \in DOMAIN dim'[k] /\ dim'[k][n + 1] = Opened(e)
        BY <2>1, <3>2, <4>3
      <4>5. /\ dim'[k][n + 1].current /\ dim'[k][n + 1].val = ValueOf(e)
            /\ dim'[k][n + 1].from <= e.lsn
        BY <4>2, <4>4 DEF Opened
      <4>. HIDE DEF e, n
      <4>. QED
        BY <2>2, <4>1, <4>2, <4>4, <4>5 DEF HistoryAt, IsTop, CurrentRows
    <3>. QED
      BY <3>1, <3>2
  <2>. QED
    BY <2>1, <2>4 DEF HistoryFollows
<1>8. CASE AdvanceCheckpoint
  <2>1. /\ dim' = dim /\ replays' = replays /\ bronze' = bronze
        /\ committed' = planned /\ planned' = planned /\ pc = "checkpoint" /\ pc' = "idle"
    BY <1>8 DEF AdvanceCheckpoint, tables, feed
  <2>2. \A k : ChangesOf(k, planned)' = ChangesOf(k, planned)
    BY <2>1 DEF ChangesOf, RowsOf
  <2>3. \A k : HistoryAt(k, planned)' <=> HistoryAt(k, planned)
    BY <2>1, <2>2 DEF HistoryAt, IsTop, CurrentRows
  <2>. QED
    BY <2>1, <2>3 DEF HistoryInv, HistoryFollows
<1>. QED
  BY <1>1, <1>2, <1>3, <1>4, <1>5, <1>6, <1>7, <1>8, StepKinds DEF Query

LEMMA FollowsAgrees ==
    ASSUME HistoryInv
    PROVE  HistoryAgrees
<1>. SourceInv /\ TypeOK
  BY DEF HistoryInv, ChainInv, OrderInv, SourceInv
<1>. SUFFICES ASSUME HasScd2, pc = "idle", replays = 0, NEW k \in Keys, silver[k] # NoRow
              PROVE  \E i \in CurrentRows(k) : dim[k][i].val = silver[k].val
  BY DEF HistoryAgrees
<1>1. planned = committed /\ ~Gap(k)
  BY DEF HistoryInv, ChainInv, OrderInv
<1>2. PICK e \in ChangesOf(k, planned) : IsTop(e, k, planned) /\ silver[k].lsn = e.lsn
  BY <1>1 DEF HistoryInv, ChainInv, OrderInv, SilverFollows, SilverAt
<1>3. PICK f \in ChangesOf(k, planned), i \in CurrentRows(k) :
        IsTop(f, k, planned) /\ dim[k][i].val = ValueOf(f)
  BY <1>1, <1>2 DEF HistoryInv, HistoryFollows, HistoryAt
<1>4. e.lsn <= f.lsn /\ f.lsn <= e.lsn /\ e.lsn \in Nat /\ f.lsn \in Nat /\ e = wal[e.lsn]
  BY <1>2, <1>3, ChangesType DEF IsTop
<1>5. e = f
  BY <1>4, SameLsn
<1>6. silver[k].val = ValueOf(e)
  <2>1. PICK j \in DOMAIN wal :
          silver[k] = [val |-> ValueOf(wal[j]), lsn |-> j, deleted |-> wal[j].op = "d"]
    BY DEF SourceInv, RowsFromSource
  <2>2. silver[k].lsn = j /\ silver[k].val = ValueOf(wal[j])
    BY <2>1
  <2>. QED
    BY <1>2, <1>4, <2>2
<1>. QED
  BY <1>3, <1>5, <1>6

\* As long as Debezium does not replay, between batches the current history row of
\* a customer shows the values of its Silver row, whatever crashed before.
THEOREM HistoryAgreesWithSilver == Spec => []HistoryAgrees
<1>. QED
  BY HistoryInit, HistoryNext, FollowsAgrees, PTL DEF Spec
=============================================================================
