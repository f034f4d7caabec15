-------------------------- MODULE SilverRefinement --------------------------
(***************************************************************************)
(* A soft-deleting SilverWriter implements CurrentState.  The log is the   *)
(* WAL reduced to the key of each change and the view is the _source_lsn   *)
(* of each Silver row: a change of the source appends to the log, a MERGE  *)
(* lets the view catch up, and every other step stutters.                  *)
(***************************************************************************)
EXTENDS SilverProofs

Log == [i \in DOMAIN wal |-> KeyOf(wal[i])]

View == [k \in Keys |-> silver[k].lsn]

LEMMA RefinesInit == Init => LatestWins!Init
<1>. SUFFICES ASSUME Init PROVE LatestWins!Init
  OBVIOUS
<1>1. Log = <<>>
  BY DEF Init, FeedInit, Log
<1>2. View = [k \in Keys |-> 0]
  BY DEF Init, View, NoRow, NullLsn
<1>. QED
  BY <1>1, <1>2 DEF LatestWins!Init, Log, View

\* A change of the source is a change of the log.
LEMMA CommitRefines ==
    ASSUME SourceInv, TypeOK', NEW op \in Operations, NEW k \in Keys,
           NEW old \in Values \cup {NoValue}, NEW new \in Values \cup {NoValue},
           op = "d" => old # NoValue, op # "d" => new # NoValue,
           Commit(op, k, old, new), UNCHANGED writer
    PROVE  LatestWins!Next
<1>1. /\ Len(wal') = Len(wal) + 1
      /\ \A i \in DOMAIN wal : wal'[i] = wal[i]
      /\ KeyOf(wal'[Len(wal) + 1]) = k
  BY CommitSource
<1>2. /\ Len(wal) \in Nat
      /\ DOMAIN wal = 1 .. Len(wal)
      /\ DOMAIN wal' = 1 .. Len(wal) + 1
  BY <1>1 DEF SourceInv, TypeOK
<1>3. /\ Log' = [i \in 1 .. Len(wal) + 1 |-> KeyOf(wal'[i])]
      /\ Log = [i \in 1 .. Len(wal) |-> KeyOf(wal[i])]
  BY <1>2 DEF Log
<1>4. \A i \in 1 .. Len(wal) : KeyOf(wal[i]) \in Keys \cup {NullKey}
  <2>. SUFFICES ASSUME NEW i \in 1 .. Len(wal)
                PROVE  KeyOf(wal[i]) \in Keys \cup {NullKey}
    OBVIOUS
  <2>1. wal \in Seq(BronzeRow)
    BY DEF SourceInv, TypeOK
  <2>2. wal[i] \in BronzeRow
    BY <2>1, ElementOfSeq
  <2>3. PayloadOf(wal[i]) \in Image
    BY <2>2 DEF BronzeRow, PayloadOf
  <2>. QED
    BY <2>3 DEF Image, KeyOf
<1>5. Log \in Seq(Keys \cup {NullKey}) /\ Len(Log) = Len(wal)
  BY <1>2, <1>3, <1>4, LenProperties, SeqDef
<1>6. Log' = Append(Log, k)
  BY <1>1, <1>2, <1>3, <1>5
<1>7. View' = View
  BY DEF View, writer, tables
<1>. QED
  BY <1>6, <1>7 DEF LatestWins!Next, LatestWins!Change, Log, View

\* A soft-deleting MERGE leaves a row as it was or takes it forward to its source row.
LEMMA MergeForward ==
    ASSUME DeleteStrategy = "soft", NEW row \in SilverRow, NEW e \in BronzeRow,
           IsGood(e), Merge(row, e).lsn # row.lsn
    PROVE  Merge(row, e).lsn = e.lsn /\ e.lsn > row.lsn
<1>1. row.lsn \in Nat /\ e.lsn \in Nat /\ e.lsn # 0 /\ NoRow.lsn = 0
  BY GoodRow DEF SilverRow, NoRow, NullLsn
<1>2. Upserted(e).lsn = e.lsn /\ Deleted(e).lsn = e.lsn
  BY DEF Upserted, Deleted
<1>3. \/ Merge(row, e) \in {Upserted(e), Deleted(e)} /\ (e.lsn > row.lsn \/ row = NoRow)
      \/ Merge(row, e) = row
  BY DEF Merge
<1>. QED
  BY <1>1, <1>2, <1>3

\* The MERGE lets the keys of the frame catch up.
LEMMA MergeRefines ==
    ASSUME DeleteStrategy = "soft", SourceInv, SourceInv', MergeSilver
    PROVE  LatestWins!Next
<1>. TypeOK
  BY DEF SourceInv
<1>1. Log' = Log
  BY DEF Log, MergeSilver, feed
<1>2. View' \in [Keys -> DOMAIN Log \cup {0}]
  <2>1. ASSUME NEW k \in Keys
        PROVE  silver'[k].lsn \in DOMAIN wal \cup {0}
    <3>1. CASE silver'[k] = NoRow
      BY <3>1 DEF NoRow, NullLsn
    <3>2. CASE silver'[k] # NoRow
      <4>1. PICK i \in DOMAIN wal' :
               silver'[k] = [val |-> ValueOf(wal'[i]), lsn |-> i, deleted |-> wal'[i].op = "d"]
        BY <3>2 DEF SourceInv, RowsFromSource
      <4>2. wal' = wal
        BY DEF MergeSilver, feed
      <4>. QED
        BY <4>1, <4>2
    <3>. QED
      BY <3>1, <3>2
  <2>. QED
    BY <2>1 DEF View, Log
<1>3. ASSUME NEW k \in Keys, View'[k] # View[k]
      PROVE  /\ View'[k] \in DOMAIN Log
             /\ View'[k] > View[k]
             /\ Log[View'[k]] = k
  <2>. DEFINE e == LatestOf(k)
  <2>1. k \in LatestKeys /\ silver'[k] = Merge(silver[k], e)
    BY <1>3 DEF MergeSilver, View
  <2>2. e \in BronzeRow /\ IsGood(e) /\ KeyOf(e) = k
    BY <2>1, LatestRow DEF TypeOK
  <2>3. silver[k] \in SilverRow
    BY DEF TypeOK
  <2>4. View'[k] = e.lsn /\ e.lsn > View[k]
    BY <1>3, <2>1, <2>2, <2>3, MergeForward DEF View
  <2>5. PICK i \in DOMAIN wal : e = wal[i] /\ e.lsn = i
    BY <2>1, LatestRow DEF SourceInv, FrameInv, WalInv, IsWalRow
  <2>. QED
    BY <2>2, <2>4, <2>5 DEF Log
<1>. QED
  BY <1>1, <1>2, <1>3 DEF LatestWins!Next, LatestWins!CatchUp, LatestWins!Later, Log, View

LEMMA RefinesNext ==
    ASSUME DeleteStrategy = "soft"
    PROVE  SourceInv /\ SourceInv' /\ [Next]_vars => [LatestWins!Next]_<<Log, View>>
<1>. SUFFICES ASSUME SourceInv, SourceInv', [Next]_vars
              PROVE  [LatestWins!Next]_<<Log, View>>
  OBVIOUS
<1>. TypeOK /\ TypeOK'
  BY DEF SourceInv
<1>1. ASSUME NEW k \in Keys, NEW v \in Values, Insert(k, v), UNCHANGED writer
      PROVE  LatestWins!Next
  BY <1>1, CommitRefines, NullAssumption DEF Insert, Operations
<1>2. ASSUME NEW k \in Keys, NEW v \in Values, Update(k, v), UNCHANGED writer
      PROVE  LatestWins!Next
  BY <1>2, CommitRefines, NullAssumption DEF Update, Operations, TypeOK
<1>3. ASSUME NEW k \in Keys, Delete(k), UNCHANGED writer
      PROVE  LatestWins!Next
  BY <1>3, CommitRefines DEF Delete, Operations, TypeOK
<1>4. CASE MergeSilver
  BY <1>4, MergeRefines
<1>5. ASSUME UNCHANGED <<wal, silver>>
      PROVE  UNCHANGED <<Log, View>>
  BY <1>5 DEF Log, View
<1>6. ASSUME UNCHANGED writer, UNCHANGED wal
      PROVE  UNCHANGED <<Log, View>>
  BY <1>5, <1>6 DEF writer, tables
<1>7. ASSUME \/ PlanBatch \/ Quarantine \/ Classify \/ CloseHistory \/ AppendHistory
             \/ AdvanceCheckpoint \/ Restart \/ Crash \/ UNCHANGED vars
      PROVE  UNCHANGED <<Log, View>>
  BY <1>5, <1>7
  DEF PlanBatch, Quarantine, Classify, CloseHistory, AppendHistory,
      AdvanceCheckpoint, Restart, Crash, vars, feed, tables
<1>. QED
  BY <1>1, <1>2, <1>3, <1>4, <1>6, <1>7
  DEF Next, Query, Ship, Replay, Redeliver, LandMalformed

\* A soft-deleting Silver table implements CurrentState, whatever is replayed,
\* appended twice, malformed or retried after a crash: the version of a key is
\* always a change of that key and never goes back to an older one.
THEOREM SilverImplementsCurrentState ==
    ASSUME DeleteStrategy = "soft"
    PROVE  Spec => ImplementsCurrentState
<1>1. Init => LatestWins!Init
  BY RefinesInit
<1>2. SourceInv /\ SourceInv' /\ [Next]_vars => [LatestWins!Next]_<<Log, View>>
  BY RefinesNext
<1>. QED
  BY <1>1, <1>2, SourceInvariant, PTL DEF Spec, ImplementsCurrentState, LatestWins!Spec, Log, View
=============================================================================
