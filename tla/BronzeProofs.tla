---------------------------- MODULE BronzeProofs ----------------------------
(***************************************************************************)
(* Theorems about BronzeWriter, for every number of partitions, messages,  *)
(* crashes and failing batches, with and without retention: nothing        *)
(* committed is lost but by expiry, repetitions are bounded by restarts,   *)
(* and the offsets of a partition land in order.                           *)
(***************************************************************************)
EXTENDS BronzeWriter, FiniteSetTheorems, SequenceTheorems, TLAPS

-----------------------------------------------------------------------------
(* The inductive invariant.                                                *)

\* The steps at which the planned range has been read.
Holding == {"append", "quarantine", "publish", "checkpoint"}

\* The batch in hand is what the planned range still held when it was read;
\* an idle query has no range that is planned and not committed.
BatchInv ==
    /\ pc = "idle" => planned = committed
    /\ batch \subseteq PlannedRows
    /\ pc \in Holding => \A m \in PlannedRows : m \in batch \/ m[2] <= expired[m[1]]
    /\ unsent \subseteq Bad(batch)
    /\ pc # "publish" => unsent = {}

\* What the steps of the batch in hand have written so far.
WrittenInv ==
    /\ pc \in Holding \ {"append"} => \A m \in Good(batch) : Landed(m) # {}
    /\ pc \in {"publish", "checkpoint"} =>
           \A m \in Bad(batch) : dlqTable[m] > 0 /\ (m \in unsent \/ dlqTopic[m] > 0)

LossInv ==
    /\ TypeOK
    /\ BatchInv
    /\ WrittenInv
    /\ LossOnlyByRetention

\* How often the process has started a batch anew.
Restarts == crashes + failures

\* A message of the planned range that its current attempt has not yet written
\* to a sink is there once for each attempt that ended before.
LandedCount ==
    \A m \in EventId :
        /\ Cardinality(Landed(m)) <= 1 + Restarts
        /\ m[2] > committed[m[1]] /\ pc \in {"read", "append", "down"} =>
               Cardinality(Landed(m)) <= Restarts
        /\ m[2] > planned[m[1]] => Landed(m) = {}

TableCount ==
    \A m \in EventId :
        /\ dlqTable[m] <= 1 + Restarts
        /\ m[2] > committed[m[1]] /\ pc \in {"read", "append", "quarantine", "down"} =>
               dlqTable[m] <= Restarts
        /\ m[2] > planned[m[1]] => dlqTable[m] = 0

TopicCount ==
    \A m \in EventId :
        /\ dlqTopic[m] <= 1 + Restarts
        /\ m[2] > committed[m[1]] /\ pc \in {"read", "append", "quarantine", "down"} =>
               dlqTopic[m] <= Restarts
        /\ m \in unsent => dlqTopic[m] <= Restarts
        /\ m[2] > planned[m[1]] => dlqTopic[m] = 0

CountInv ==
    /\ TypeOK
    /\ BatchInv
    /\ LandedCount
    /\ TableCount
    /\ TopicCount

\* A snapshot is of committed batches, or it holds all that the planned range
\* can still bring.
SnapshotInv ==
    \A i \in DOMAIN bronze :
        /\ \A m \in bronze[i] : m[2] <= planned[m[1]]
        /\ \/ \A m \in bronze[i] : m[2] <= committed[m[1]]
           \/ /\ Good(Readable) \subseteq bronze[i]
              /\ pc = "append" => Good(batch) \subseteq bronze[i]

OrderInv ==
    /\ TypeOK
    /\ BatchInv
    /\ SnapshotInv
    /\ LandedInOrder

-----------------------------------------------------------------------------
(* Types.                                                                  *)

\* A produced message leaves the older ones where they are.
LEMMA TopicGrows ==
    ASSUME TypeOK, NEW p \in Partitions, NEW kind \in Kinds,
           topic' = [topic EXCEPT ![p] = Append(@, kind)]
    PROVE  /\ topic' \in [Partitions -> Seq(Kinds)]
           /\ \A q \in Partitions : Len(topic'[q]) \in Nat /\ Len(topic'[q]) >= Len(topic[q])
           /\ \A q \in Partitions : \A i \in 1 .. Len(topic[q]) : topic'[q][i] = topic[q][i]
<1>1. topic \in [Partitions -> Seq(Kinds)]
  BY DEF TypeOK
<1>2. \A q \in Partitions : topic[q] \in Seq(Kinds) /\ Len(topic[q]) \in Nat
  BY <1>1, LenProperties
<1>3. /\ Append(topic[p], kind) \in Seq(Kinds)
      /\ Len(Append(topic[p], kind)) = Len(topic[p]) + 1
      /\ \A i \in 1 .. Len(topic[p]) : Append(topic[p], kind)[i] = topic[p][i]
  BY <1>2, AppendProperties
<1>4. \A q \in Partitions : topic'[q] = IF q = p THEN Append(topic[p], kind) ELSE topic[q]
  BY <1>1
<1>. QED
  BY <1>1, <1>2, <1>3, <1>4

\* Snapshots are appended to Bronze; the older ones stay.
LEMMA BronzeGrows ==
    ASSUME TypeOK, NEW rows \in SUBSET EventId
    PROVE  /\ Append(bronze, rows) \in Seq(SUBSET EventId)
           /\ Len(bronze) \in Nat
           /\ DOMAIN bronze = 1 .. Len(bronze)
           /\ DOMAIN Append(bronze, rows) = 1 .. Len(bronze) + 1
           /\ \A i \in DOMAIN bronze : Append(bronze, rows)[i] = bronze[i]
           /\ Append(bronze, rows)[Len(bronze) + 1] = rows
<1>1. bronze \in Seq(SUBSET EventId)
  BY DEF TypeOK
<1>2. Len(bronze) \in Nat /\ DOMAIN bronze = 1 .. Len(bronze)
  BY <1>1, LenProperties
<1>3. /\ Append(bronze, rows) \in Seq(SUBSET EventId)
      /\ Len(Append(bronze, rows)) = Len(bronze) + 1
      /\ \A i \in 1 .. Len(bronze) : Append(bronze, rows)[i] = bronze[i]
      /\ Append(bronze, rows)[Len(bronze) + 1] = rows
  BY <1>1, AppendProperties
<1>4. DOMAIN Append(bronze, rows) = 1 .. Len(bronze) + 1
  BY <1>3, LenProperties
<1>. QED
  BY <1>2, <1>3, <1>4

LEMMA TypeInit == Init => TypeOK
<1>. SUFFICES ASSUME Init PROVE TypeOK
  OBVIOUS
<1>1. \A p \in Partitions : topic[p] \in Seq(Kinds) /\ Len(topic[p]) = 0
  BY EmptySeq DEF Init
<1>2. bronze \in Seq(SUBSET EventId)
  BY EmptySeq DEF Init
<1>. QED
  BY <1>1, <1>2 DEF Init, TypeOK, Steps

LEMMA TypeNext == TypeOK /\ [Next]_vars => TypeOK'
<1>. SUFFICES ASSUME TypeOK, [Next]_vars PROVE TypeOK'
  OBVIOUS
<1>. \A p \in Partitions : topic[p] \in Seq(Kinds) /\ Len(topic[p]) \in Nat
  BY LenProperties DEF TypeOK
<1>1. ASSUME NEW p \in Partitions, NEW kind \in Kinds, Produce(p, kind)
      PROVE  TypeOK'
  <2>1. /\ topic' \in [Partitions -> Seq(Kinds)]
        /\ \A q \in Partitions : Len(topic'[q]) \in Nat /\ Len(topic'[q]) >= Len(topic[q])
    BY <1>1, TopicGrows DEF Produce
  <2>2. UNCHANGED <<expired, planned, committed, pc, batch, unsent, bronze, dlqTable, dlqTopic,
                    crashes, failures>>
    BY <1>1 DEF Produce, checkpoint, sinks
  <2>. QED
    BY <2>1, <2>2 DEF TypeOK
<1>2. ASSUME NEW p \in Partitions, Expire(p)
      PROVE  TypeOK'
  BY <1>2 DEF TypeOK, Expire, checkpoint, sinks
<1>3. CASE PlanBatch
  BY <1>3 DEF TypeOK, PlanBatch, kafka, sinks, Steps
<1>4. CASE ReadBatch
  BY <1>4 DEF TypeOK, ReadBatch, kafka, checkpoint, sinks, Steps, Readable, PlannedRows
<1>5. CASE AppendBronze
  <2>1. Good(batch) \in SUBSET EventId
    BY DEF TypeOK, Good
  <2>2. bronze' \in Seq(SUBSET EventId)
    BY <1>5, <2>1, BronzeGrows DEF AppendBronze, TypeOK
  <2>. QED
    BY <1>5, <2>2 DEF TypeOK, AppendBronze, kafka, checkpoint, Steps
<1>6. CASE AppendDlq
  BY <1>6 DEF TypeOK, AppendDlq, kafka, checkpoint, Steps, Bad
<1>7. CASE FailBatch
  BY <1>7 DEF TypeOK, FailBatch, kafka, checkpoint, sinks, Steps
<1>8. ASSUME NEW m \in EventId, PublishDlq(m)
      PROVE  TypeOK'
  BY <1>8 DEF TypeOK, PublishDlq, kafka, checkpoint, Steps
<1>9. CASE AdvanceCheckpoint
  BY <1>9 DEF TypeOK, AdvanceCheckpoint, kafka, sinks, Steps
<1>10. CASE Restart
  BY <1>10 DEF TypeOK, Restart, kafka, checkpoint, sinks, Steps
<1>11. CASE Crash
  BY <1>11 DEF TypeOK, Crash, kafka, checkpoint, sinks, Steps
<1>12. CASE UNCHANGED vars
  BY <1>12 DEF TypeOK, vars, kafka, checkpoint, sinks
<1>. QED
  BY <1>1, <1>2, <1>3, <1>4, <1>5, <1>6, <1>7, <1>8, <1>9, <1>10, <1>11, <1>12 DEF Next, Query

\* The types, and the order of the checkpoint's logs, hold in every behaviour.
THEOREM TypeCorrect == Spec => []TypeOK
<1>. QED
  BY TypeInit, TypeNext, PTL DEF Spec

-----------------------------------------------------------------------------
(* The batch in hand.                                                      *)

LEMMA EventType ==
    ASSUME NEW m \in EventId
    PROVE  m[1] \in Partitions /\ m[2] \in Nat \ {0}
  BY BoundsAssumption DEF EventId

\* A message keeps its kind.
LEMMA KindStays ==
    ASSUME TypeOK, NEW p \in Partitions, NEW kind \in Kinds, Produce(p, kind),
           NEW m \in EventId, m[2] <= Len(topic[m[1]])
    PROVE  IsGood(m)' = IsGood(m)
<1>1. m[1] \in Partitions /\ m[2] \in 1 .. Len(topic[m[1]])
  <2>1. Len(topic[m[1]]) \in Nat
    BY EventType, LenProperties DEF TypeOK
  <2>. QED
    BY <2>1, EventType
<1>2. topic'[m[1]][m[2]] = topic[m[1]][m[2]]
  BY <1>1, TopicGrows DEF Produce
<1>. QED
  BY <1>2 DEF IsGood, Kind

\* So what the writer has planned stays as good or as bad as it is.
LEMMA ProduceStays ==
    ASSUME TypeOK, BatchInv, NEW p \in Partitions, NEW kind \in Kinds, Produce(p, kind)
    PROVE  /\ PlannedRows' = PlannedRows
           /\ Readable' = Readable
           /\ \A rows \in SUBSET PlannedRows :
                  /\ {m \in rows : IsGood(m)'} = Good(rows)
                  /\ {m \in rows : ~IsGood(m)'} = Bad(rows)
           /\ Good(batch)' = Good(batch)
           /\ Bad(batch)' = Bad(batch)
           /\ Good(Readable)' = Good(Readable)
           /\ \A m \in EventId : m[2] <= committed[m[1]] => IsGood(m)' = IsGood(m)
<1>1. UNCHANGED <<planned, committed, batch, expired>>
  BY DEF Produce, checkpoint
<1>2. PlannedRows' = PlannedRows /\ Readable' = Readable
  BY <1>1 DEF PlannedRows, Readable
<1>3. \A q \in Partitions : Len(topic[q]) \in Nat
  BY LenProperties DEF TypeOK
<1>4. ASSUME NEW m \in EventId, m[2] <= planned[m[1]]
      PROVE  IsGood(m)' = IsGood(m)
  <2>1. m[2] <= Len(topic[m[1]])
    BY <1>3, <1>4, EventType DEF TypeOK
  <2>. QED
    BY <2>1, KindStays
<1>5. ASSUME NEW m \in PlannedRows
      PROVE  m \in EventId /\ m[2] <= planned[m[1]]
  BY EventType DEF PlannedRows, TypeOK
<1>6. ASSUME NEW m \in EventId, m[2] <= committed[m[1]]
      PROVE  IsGood(m)' = IsGood(m)
  <2>1. m[2] <= planned[m[1]]
    BY <1>6, EventType DEF TypeOK
  <2>. QED
    BY <2>1, <1>4
<1>7. ASSUME NEW rows \in SUBSET PlannedRows
      PROVE  /\ {m \in rows : IsGood(m)'} = Good(rows)
             /\ {m \in rows : ~IsGood(m)'} = Bad(rows)
  BY <1>4, <1>5 DEF Good, Bad
<1>8. batch \subseteq PlannedRows /\ Readable \subseteq PlannedRows
  BY DEF BatchInv, Readable
<1>9. Good(batch)' = Good(batch) /\ Bad(batch)' = Bad(batch)
  <2>1. Good(batch)' = {m \in batch : IsGood(m)'} /\ Bad(batch)' = {m \in batch : ~IsGood(m)'}
    BY <1>1 DEF Good, Bad
  <2>. QED
    BY <2>1, <1>7, <1>8
<1>10. Good(Readable)' = Good(Readable)
  <2>1. Good(Readable)' = {m \in Readable : IsGood(m)'}
    BY <1>2 DEF Good
  <2>. QED
    BY <2>1, <1>7, <1>8
<1>. QED
  BY <1>2, <1>6, <1>7, <1>9, <1>10

\* An idle query has no batch.
LEMMA IdleIsEmpty ==
    ASSUME TypeOK, BatchInv, pc = "idle"
    PROVE  PlannedRows = {} /\ batch = {} /\ unsent = {}
<1>1. ASSUME NEW m \in PlannedRows PROVE FALSE
  BY EventType DEF PlannedRows, BatchInv, TypeOK
<1>. QED
  BY <1>1 DEF BatchInv

LEMMA BatchInit == Init => BatchInv
  BY DEF Init, BatchInv, Holding

LEMMA BatchNext ==
    ASSUME TypeOK, BatchInv, [Next]_vars
    PROVE  BatchInv'
<1>1. ASSUME NEW p \in Partitions, NEW kind \in Kinds, Produce(p, kind)
      PROVE  BatchInv'
  <2>1. PlannedRows' = PlannedRows /\ Bad(batch)' = Bad(batch)
    BY <1>1, ProduceStays
  <2>2. UNCHANGED <<expired, planned, committed, pc, batch, unsent>>
    BY <1>1 DEF Produce, checkpoint
  <2>. QED
    BY <2>1, <2>2 DEF BatchInv
<1>2. ASSUME NEW p \in Partitions, Expire(p)
      PROVE  BatchInv'
  <2>1. UNCHANGED <<topic, planned, committed, pc, batch, unsent>>
    BY <1>2 DEF Expire, checkpoint
  <2>2. PlannedRows' = PlannedRows /\ Bad(batch)' = Bad(batch)
    BY <2>1 DEF PlannedRows, Bad, IsGood, Kind
  <2>3. \A q \in Partitions : expired[q] \in Nat /\ expired'[q] \in Nat /\ expired[q] <= expired'[q]
    BY <1>2 DEF Expire, TypeOK
  <2>4. \A m \in PlannedRows : m[1] \in Partitions /\ m[2] \in Nat
    BY EventType DEF PlannedRows
  <2>5. \A m \in PlannedRows : m[2] <= expired[m[1]] => m[2] <= expired'[m[1]]
    BY <2>3, <2>4
  <2>. QED
    BY <2>1, <2>2, <2>5 DEF BatchInv
<1>3. CASE PlanBatch
  <2>1. batch = {} /\ unsent = {}
    BY <1>3, IdleIsEmpty DEF PlanBatch
  <2>. QED
    BY <1>3, <2>1 DEF PlanBatch, BatchInv, Holding
<1>4. CASE ReadBatch
  <2>1. UNCHANGED <<expired, planned, committed, unsent>> /\ unsent = {} /\ batch' = Readable /\ pc' # "idle"
    BY <1>4 DEF ReadBatch, kafka, checkpoint, BatchInv
  <2>2. PlannedRows' = PlannedRows
    BY <2>1 DEF PlannedRows
  <2>3. \A m \in PlannedRows : m[1] \in Partitions /\ m[2] \in Nat /\ expired[m[1]] \in Nat
    BY EventType DEF PlannedRows, TypeOK
  <2>4. \A m \in PlannedRows : m \in Readable \/ m[2] <= expired[m[1]]
    BY <2>3 DEF Readable
  <2>. QED
    BY <2>1, <2>2, <2>4 DEF BatchInv, Readable
<1>5. CASE AppendBronze
  <2>1. PlannedRows' = PlannedRows /\ Bad(batch)' = Bad(batch)
    BY <1>5 DEF AppendBronze, checkpoint, kafka, PlannedRows, Bad, IsGood, Kind
  <2>. QED
    BY <1>5, <2>1 DEF AppendBronze, BatchInv, Holding, checkpoint, kafka
<1>6. CASE AppendDlq
  <2>1. PlannedRows' = PlannedRows /\ Bad(batch)' = Bad(batch)
    BY <1>6 DEF AppendDlq, checkpoint, kafka, PlannedRows, Bad, IsGood, Kind
  <2>. QED
    BY <1>6, <2>1 DEF AppendDlq, BatchInv, Holding, checkpoint, kafka
<1>7. CASE FailBatch
  BY <1>7 DEF FailBatch, BatchInv, Holding
<1>8. ASSUME NEW m \in EventId, PublishDlq(m)
      PROVE  BatchInv'
  <2>1. PlannedRows' = PlannedRows /\ Bad(batch)' = Bad(batch)
    BY <1>8 DEF PublishDlq, checkpoint, kafka, PlannedRows, Bad, IsGood, Kind
  <2>. QED
    BY <1>8, <2>1 DEF PublishDlq, BatchInv, Holding, checkpoint, kafka
<1>9. CASE AdvanceCheckpoint
  BY <1>9 DEF AdvanceCheckpoint, BatchInv, Holding
<1>10. CASE Restart
  <2>1. PlannedRows' = PlannedRows /\ Bad(batch)' = Bad(batch)
    BY <1>10 DEF Restart, checkpoint, kafka, PlannedRows, Bad, IsGood, Kind
  <2>. QED
    BY <1>10, <2>1 DEF Restart, BatchInv, Holding, checkpoint
<1>11. CASE Crash
  BY <1>11 DEF Crash, BatchInv, Holding
<1>12. CASE UNCHANGED vars
  BY <1>12 DEF vars, kafka, checkpoint, sinks, BatchInv, PlannedRows, Bad, IsGood, Kind
<1>. QED
  BY <1>1, <1>2, <1>3, <1>4, <1>5, <1>6, <1>7, <1>8, <1>9, <1>10, <1>11, <1>12 DEF Next, Query

-----------------------------------------------------------------------------
(* Loss.                                                                   *)

\* AppendBronze lands exactly the good rows of the batch.
LEMMA LandedBy ==
    ASSUME TypeOK, AppendBronze, NEW m \in EventId
    PROVE  Landed(m)' = IF m \in Good(batch) THEN Landed(m) \cup {Len(bronze) + 1} ELSE Landed(m)
<1>1. CASE Good(batch) = {}
  BY <1>1 DEF AppendBronze, Landed
<1>2. CASE Good(batch) # {}
  <2>1. bronze' = Append(bronze, Good(batch))
    BY <1>2 DEF AppendBronze
  <2>2. Good(batch) \in SUBSET EventId
    BY DEF TypeOK, Good
  <2>3. /\ DOMAIN bronze = 1 .. Len(bronze) /\ DOMAIN bronze' = 1 .. Len(bronze) + 1
        /\ Len(bronze) \in Nat
        /\ \A i \in DOMAIN bronze : bronze'[i] = bronze[i]
        /\ bronze'[Len(bronze) + 1] = Good(batch)
    BY <2>1, <2>2, BronzeGrows
  <2>4. 1 .. Len(bronze) + 1 = (1 .. Len(bronze)) \cup {Len(bronze) + 1}
    BY <2>3
  <2>. QED
    BY <2>3, <2>4 DEF Landed
<1>. QED
  BY <1>1, <1>2

LEMMA LossInit == Init => LossInv
<1>. SUFFICES ASSUME Init PROVE LossInv
  OBVIOUS
<1>1. TypeOK /\ BatchInv
  BY TypeInit, BatchInit
<1>2. WrittenInv
  BY DEF Init, WrittenInv, Holding
<1>3. LossOnlyByRetention
  BY EventType DEF Init, LossOnlyByRetention
<1>. QED
  BY <1>1, <1>2, <1>3 DEF LossInv

\* A step that leaves the batch and the sinks alone leaves what is written alone.
LEMMA WrittenNext ==
    ASSUME LossInv, [Next]_vars
    PROVE  WrittenInv'
<1>. USE DEF LossInv
<1>1. ASSUME NEW p \in Partitions, NEW kind \in Kinds, Produce(p, kind)
      PROVE  WrittenInv'
  <2>1. Good(batch)' = Good(batch) /\ Bad(batch)' = Bad(batch)
    BY <1>1, ProduceStays
  <2>2. UNCHANGED <<pc, unsent, bronze, dlqTable, dlqTopic>>
    BY <1>1 DEF Produce, sinks
  <2>. QED
    BY <2>1, <2>2 DEF WrittenInv, Landed
<1>2. ASSUME NEW p \in Partitions, Expire(p)
      PROVE  WrittenInv'
  BY <1>2 DEF Expire, sinks, WrittenInv, Landed, Good, Bad, IsGood, Kind
<1>3. CASE PlanBatch
  BY <1>3 DEF PlanBatch, WrittenInv, Holding
<1>4. CASE ReadBatch
  <2>1. UNCHANGED <<topic, expired, sinks>> /\ batch' = Readable
    BY <1>4 DEF ReadBatch, kafka
  <2>2. pc' # "append" => Readable = {}
    BY <1>4 DEF ReadBatch
  <2>3. pc' # "append" => Good(batch)' = {} /\ Bad(batch)' = {}
    BY <2>1, <2>2 DEF Good, Bad
  <2>4. pc' = "append" \/ pc' = "checkpoint"
    BY <1>4 DEF ReadBatch
  <2>. QED
    BY <2>3, <2>4 DEF WrittenInv
<1>5. CASE AppendBronze
  <2>1. \A m \in EventId : m \in Good(batch) => Landed(m)' # {}
    BY <1>5, LandedBy
  <2>2. Good(batch)' = Good(batch) /\ Bad(batch)' = Bad(batch) /\ Good(batch) \subseteq EventId
    BY <1>5 DEF AppendBronze, kafka, Good, Bad, IsGood, Kind, TypeOK
  <2>3. pc' = "checkpoint" => Bad(batch) = {}
    BY <1>5 DEF AppendBronze
  <2>4. pc' # "publish"
    BY <1>5 DEF AppendBronze
  <2>. QED
    BY <2>1, <2>2, <2>3, <2>4 DEF WrittenInv
<1>6. CASE AppendDlq
  <2>1. pc = "quarantine" /\ pc' = "publish" /\ unsent' = Bad(batch) /\ UNCHANGED <<topic, batch, bronze>>
    BY <1>6 DEF AppendDlq, kafka
  <2>2. /\ Good(batch)' = Good(batch) /\ Bad(batch)' = Bad(batch) /\ Bad(batch) \subseteq EventId
        /\ \A m \in Good(batch) : Landed(m)' = Landed(m)
    BY <2>1 DEF Good, Bad, IsGood, Kind, Landed, TypeOK
  <2>3. \A m \in Bad(batch) : dlqTable'[m] > 0
    BY <1>6, <2>2 DEF AppendDlq, TypeOK
  <2>. QED
    BY <2>1, <2>2, <2>3 DEF WrittenInv, Holding
<1>7. CASE FailBatch
  BY <1>7 DEF FailBatch, WrittenInv, Holding
<1>8. ASSUME NEW n \in EventId, PublishDlq(n)
      PROVE  WrittenInv'
  <2>1. /\ pc = "publish" /\ unsent' = unsent \ {n}
        /\ pc' = "checkpoint" \/ pc' = "publish"
        /\ UNCHANGED <<topic, batch, bronze, dlqTable>>
    BY <1>8 DEF PublishDlq, kafka
  <2>2. /\ Good(batch)' = Good(batch) /\ Bad(batch)' = Bad(batch) /\ Bad(batch) \subseteq EventId
        /\ \A m \in Good(batch) : Landed(m)' = Landed(m)
    BY <2>1 DEF Good, Bad, IsGood, Kind, Landed, TypeOK
  <2>3. \A m \in EventId : dlqTopic'[m] = IF m = n THEN dlqTopic[m] + 1 ELSE dlqTopic[m]
    BY <1>8 DEF PublishDlq, TypeOK
  <2>4. dlqTopic'[n] > 0
    BY <2>3 DEF TypeOK
  <2>. QED
    BY <2>1, <2>2, <2>3, <2>4 DEF WrittenInv, Holding
<1>9. CASE AdvanceCheckpoint
  BY <1>9 DEF AdvanceCheckpoint, WrittenInv, Holding
<1>10. CASE Restart
  BY <1>10 DEF Restart, WrittenInv, Holding
<1>11. CASE Crash
  BY <1>11 DEF Crash, WrittenInv, Holding
<1>12. CASE UNCHANGED vars
  BY <1>12 DEF vars, kafka, checkpoint, sinks, WrittenInv, Landed, Good, Bad, IsGood, Kind
<1>. QED
  BY <1>1, <1>2, <1>3, <1>4, <1>5, <1>6, <1>7, <1>8, <1>9, <1>10, <1>11, <1>12 DEF Next, Query

\* What a sink has it keeps, and an accounted message stays accounted for.
LEMMA DeliveredStays ==
    ASSUME LossInv, [Next]_vars, NEW m \in EventId, Delivered(m), IsGood(m)' = IsGood(m)
    PROVE  Delivered(m)'
<1>1. Landed(m) # {} => Landed(m)' # {}
  <2>1. CASE AppendBronze
    BY <2>1, LandedBy DEF LossInv
  <2>2. CASE ~AppendBronze
    <3>1. bronze' = bronze
      BY <2>2 DEF Next, Query, vars, sinks, Produce, Expire, PlanBatch, ReadBatch, AppendDlq, FailBatch,
                  PublishDlq, AdvanceCheckpoint, Restart, Crash
    <3>. QED
      BY <3>1 DEF Landed
  <2>. QED
    BY <2>1, <2>2
<1>2. dlqTable[m] > 0 => dlqTable'[m] > 0
  <2>1. CASE AppendDlq
    BY <2>1 DEF AppendDlq, LossInv, TypeOK
  <2>2. CASE ~AppendDlq
    BY <2>2 DEF Next, Query, vars, sinks, Produce, Expire, PlanBatch, ReadBatch, AppendBronze, FailBatch,
                PublishDlq, AdvanceCheckpoint, Restart, Crash
  <2>. QED
    BY <2>1, <2>2
<1>3. dlqTopic[m] > 0 => dlqTopic'[m] > 0
  <2>1. ASSUME NEW n \in EventId, PublishDlq(n)
        PROVE  dlqTopic[m] > 0 => dlqTopic'[m] > 0
    BY <2>1 DEF PublishDlq, LossInv, TypeOK
  <2>2. CASE ~\E n \in EventId : PublishDlq(n)
    BY <2>2 DEF Next, Query, vars, sinks, Produce, Expire, PlanBatch, ReadBatch, AppendBronze, FailBatch,
                AppendDlq, AdvanceCheckpoint, Restart, Crash
  <2>. QED
    BY <2>1, <2>2
<1>. QED
  BY <1>1, <1>2, <1>3 DEF Delivered

\* At the checkpoint every planned message is in its sinks or has expired.
LEMMA PlannedAccounted ==
    ASSUME LossInv, pc = "checkpoint", NEW m \in PlannedRows
    PROVE  Delivered(m) \/ m[2] <= expired[m[1]]
<1>1. m \in batch \/ m[2] <= expired[m[1]]
  BY DEF LossInv, BatchInv, Holding
<1>2. CASE m \in batch
  <2>1. m \in Good(batch) => Landed(m) # {}
    BY DEF LossInv, WrittenInv, Holding
  <2>2. m \in Bad(batch) => dlqTable[m] > 0 /\ dlqTopic[m] > 0
    BY DEF LossInv, WrittenInv, BatchInv
  <2>. QED
    BY <1>2, <2>1, <2>2 DEF Delivered, Good, Bad
<1>. QED
  BY <1>1, <1>2

LEMMA LossNext == LossInv /\ [Next]_vars => LossInv'
<1>. SUFFICES ASSUME LossInv, [Next]_vars PROVE LossInv'
  OBVIOUS
<1>1. TypeOK' /\ BatchInv'
  BY TypeNext, BatchNext DEF LossInv
<1>2. WrittenInv'
  BY WrittenNext
<1>3. ASSUME NEW m \in EventId, m[2] <= committed'[m[1]]
      PROVE  Delivered(m)' \/ m[2] <= expired'[m[1]]
  <2>1. m[1] \in Partitions /\ m[2] \in Nat \ {0} /\ committed[m[1]] \in Nat /\ planned[m[1]] \in Nat
    BY EventType DEF LossInv, TypeOK
  <2>2. Delivered(m) \/ m[2] <= expired[m[1]]
    <3>1. CASE m[2] <= committed[m[1]]
      BY <3>1 DEF LossInv, LossOnlyByRetention
    <3>2. CASE ~(m[2] <= committed[m[1]])
      <4>1. AdvanceCheckpoint
        BY <1>3, <3>2 DEF Next, Query, vars, checkpoint, Produce, Expire, PlanBatch, ReadBatch, AppendBronze,
                          FailBatch, AppendDlq, PublishDlq, Restart, Crash
      <4>2. pc = "checkpoint" /\ m \in PlannedRows
        BY <4>1, <1>3, <2>1, <3>2 DEF AdvanceCheckpoint, PlannedRows
      <4>. QED
        BY <4>2, PlannedAccounted
    <3>. QED
      BY <3>1, <3>2
  <2>3. IsGood(m)' = IsGood(m)
    <3>1. ASSUME NEW p \in Partitions, NEW kind \in Kinds, Produce(p, kind)
          PROVE  IsGood(m)' = IsGood(m)
      <4>1. m[2] <= committed[m[1]]
        BY <1>3, <3>1 DEF Produce, checkpoint
      <4>. QED
        BY <3>1, <4>1, ProduceStays DEF LossInv
    <3>2. CASE ~\E p \in Partitions, kind \in Kinds : Produce(p, kind)
      <4>1. topic' = topic
        BY <3>2 DEF Next, Query, vars, kafka, Expire, PlanBatch, ReadBatch, AppendBronze, FailBatch, AppendDlq,
                    PublishDlq, AdvanceCheckpoint, Restart, Crash
      <4>. QED
        BY <4>1 DEF IsGood, Kind
    <3>. QED
      BY <3>1, <3>2
  <2>4. m[2] <= expired[m[1]] => m[2] <= expired'[m[1]]
    <3>1. ASSUME NEW p \in Partitions, Expire(p)
          PROVE  m[2] <= expired[m[1]] => m[2] <= expired'[m[1]]
      BY <2>1, <3>1 DEF Expire, LossInv, TypeOK
    <3>2. CASE ~\E p \in Partitions : Expire(p)
      BY <3>2 DEF Next, Query, vars, kafka, Produce, PlanBatch, ReadBatch, AppendBronze, FailBatch, AppendDlq,
                  PublishDlq, AdvanceCheckpoint, Restart, Crash
    <3>. QED
      BY <3>1, <3>2
  <2>. QED
    BY <2>2, <2>3, <2>4, DeliveredStays
<1>4. LossOnlyByRetention'
  BY <1>3 DEF LossOnlyByRetention
<1>. QED
  BY <1>1, <1>2, <1>4 DEF LossInv

\* A message whose offset is committed is in its sinks, or Kafka dropped it.
THEOREM NothingLostButByRetention == Spec => []LossOnlyByRetention
<1>. QED
  BY LossInit, LossNext, PTL DEF Spec, LossInv

-----------------------------------------------------------------------------
(* Repetitions.                                                            *)

LEMMA LandedType ==
    ASSUME TypeOK, NEW m \in EventId
    PROVE  IsFiniteSet(Landed(m)) /\ Cardinality(Landed(m)) \in Nat
<1>1. DOMAIN bronze = 1 .. Len(bronze) /\ Len(bronze) \in Nat
  BY LenProperties DEF TypeOK
<1>2. IsFiniteSet(1 .. Len(bronze))
  BY <1>1, FS_Interval
<1>3. Landed(m) \in SUBSET (1 .. Len(bronze))
  BY <1>1 DEF Landed
<1>4. IsFiniteSet(Landed(m))
  BY <1>2, <1>3, FS_Subset
<1>. QED
  BY <1>4, FS_CardinalityType

LEMMA CountInit == Init => CountInv
<1>. SUFFICES ASSUME Init PROVE CountInv
  OBVIOUS
<1>1. TypeOK /\ BatchInv
  BY TypeInit, BatchInit
<1>2. \A m \in EventId : Landed(m) = {}
  BY DEF Init, Landed
<1>3. Restarts = 0
  BY DEF Init, Restarts
<1>4. LandedCount
  BY <1>2, <1>3, FS_EmptySet DEF LandedCount
<1>5. TableCount /\ TopicCount
  BY <1>3 DEF Init, TableCount, TopicCount
<1>. QED
  BY <1>1, <1>4, <1>5 DEF CountInv

\* The numbers of a message, and where its offset stands.
LEMMA CountType ==
    ASSUME CountInv, NEW m \in EventId
    PROVE  /\ Cardinality(Landed(m)) \in Nat
           /\ dlqTable[m] \in Nat /\ dlqTopic[m] \in Nat
           /\ Restarts \in Nat
           /\ m[2] \in Nat /\ committed[m[1]] \in Nat /\ planned[m[1]] \in Nat
           /\ Len(topic[m[1]]) \in Nat
           /\ committed[m[1]] <= planned[m[1]] /\ planned[m[1]] <= Len(topic[m[1]])
<1>1. m[1] \in Partitions /\ m[2] \in Nat \ {0}
  BY EventType
<1>2. TypeOK
  BY DEF CountInv
<1>3. Len(topic[m[1]]) \in Nat
  BY <1>1, <1>2, LenProperties DEF TypeOK
<1>. QED
  BY <1>1, <1>2, <1>3, LandedType DEF TypeOK, Restarts

\* A batch starts with what no attempt has touched.
LEMMA PlanCounts ==
    ASSUME CountInv, PlanBatch
    PROVE  LandedCount' /\ TableCount' /\ TopicCount'
<1>1. /\ planned = committed /\ pc' = "read" /\ unsent' = {}
      /\ UNCHANGED <<committed, bronze, dlqTable, dlqTopic, Restarts>>
  BY DEF PlanBatch, CountInv, BatchInv, sinks, Restarts
<1>2. ASSUME NEW m \in EventId
      PROVE  /\ planned[m[1]] <= planned'[m[1]]
             /\ Landed(m)' = Landed(m)
             /\ m[2] > committed[m[1]] =>
                    Landed(m) = {} /\ Cardinality(Landed(m)) = 0 /\ dlqTable[m] = 0 /\ dlqTopic[m] = 0
  <2>1. planned'[m[1]] = Len(topic[m[1]])
    BY EventType DEF PlanBatch
  <2>2. m[2] > committed[m[1]] => Landed(m) = {} /\ dlqTable[m] = 0 /\ dlqTopic[m] = 0
    BY <1>1, CountType DEF CountInv, LandedCount, TableCount, TopicCount
  <2>. QED
    BY <1>1, <2>1, <2>2, CountType, FS_EmptySet DEF Landed
<1>3. ASSUME NEW m \in EventId, m[2] > planned'[m[1]]
      PROVE  m[2] > committed[m[1]]
  <2>1. planned'[m[1]] = Len(topic[m[1]])
    BY EventType DEF PlanBatch
  <2>. QED
    BY <1>3, <2>1, CountType
<1>. QED
  BY <1>1, <1>2, <1>3, CountType DEF CountInv, LandedCount, TableCount, TopicCount

\* An attempt that ends, whatever it wrote, is one restart more.
LEMMA EndedCounts ==
    ASSUME CountInv, Crash \/ FailBatch
    PROVE  LandedCount' /\ TableCount' /\ TopicCount'
<1>1. /\ UNCHANGED <<committed, planned, bronze, dlqTable, dlqTopic>>
      /\ unsent' \subseteq unsent
  BY DEF Crash, FailBatch, checkpoint, sinks
<1>2. Restarts' = Restarts + 1
  BY DEF Crash, FailBatch, Restarts, CountInv, TypeOK
<1>3. \A m \in EventId : Landed(m)' = Landed(m)
  BY <1>1 DEF Landed
<1>4. LandedCount'
  BY <1>1, <1>2, <1>3, CountType DEF CountInv, LandedCount
<1>5. TableCount'
  BY <1>1, <1>2, CountType DEF CountInv, TableCount
<1>6. TopicCount'
  BY <1>1, <1>2, CountType DEF CountInv, TopicCount
<1>. QED
  BY <1>4, <1>5, <1>6

\* Steps that write to no sink and end no attempt.
Quiet ==
    \/ \E p \in Partitions, kind \in Kinds : Produce(p, kind)
    \/ \E p \in Partitions : Expire(p)
    \/ ReadBatch
    \/ Restart
    \/ UNCHANGED vars

LEMMA QuietCounts ==
    ASSUME CountInv, Quiet
    PROVE  LandedCount' /\ TableCount' /\ TopicCount'
<1>1. UNCHANGED <<committed, planned, unsent, bronze, dlqTable, dlqTopic, Restarts>>
  BY DEF Quiet, Produce, Expire, ReadBatch, Restart, vars, checkpoint, sinks, Restarts
<1>2. pc' = pc \/ pc = "read" \/ (pc = "down" /\ pc' \in {"idle", "read"})
  BY DEF Quiet, Produce, Expire, ReadBatch, Restart, vars
<1>3. \A m \in EventId : Landed(m)' = Landed(m)
  BY <1>1 DEF Landed
<1>4. pc' \in {"read", "append", "down"} => pc \in {"read", "append", "down"}
  BY <1>2
<1>5. pc' \in {"read", "append", "quarantine", "down"} => pc \in {"read", "append", "quarantine", "down"}
  BY <1>2
<1>. QED
  BY <1>1, <1>3, <1>4, <1>5 DEF CountInv, LandedCount, TableCount, TopicCount

LEMMA AppendCounts ==
    ASSUME CountInv, AppendBronze
    PROVE  LandedCount' /\ TableCount' /\ TopicCount'
<1>1. /\ UNCHANGED <<committed, planned, unsent, dlqTable, dlqTopic, Restarts>>
      /\ pc = "append" /\ pc' \in {"checkpoint", "quarantine"}
  BY DEF AppendBronze, checkpoint, Restarts
<1>2. ASSUME NEW m \in EventId
      PROVE  /\ Cardinality(Landed(m)') <= 1 + Restarts
             /\ m[2] > planned[m[1]] => Landed(m)' = {}
  <2>1. CASE m \in Good(batch)
    <3>1. m \in PlannedRows
      BY <2>1 DEF CountInv, BatchInv, Good
    <3>2. m[2] > committed[m[1]] /\ ~(m[2] > planned[m[1]])
      BY <3>1, CountType DEF PlannedRows
    <3>3. Cardinality(Landed(m)) <= Restarts
      BY <1>1, <3>2 DEF CountInv, LandedCount
    <3>4. Landed(m)' = Landed(m) \cup {Len(bronze) + 1}
      BY <2>1, LandedBy DEF CountInv
    <3>5. IsFiniteSet(Landed(m))
      BY LandedType DEF CountInv
    <3>6. Cardinality(Landed(m) \cup {Len(bronze) + 1}) \in {Cardinality(Landed(m)), Cardinality(Landed(m)) + 1}
      BY <3>5, FS_AddElement
    <3>7. Cardinality(Landed(m)') \in {Cardinality(Landed(m)), Cardinality(Landed(m)) + 1}
      BY <3>4, <3>6
    <3>. QED
      BY <3>2, <3>3, <3>7, CountType
  <2>2. CASE m \notin Good(batch)
    <3>1. Landed(m)' = Landed(m)
      BY <2>2, LandedBy DEF CountInv
    <3>. QED
      BY <3>1 DEF CountInv, LandedCount
  <2>. QED
    BY <2>1, <2>2
<1>. QED
  BY <1>1, <1>2 DEF CountInv, LandedCount, TableCount, TopicCount

LEMMA DeadLetterCounts ==
    ASSUME CountInv, AppendDlq
    PROVE  LandedCount' /\ TableCount' /\ TopicCount'
<1>1. /\ UNCHANGED <<committed, planned, bronze, dlqTopic, Restarts>>
      /\ unsent' = Bad(batch) /\ pc = "quarantine" /\ pc' = "publish"
  BY DEF AppendDlq, checkpoint, Restarts
<1>2. \A m \in EventId : Landed(m)' = Landed(m)
  BY <1>1 DEF Landed
<1>3. \A m \in EventId : dlqTable'[m] = IF m \in Bad(batch) THEN dlqTable[m] + 1 ELSE dlqTable[m]
  BY DEF AppendDlq
<1>4. ASSUME NEW m \in Bad(batch)
      PROVE  m \in EventId /\ m[2] > committed[m[1]] /\ ~(m[2] > planned[m[1]])
  <2>1. m \in PlannedRows
    BY <1>4 DEF CountInv, BatchInv, Bad
  <2>. QED
    BY <2>1, CountType DEF PlannedRows
<1>5. LandedCount'
  BY <1>1, <1>2 DEF CountInv, LandedCount
<1>6. TableCount'
  BY <1>1, <1>3, <1>4, CountType DEF CountInv, TableCount
<1>7. TopicCount'
  BY <1>1, <1>4, CountType DEF CountInv, TopicCount
<1>. QED
  BY <1>5, <1>6, <1>7

LEMMA PublishCounts ==
    ASSUME CountInv, NEW n \in EventId, PublishDlq(n)
    PROVE  LandedCount' /\ TableCount' /\ TopicCount'
<1>1. /\ UNCHANGED <<committed, planned, bronze, dlqTable, Restarts>>
      /\ n \in unsent /\ unsent' = unsent \ {n}
      /\ pc = "publish" /\ pc' \in {"checkpoint", "publish"}
  BY DEF PublishDlq, checkpoint, Restarts
<1>2. \A m \in EventId : Landed(m)' = Landed(m)
  BY <1>1 DEF Landed
<1>3. \A m \in EventId : dlqTopic'[m] = IF m = n THEN dlqTopic[m] + 1 ELSE dlqTopic[m]
  BY DEF PublishDlq, CountInv, TypeOK
<1>4. ~(n[2] > planned[n[1]])
  <2>1. n \in PlannedRows
    BY <1>1 DEF CountInv, BatchInv, Bad
  <2>. QED
    BY <2>1, CountType DEF PlannedRows
<1>5. LandedCount' /\ TableCount'
  BY <1>1, <1>2 DEF CountInv, LandedCount, TableCount
<1>6. TopicCount'
  BY <1>1, <1>3, <1>4, CountType DEF CountInv, TopicCount
<1>. QED
  BY <1>5, <1>6

LEMMA CommitCounts ==
    ASSUME CountInv, AdvanceCheckpoint
    PROVE  LandedCount' /\ TableCount' /\ TopicCount'
<1>1. /\ UNCHANGED <<planned, unsent, bronze, dlqTable, dlqTopic, Restarts>> /\ pc' = "idle"
  BY DEF AdvanceCheckpoint, sinks, Restarts
<1>2. \A m \in EventId : Landed(m)' = Landed(m)
  BY <1>1 DEF Landed
<1>. QED
  BY <1>1, <1>2 DEF CountInv, LandedCount, TableCount, TopicCount

LEMMA CountNext == CountInv /\ [Next]_vars => CountInv'
<1>. SUFFICES ASSUME CountInv, [Next]_vars PROVE CountInv'
  OBVIOUS
<1>1. TypeOK' /\ BatchInv'
  BY TypeNext, BatchNext DEF CountInv
<1>2. \/ Quiet \/ PlanBatch \/ AppendBronze \/ AppendDlq \/ AdvanceCheckpoint
      \/ Crash \/ FailBatch \/ \E n \in EventId : PublishDlq(n)
  BY DEF Next, Query, Quiet
<1>3. LandedCount' /\ TableCount' /\ TopicCount'
  BY <1>2, QuietCounts, PlanCounts, AppendCounts, DeadLetterCounts, PublishCounts, CommitCounts, EndedCounts
<1>. QED
  BY <1>1, <1>3 DEF CountInv

\* A message is in each sink at most once more than batches were started anew.
THEOREM RepetitionsAreBounded == Spec => []DuplicatesOnlyByRestart
<1>1. CountInv => DuplicatesOnlyByRestart
  <2>1. CountInv => 1 + Restarts = 1 + crashes + failures
    BY DEF CountInv, TypeOK, Restarts
  <2>. QED
    BY <2>1 DEF CountInv, LandedCount, TableCount, TopicCount, DuplicatesOnlyByRestart
<1>. QED
  BY <1>1, CountInit, CountNext, PTL DEF Spec

-----------------------------------------------------------------------------
(* Order.                                                                  *)

LEMMA OrderInit == Init => OrderInv
<1>. SUFFICES ASSUME Init PROVE OrderInv
  OBVIOUS
<1>1. TypeOK /\ BatchInv
  BY TypeInit, BatchInit
<1>2. DOMAIN bronze = {}
  BY DEF Init
<1>. QED
  BY <1>1, <1>2 DEF OrderInv, SnapshotInv, LandedInOrder

\* Messages of snapshots are messages, and the checkpoint's logs are in order.
LEMMA SnapshotType ==
    ASSUME OrderInv, NEW i \in DOMAIN bronze, NEW m \in bronze[i]
    PROVE  /\ m \in EventId
           /\ m[2] \in Nat /\ committed[m[1]] \in Nat /\ planned[m[1]] \in Nat
           /\ Len(topic[m[1]]) \in Nat
           /\ planned[m[1]] <= Len(topic[m[1]])
<1>. TypeOK
  BY DEF OrderInv
<1>1. bronze[i] \in SUBSET EventId
  BY LenProperties, ElementOfSeq DEF TypeOK
<1>2. m[1] \in Partitions /\ m[2] \in Nat \ {0}
  BY <1>1, EventType
<1>3. Len(topic[m[1]]) \in Nat
  BY <1>2, LenProperties DEF TypeOK
<1>. QED
  BY <1>1, <1>2, <1>3 DEF TypeOK

\* The batch in hand holds all the good rows that can still be read, and lies
\* past what is committed.
LEMMA BatchCovers ==
    ASSUME OrderInv, pc = "append"
    PROVE  /\ Good(Readable) \subseteq Good(batch)
           /\ \A m \in batch : /\ m[1] \in Partitions /\ m[2] \in Nat
                              /\ committed[m[1]] < m[2] /\ m[2] <= planned[m[1]]
<1>1. \A m \in PlannedRows : m \in batch \/ m[2] <= expired[m[1]]
  BY DEF OrderInv, BatchInv, Holding
<1>2. \A m \in PlannedRows :
         /\ m[1] \in Partitions /\ m[2] \in Nat /\ expired[m[1]] \in Nat
         /\ committed[m[1]] < m[2] /\ m[2] <= planned[m[1]]
  BY EventType DEF PlannedRows, OrderInv, TypeOK
<1>3. Readable \subseteq batch
  BY <1>1, <1>2 DEF Readable
<1>. QED
  BY <1>2, <1>3 DEF Good, OrderInv, BatchInv

LEMMA SnapshotNext ==
    ASSUME OrderInv, [Next]_vars
    PROVE  SnapshotInv'
<1>. USE DEF OrderInv
<1>1. ASSUME NEW p \in Partitions, NEW kind \in Kinds, Produce(p, kind)
      PROVE  SnapshotInv'
  <2>1. Good(Readable)' = Good(Readable) /\ Good(batch)' = Good(batch)
    BY <1>1, ProduceStays
  <2>2. UNCHANGED <<planned, committed, pc, bronze>>
    BY <1>1 DEF Produce, checkpoint, sinks
  <2>. QED
    BY <2>1, <2>2 DEF SnapshotInv
<1>2. ASSUME NEW p \in Partitions, Expire(p)
      PROVE  SnapshotInv'
  <2>1. UNCHANGED <<topic, planned, committed, pc, batch, bronze>>
    BY <1>2 DEF Expire, checkpoint, sinks
  <2>2. \A q \in Partitions : expired[q] \in Nat /\ expired'[q] \in Nat /\ expired[q] <= expired'[q]
    BY <1>2 DEF Expire, TypeOK
  <2>3. \A m \in PlannedRows : m[1] \in Partitions /\ m[2] \in Nat
    BY EventType DEF PlannedRows
  <2>4. PlannedRows' = PlannedRows
    BY <2>1 DEF PlannedRows
  <2>5. Readable' \subseteq Readable
    BY <2>2, <2>3, <2>4 DEF Readable
  <2>6. Good(Readable)' \subseteq Good(Readable) /\ Good(batch)' = Good(batch)
    BY <2>1, <2>5 DEF Good, IsGood, Kind
  <2>. QED
    BY <2>1, <2>6 DEF SnapshotInv
<1>3. CASE PlanBatch
  <2>1. UNCHANGED <<committed, bronze>> /\ planned = committed
    BY <1>3 DEF PlanBatch, sinks, BatchInv
  <2>2. ASSUME NEW i \in DOMAIN bronze, NEW m \in bronze[i]
        PROVE  m[2] <= planned'[m[1]] /\ m[2] <= committed[m[1]]
    <3>1. m[2] <= planned[m[1]]
      BY DEF SnapshotInv
    <3>2. planned'[m[1]] = Len(topic[m[1]])
      BY <1>3, SnapshotType, EventType DEF PlanBatch
    <3>. QED
      BY <2>1, <3>1, <3>2, SnapshotType
  <2>. QED
    BY <2>1, <2>2 DEF SnapshotInv
<1>4. CASE ReadBatch
  <2>1. UNCHANGED <<topic, expired, planned, committed, bronze>> /\ batch' = Readable
    BY <1>4 DEF ReadBatch, kafka, checkpoint, sinks
  <2>2. Good(Readable)' = Good(Readable) /\ Good(batch)' = Good(Readable)
    BY <2>1 DEF Good, IsGood, Kind, Readable, PlannedRows
  <2>. QED
    BY <2>1, <2>2 DEF SnapshotInv
<1>5. CASE AppendBronze
  <2>1. UNCHANGED <<topic, expired, planned, committed, batch>> /\ pc = "append" /\ pc' # "append"
    BY <1>5 DEF AppendBronze, kafka, checkpoint
  <2>2. Good(Readable)' = Good(Readable)
    BY <2>1 DEF Good, IsGood, Kind, Readable, PlannedRows
  <2>3. CASE Good(batch) = {}
    BY <1>5, <2>1, <2>2, <2>3 DEF AppendBronze, SnapshotInv
  <2>4. CASE Good(batch) # {}
    <3>1. bronze' = Append(bronze, Good(batch)) /\ Good(batch) \in SUBSET EventId
      BY <1>5, <2>4 DEF AppendBronze, Good, TypeOK
    <3>2. /\ \A i \in DOMAIN bronze' : i \in DOMAIN bronze \/ i = Len(bronze) + 1
          /\ \A i \in DOMAIN bronze : bronze'[i] = bronze[i]
          /\ bronze'[Len(bronze) + 1] = Good(batch)
      BY <3>1, BronzeGrows
    <3>3. \A m \in Good(batch) : m[2] <= planned[m[1]]
      BY <2>1, BatchCovers DEF Good
    <3>4. Good(Readable) \subseteq Good(batch)
      BY <2>1, BatchCovers
    <3>5. ASSUME NEW i \in DOMAIN bronze'
          PROVE  /\ \A m \in bronze'[i] : m[2] <= planned[m[1]]
                 /\ \/ \A m \in bronze'[i] : m[2] <= committed[m[1]]
                    \/ Good(Readable) \subseteq bronze'[i]
      BY <3>2, <3>3, <3>4 DEF SnapshotInv
    <3>. QED
      BY <2>1, <2>2, <3>5 DEF SnapshotInv
  <2>. QED
    BY <2>3, <2>4
<1>6. ASSUME \/ AppendDlq \/ \E m \in EventId : PublishDlq(m)
             \/ FailBatch \/ Restart \/ Crash
      PROVE  SnapshotInv'
  <2>1. UNCHANGED <<topic, expired, planned, committed, bronze>> /\ pc' # "append"
    BY <1>6 DEF AppendDlq, PublishDlq, FailBatch, Restart, Crash, kafka, checkpoint, sinks
  <2>2. Good(Readable)' = Good(Readable)
    BY <2>1 DEF Good, IsGood, Kind, Readable, PlannedRows
  <2>. QED
    BY <2>1, <2>2 DEF SnapshotInv
<1>7. CASE AdvanceCheckpoint
  BY <1>7 DEF AdvanceCheckpoint, sinks, SnapshotInv
<1>8. CASE UNCHANGED vars
  <2>1. UNCHANGED <<topic, expired, planned, committed, pc, batch, bronze>>
    BY <1>8 DEF vars, sinks
  <2>2. Good(Readable)' = Good(Readable) /\ Good(batch)' = Good(batch)
    BY <2>1 DEF Good, IsGood, Kind, Readable, PlannedRows
  <2>. QED
    BY <2>1, <2>2 DEF SnapshotInv
<1>. QED
  BY <1>1, <1>2, <1>3, <1>4, <1>5, <1>6, <1>7, <1>8 DEF Next, Query

\* A new snapshot is past the committed ones, and within those of its own range.
LEMMA OrderedNext ==
    ASSUME OrderInv, [Next]_vars
    PROVE  LandedInOrder'
<1>. USE DEF OrderInv
<1>1. CASE bronze' = bronze
  BY <1>1 DEF LandedInOrder
<1>2. CASE bronze' # bronze
  <2>1. AppendBronze /\ Good(batch) # {}
    BY <1>2 DEF Next, Query, vars, sinks, Produce, Expire, PlanBatch, ReadBatch, AppendBronze, AppendDlq,
                FailBatch, PublishDlq, AdvanceCheckpoint, Restart, Crash
  <2>2. bronze' = Append(bronze, Good(batch)) /\ Good(batch) \in SUBSET EventId /\ pc = "append"
    BY <2>1 DEF AppendBronze, Good, TypeOK
  <2>3. /\ Len(bronze) \in Nat
        /\ DOMAIN bronze = 1 .. Len(bronze) /\ DOMAIN bronze' = 1 .. Len(bronze) + 1
        /\ \A i \in DOMAIN bronze : bronze'[i] = bronze[i]
        /\ bronze'[Len(bronze) + 1] = Good(batch)
    BY <2>2, BronzeGrows
  <2>4. ASSUME NEW i \in DOMAIN bronze
        PROVE  \/ Good(batch) \subseteq bronze[i]
               \/ \A m \in bronze[i], n \in Good(batch) : m[1] = n[1] => m[2] < n[2]
    <3>1. CASE \A m \in bronze[i] : m[2] <= committed[m[1]]
      <4>1. \A n \in Good(batch) : n[2] \in Nat /\ committed[n[1]] < n[2]
        BY <2>2, BatchCovers DEF Good
      <4>. QED
        BY <3>1, <4>1, SnapshotType
    <3>2. CASE ~\A m \in bronze[i] : m[2] <= committed[m[1]]
      BY <2>2, <3>2 DEF SnapshotInv
    <3>. QED
      BY <3>1, <3>2
  <2>5. ASSUME NEW i \in DOMAIN bronze', NEW j \in DOMAIN bronze', i < j
        PROVE  \/ bronze'[j] \subseteq bronze'[i]
               \/ \A m \in bronze'[i], n \in bronze'[j] : m[1] = n[1] => m[2] < n[2]
    <3>1. i \in DOMAIN bronze /\ (j \in DOMAIN bronze \/ j = Len(bronze) + 1)
      BY <2>3, <2>5
    <3>2. CASE j \in DOMAIN bronze
      BY <2>3, <2>5, <3>1, <3>2 DEF LandedInOrder
    <3>3. CASE j = Len(bronze) + 1
      BY <2>3, <2>4, <3>1, <3>3
    <3>. QED
      BY <3>1, <3>2, <3>3
  <2>. QED
    BY <2>5 DEF LandedInOrder
<1>. QED
  BY <1>1, <1>2

LEMMA OrderNext == OrderInv /\ [Next]_vars => OrderInv'
<1>. SUFFICES ASSUME OrderInv, [Next]_vars PROVE OrderInv'
  OBVIOUS
<1>1. TypeOK' /\ BatchInv'
  BY TypeNext, BatchNext DEF OrderInv
<1>2. SnapshotInv' /\ LandedInOrder'
  BY SnapshotNext, OrderedNext
<1>. QED
  BY <1>1, <1>2 DEF OrderInv

\* Along the Bronze table the offsets of a partition go back only where a batch
\* is appended again.
THEOREM PartitionsLandInOrder == Spec => []LandedInOrder
<1>. QED
  BY OrderInit, OrderNext, PTL DEF Spec, OrderInv
=============================================================================
