---------------------------- MODULE BronzeWriter ----------------------------
(***************************************************************************)
(* One streaming query of streaming/pyspark/bronze_writer.py: it copies    *)
(* one cdc.<table> topic into its append-only Bronze table and quarantines *)
(* what it cannot parse.  The seven queries share no state but the DLQ     *)
(* table, to which they only append, so one query is the whole component.  *)
(*                                                                         *)
(* Kafka, Debezium, the Iceberg catalog and Spark's checkpoint files are   *)
(* outside src/; they are modelled by what the writer relies on: a topic   *)
(* is a log per partition, a table append is one atomic snapshot, and a    *)
(* micro-batch's end offsets are on disk before the batch runs and again   *)
(* after it has run.                                                       *)
(***************************************************************************)
EXTENDS Naturals, Sequences, FiniteSets

CONSTANTS
    Partitions,   \* the partitions of the topic
    Kinds,        \* the kinds of message the producers may send
    MaxMessages,  \* bound: messages of the topic
    MaxCrashes,   \* bound: crashes of the writer
    MaxFailures,  \* bound: batches that fail on their dead letters
    Retention     \* whether Kafka expires old messages during the run

MessageKinds == {"change", "null_source", "null_value", "not_json", "no_op", "odd_source"}

ASSUME KindsAssumption == Kinds \subseteq MessageKinds
ASSUME BoundsAssumption == MaxMessages \in Nat /\ MaxCrashes \in Nat /\ MaxFailures \in Nat
ASSUME RetentionAssumption == Retention \in BOOLEAN

\* Steps of the query: waiting for a trigger, reading the planned range,
\* appending to Bronze, appending to the DLQ table, producing to the DLQ topic,
\* advancing the checkpoint; or the process is not running.
Steps == {"idle", "read", "append", "quarantine", "publish", "checkpoint", "down"}

\* An event's identity; compute_event_id() hashes exactly this pair (the topic
\* is fixed here), and the k-th message of a partition is at offset k.
EventId == Partitions \X (1 .. MaxMessages)

VARIABLES
    topic,      \* [Partitions -> Seq(Kinds)], everything ever produced
    expired,    \* [Partitions -> Nat], how many messages Kafka has dropped
    planned,    \* [Partitions -> Nat], end offsets in the checkpoint's offset log
    committed,  \* [Partitions -> Nat], end offsets in the checkpoint's commit log
    pc,         \* the step of the query
    batch,      \* the rows of the persisted `decoded` frame
    unsent,     \* bad rows not yet produced to the DLQ topic
    bronze,     \* the Bronze table: the sequence of appended row sets
    dlqTable,   \* [EventId -> Nat], rows of bronze.dlq_events per event
    dlqTopic,   \* [EventId -> Nat], messages of cdc.<table>.dlq per event
    crashes,
    failures    \* batches that failed on their dead letters

kafka == <<topic, expired>>
checkpoint == <<planned, committed>>
sinks == <<bronze, dlqTable, dlqTopic>>
vars == <<topic, expired, planned, committed, pc, batch, unsent, bronze, dlqTable, dlqTopic, crashes, failures>>

Init ==
    /\ topic = [p \in Partitions |-> <<>>]
    /\ expired = [p \in Partitions |-> 0]
    /\ planned = [p \in Partitions |-> 0]
    /\ committed = [p \in Partitions |-> 0]
    /\ pc = "idle"
    /\ batch = {}
    /\ unsent = {}
    /\ bronze = <<>>
    /\ dlqTable = [m \in EventId |-> 0]
    /\ dlqTopic = [m \in EventId |-> 0]
    /\ crashes = 0
    /\ failures = 0

-----------------------------------------------------------------------------
(* The parse: which rows of a batch are quarantined.                       *)

\* extract_fields() raises EnvelopeParseError for a null value, for text that is
\* not a JSON object and for a missing op or source; a source that is neither
\* an object nor null makes source.get() raise AttributeError.  _parse_safe()
\* turns each of them into a row.  A null source is NOT an error: it parses
\* to a row whose LSN is null.
ParseErrorType(kind) ==
    CASE kind \in {"null_value", "not_json", "no_op"} -> "EnvelopeParseError"
      [] kind = "odd_source" -> "AttributeError"
      [] OTHER -> "none"

Kind(m) == topic[m[1]][m[2]]

IsGood(m) == ParseErrorType(Kind(m)) = "none"

Good(rows) == {m \in rows : IsGood(m)}

Bad(rows) == {m \in rows : ~IsGood(m)}

-----------------------------------------------------------------------------
(* The outside: producers and Kafka's retention.                           *)

\* Debezium (or anyone else with access to the topic) produces a message.
Produce(p, kind) ==
    /\ Cardinality({m \in EventId : m[2] <= Len(topic[m[1]])}) < MaxMessages
    /\ topic' = [topic EXCEPT ![p] = Append(@, kind)]
    /\ UNCHANGED <<expired, checkpoint, pc, batch, unsent, sinks, crashes, failures>>

\* Kafka deletes the oldest message of a partition, read or not.
Expire(p) ==
    /\ Retention
    /\ expired[p] < Len(topic[p])
    /\ expired' = [expired EXCEPT ![p] = @ + 1]
    /\ UNCHANGED <<topic, checkpoint, pc, batch, unsent, sinks, crashes, failures>>

-----------------------------------------------------------------------------
(* The query.                                                              *)

\* Slips: a trigger that waits for two messages; a plan past the end of the log.
PlanBatchSkipsOne ==
    /\ pc = "idle"
    /\ \E p \in Partitions : Len(topic[p]) > committed[p] + 1
    /\ planned' = [p \in Partitions |-> Len(topic[p])]
    /\ pc' = "read"
    /\ UNCHANGED <<kafka, committed, batch, unsent, sinks, crashes, failures>>

PlanBatchPastEnd ==
    /\ pc = "idle"
    /\ \E p \in Partitions : Len(topic[p]) > committed[p]
    /\ planned' = [p \in Partitions |-> Len(topic[p]) + 1]
    /\ pc' = "read"
    /\ UNCHANGED <<kafka, committed, batch, unsent, sinks, crashes, failures>>

\* A trigger with new data: the latest offset of every partition (no
\* maxOffsetsPerTrigger is set) goes to the offset log before the batch runs.
PlanBatch ==
    /\ pc = "idle"
    /\ \E p \in Partitions : Len(topic[p]) > committed[p]
    /\ planned' = [p \in Partitions |-> Len(topic[p])]
    /\ pc' = "read"
    /\ UNCHANGED <<kafka, committed, batch, unsent, sinks, crashes, failures>>

\* What the planned range still holds: failOnDataLoss=false skips, without an
\* error, the offsets Kafka has already dropped.
PlannedRows == {m \in EventId : m[2] \in committed[m[1]] + 1 .. planned[m[1]]}

Readable == {m \in PlannedRows : m[2] > expired[m[1]]}

\* process_batch() begins: decode and persist the batch; an empty one returns
\* at once, which lets Spark commit it.
ReadBatch ==
    /\ pc = "read"
    /\ batch' = Readable
    /\ pc' = IF Readable = {} THEN "checkpoint" ELSE "append"
    /\ UNCHANGED <<kafka, checkpoint, unsent, sinks, crashes, failures>>

\* The rows that parsed, if any, become one snapshot of the Bronze table.
AppendBronze ==
    /\ pc = "append"
    /\ bronze' = IF Good(batch) = {} THEN bronze ELSE Append(bronze, Good(batch))
    /\ pc' = IF Bad(batch) = {} THEN "checkpoint" ELSE "quarantine"
    /\ UNCHANGED <<kafka, checkpoint, batch, unsent, dlqTable, dlqTopic, crashes, failures>>

\* createDataFrame() infers the type of original_event from the bad rows, and
\* raises when each of them is a null value.
Untyped(rows) == \A m \in rows : Kind(m) = "null_value"

\* The rows that did not parse become one snapshot of bronze.dlq_events ...
AppendDlq ==
    /\ pc = "quarantine"
    /\ ~Untyped(Bad(batch))
    /\ dlqTable' = [m \in EventId |-> IF m \in Bad(batch) THEN dlqTable[m] + 1 ELSE dlqTable[m]]
    /\ unsent' = Bad(batch)
    /\ pc' = "publish"
    /\ UNCHANGED <<kafka, checkpoint, batch, bronze, dlqTopic, crashes, failures>>

\* ... or the batch fails: the query ends, and with it the process.
FailBatch ==
    /\ pc = "quarantine"
    /\ Untyped(Bad(batch))
    /\ failures < MaxFailures
    /\ failures' = failures + 1
    /\ pc' = "down"
    /\ batch' = {}
    /\ UNCHANGED <<kafka, checkpoint, unsent, sinks, crashes>>

\* A slip: a row is produced until it has been produced twice.
PublishAgain(m) ==
    /\ pc = "publish"
    /\ m \in unsent
    /\ dlqTopic' = [dlqTopic EXCEPT ![m] = @ + 1]
    /\ unsent' = IF dlqTopic[m] = 0 THEN unsent ELSE unsent \ {m}
    /\ pc' = IF unsent' = {} THEN "checkpoint" ELSE "publish"
    /\ UNCHANGED <<kafka, checkpoint, batch, bronze, dlqTable, crashes, failures>>

\* ... and are then produced to the DLQ topic, one message at a time: unlike a
\* table append, a Kafka write is not atomic.
PublishDlq(m) ==
    /\ pc = "publish"
    /\ m \in unsent
    /\ dlqTopic' = [dlqTopic EXCEPT ![m] = @ + 1]
    /\ unsent' = unsent \ {m}
    /\ pc' = IF unsent' = {} THEN "checkpoint" ELSE "publish"
    /\ UNCHANGED <<kafka, checkpoint, batch, bronze, dlqTable, crashes, failures>>

\* process_batch() returned: Spark writes the batch's commit-log entry.
AdvanceCheckpoint ==
    /\ pc = "checkpoint"
    /\ committed' = planned
    /\ batch' = {}
    /\ pc' = "idle"
    /\ UNCHANGED <<kafka, planned, unsent, sinks, crashes, failures>>

\* The process dies, or a write raises: the query ends, awaitAnyTermination()
\* returns and the container exits.  Only Kafka, the tables and the
\* checkpoint survive.
Crash ==
    /\ pc # "down"
    /\ crashes < MaxCrashes
    /\ crashes' = crashes + 1
    /\ pc' = "down"
    /\ batch' = {}
    /\ unsent' = {}
    /\ UNCHANGED <<kafka, checkpoint, sinks, failures>>

\* Slips: a planned batch counts as processed; the offset log is ignored.
RestartAsCommitted ==
    /\ pc = "down"
    /\ pc' = "idle"
    /\ committed' = planned
    /\ UNCHANGED <<kafka, planned, batch, unsent, sinks, crashes, failures>>

RestartWithNewPlan ==
    /\ pc = "down"
    /\ pc' = "idle"
    /\ planned' = committed
    /\ UNCHANGED <<kafka, committed, batch, unsent, sinks, crashes, failures>>

\* The container restarts (restart: unless-stopped) and main() starts the query
\* again: a batch in the offset log that is not in the commit log runs again
\* over the same offsets.
Restart ==
    /\ pc = "down"
    /\ pc' = IF planned = committed THEN "idle" ELSE "read"
    /\ UNCHANGED <<kafka, checkpoint, batch, unsent, sinks, crashes, failures>>

Query ==
    \/ PlanBatch
    \/ ReadBatch
    \/ AppendBronze
    \/ AppendDlq
    \/ FailBatch
    \/ \E m \in EventId : PublishDlq(m)
    \/ AdvanceCheckpoint
    \/ Restart

Next ==
    \/ \E p \in Partitions, kind \in Kinds : Produce(p, kind)
    \/ \E p \in Partitions : Expire(p)
    \/ Query
    \/ Crash

\* Spark triggers the query again and again, its steps end, and Docker restarts
\* the container.  Nothing is assumed of the producers, of retention or of crashes.
Fairness == WF_vars(Query)

Spec == Init /\ [][Next]_vars /\ Fairness

-----------------------------------------------------------------------------
(* Properties.                                                             *)

Landed(m) == {i \in DOMAIN bronze : m \in bronze[i]}

\* A message is accounted for when it is in Bronze, or, if it does not parse, in
\* both dead-letter sinks.
Delivered(m) ==
    IF IsGood(m) THEN Landed(m) # {} ELSE dlqTable[m] > 0 /\ dlqTopic[m] > 0

\* Types, and the checkpoint's order: the commit log never overtakes the offset
\* log, which never overtakes the topic; work in hand exists only in the
\* steps that use it.
TypeOK ==
    /\ topic \in [Partitions -> Seq(Kinds)]
    /\ expired \in [Partitions -> Nat]
    /\ planned \in [Partitions -> Nat]
    /\ committed \in [Partitions -> Nat]
    /\ pc \in Steps
    /\ batch \in SUBSET EventId
    /\ unsent \in SUBSET EventId
    /\ bronze \in Seq(SUBSET EventId)
    /\ dlqTable \in [EventId -> Nat]
    /\ dlqTopic \in [EventId -> Nat]
    /\ crashes \in Nat
    /\ failures \in Nat
    /\ \A p \in Partitions : committed[p] <= planned[p] /\ planned[p] <= Len(topic[p])

\* No committed offset is lost, wherever the writer crashed: the only messages
\* that reach neither Bronze nor the dead-letter sinks are ones that Kafka
\* dropped before the writer read them.
LossOnlyByRetention ==
    \A m \in EventId :
        m[2] <= committed[m[1]] => Delivered(m) \/ m[2] <= expired[m[1]]

\* docs/cdc.md: "Every hop guarantees no silent data loss".  What the writer has
\* committed as processed is in a sink.
NoSilentLoss ==
    \A m \in EventId : m[2] <= committed[m[1]] => Delivered(m)

\* Duplicates come from restarts alone: a message lands once, and at most once
\* more for each crash or failed batch, in each of the three sinks.
DuplicatesOnlyByRestart ==
    \A m \in EventId :
        /\ Cardinality(Landed(m)) <= 1 + crashes + failures
        /\ dlqTable[m] <= 1 + crashes + failures
        /\ dlqTopic[m] <= 1 + crashes + failures

\* The order the Silver query depends on: along the Bronze table the offsets of
\* a partition never go back, except that a batch may be appended again,
\* whole or (after expiry) in part.
LandedInOrder ==
    \A i, j \in DOMAIN bronze :
        i < j => \/ bronze[j] \subseteq bronze[i]
                 \/ \A m \in bronze[i], n \in bronze[j] : m[1] = n[1] => m[2] < n[2]

\* "The Bronze writer routes those rows to the DLQ instead of failing the whole
\* micro-batch" (extract_fields): whatever arrives, no batch fails on it.
NoBatchFails == failures = 0

\* Every message is eventually in its sink, or expires: no crash makes the
\* writer forget a range.  A batch that fails on its dead letters would fail
\* again at each restart and is the one exception.
EventuallyDelivered ==
    \A m \in EventId :
        (m[2] <= Len(topic[m[1]])) ~>
            \/ m[2] <= expired[m[1]]
            \/ m[2] <= Len(topic[m[1]]) /\ Delivered(m)
            \/ failures > 0
=============================================================================
