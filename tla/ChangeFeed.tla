----------------------------- MODULE ChangeFeed -----------------------------
(***************************************************************************)
(* What the Silver query of one table reads: the changes of one Postgres   *)
(* table as they reach its Bronze table through Debezium, Kafka and the    *)
(* Bronze query.                                                           *)
(*                                                                         *)
(* Bronze is a sequence of files, each a set of rows that one Bronze       *)
(* append wrote.  The changes of a key arrive in WAL order (one Kafka      *)
(* partition per key, LandedInOrder of BronzeWriter), but at least once:   *)
(* Debezium may start again from an older LSN, and the Bronze query may    *)
(* append its last batch again.  Rows of another shape than Debezium's     *)
(* arrive as well: every message that extract_fields() accepts lands.      *)
(*                                                                         *)
(* A row's event_id and Kafka coordinates only tell copies of one change   *)
(* apart, and copies agree on all other columns: files are sets of rows    *)
(* without these columns, which makes dropDuplicates(["event_id"]) and     *)
(* the tie-breaks among copies the union of sets.                          *)
(***************************************************************************)
EXTENDS Naturals, Sequences, FiniteSets

CONSTANTS
    Keys,             \* primary keys of the table
    Values,           \* contents of a row's other columns
    NullKey, NoValue, \* a null primary key; no value
    SourceOps,        \* the operations the applications perform on the table
    MalformedRows,    \* rows of other shapes that may land in Bronze
    MaxChanges,       \* bound: changes of the table
    MaxReplays,       \* bound: restarts of Debezium from an older LSN
    MaxRedeliveries,  \* bound: batches the Bronze query appends again
    MaxMalformed      \* bound: files with a malformed row

Operations == {"r", "c", "u", "d"}

NullLsn == 0

\* A before or after image: absent (SQL NULL), a value that from_json() turns into
\* NULL, or a JSON object.
Image == [state : {"absent", "garbled", "parsed"},
          key : Keys \cup {NullKey},
          val : Values \cup {NoValue}]

NoImage == [state |-> "absent", key |-> NullKey, val |-> NoValue]

ImageOf(k, v) == [state |-> "parsed", key |-> k, val |-> v]

\* An operation is one of Debezium's codes, another code, or NULL.
BronzeRow == [op : Operations \cup {"t", "null"}, before : Image, after : Image, lsn : Nat]

\* REPLICA IDENTITY FULL: a delete's before image holds the whole row.
PayloadOf(e) == IF e.op = "d" THEN e.before ELSE e.after

KeyOf(e) == PayloadOf(e).key

ValueOf(e) == PayloadOf(e).val

\* What makes a row malformed, whatever the code that reads it does about it.
NotAChange(e) ==
    \/ e.op \notin Operations
    \/ PayloadOf(e).state # "parsed"
    \/ KeyOf(e) = NullKey
    \/ e.lsn = NullLsn

ASSUME NullAssumption == NullKey \notin Keys /\ NoValue \notin Values
ASSUME OpsAssumption == SourceOps \subseteq Operations
ASSUME MalformedAssumption == MalformedRows \subseteq {e \in BronzeRow : NotAChange(e)}
ASSUME FeedBounds ==
    MaxChanges \in Nat /\ MaxReplays \in Nat /\ MaxRedeliveries \in Nat /\ MaxMalformed \in Nat

VARIABLES
    db,           \* [Keys -> Values \cup {NoValue}], the Postgres table
    wal,          \* Seq(BronzeRow), its changes; a change's LSN is its index
    shipped,      \* how many changes Debezium and Bronze have delivered
    bronze,       \* Seq(SUBSET BronzeRow), the files of the Bronze table
    replays,
    redeliveries

feed == <<db, wal, shipped, bronze, replays, redeliveries>>

FeedInit ==
    /\ db = [k \in Keys |-> NoValue]
    /\ wal = <<>>
    /\ shipped = 0
    /\ bronze = <<>>
    /\ replays = 0
    /\ redeliveries = 0

-----------------------------------------------------------------------------
(* Postgres and the applications that write to it.                         *)

Commit(op, k, old, new) ==
    /\ op \in SourceOps
    /\ Len(wal) < MaxChanges
    /\ wal' = Append(wal, [op |-> op,
                           before |-> IF old = NoValue THEN NoImage ELSE ImageOf(k, old),
                           after |-> IF new = NoValue THEN NoImage ELSE ImageOf(k, new),
                           lsn |-> Len(wal) + 1])
    /\ db' = [db EXCEPT ![k] = new]
    /\ UNCHANGED <<shipped, bronze, replays, redeliveries>>

\* A new row, or a row older than the connector that its first snapshot reads.
Insert(k, v) ==
    /\ db[k] = NoValue
    /\ \E op \in {"c", "r"} : Commit(op, k, NoValue, v)

\* An update may leave the columns that `val` stands for as they are.
Update(k, v) == db[k] # NoValue /\ Commit("u", k, db[k], v)

Delete(k) == db[k] # NoValue /\ Commit("d", k, db[k], NoValue)

-----------------------------------------------------------------------------
(* Debezium, Kafka and the Bronze query.                                   *)

AppendFile(file) == bronze' = Append(bronze, file)

\* The Bronze query appends what its batch found: the next n changes.
Ship(n) ==
    /\ shipped + n <= Len(wal)
    /\ AppendFile({wal[i] : i \in shipped + 1 .. shipped + n})
    /\ shipped' = shipped + n
    /\ UNCHANGED <<db, wal, replays, redeliveries>>

\* Debezium restarts from an older LSN and produces a suffix of the WAL again.
Replay(lsn) ==
    /\ replays < MaxReplays
    /\ lsn < shipped
    /\ shipped' = lsn
    /\ replays' = replays + 1
    /\ UNCHANGED <<db, wal, bronze, redeliveries>>

\* The Bronze query crashed between its append and its checkpoint.
Redeliver ==
    /\ redeliveries < MaxRedeliveries
    /\ bronze # <<>>
    /\ AppendFile(bronze[Len(bronze)])
    /\ redeliveries' = redeliveries + 1
    /\ UNCHANGED <<db, wal, shipped, replays>>

\* A message with an envelope that parses and contents that are no change.
LandMalformed(e) ==
    /\ Cardinality({i \in DOMAIN bronze : bronze[i] \subseteq MalformedRows}) < MaxMalformed
    /\ AppendFile({e})
    /\ UNCHANGED <<db, wal, shipped, replays, redeliveries>>

ShipNext == \E n \in 1 .. MaxChanges : Ship(n)
=============================================================================
