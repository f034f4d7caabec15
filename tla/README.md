# Verification of the commerce lakehouse platform

The platform moves the changes of a Postgres database through Debezium and
Kafka into Iceberg tables: Bronze (every event), Silver (the current state of
each row, and the history of customers) and Gold (reports behind a data-quality
gate). Streaming analytics read the same Kafka topics. This directory holds
TLA+ models of its parts, TLC configurations that check them on small
instances, and TLAPS proofs of what matters most for instances of every size.

## The system

| Part | State it keeps | Operations | Hard behaviour |
|---|---|---|---|
| Bronze writer (`bronze_writer.py`, `debezium_envelope.py`) | per topic: a checkpoint (offset log, commit log), a Bronze table, `bronze.dlq_events`, a DLQ topic | plan, read, append, quarantine, publish, commit a micro-batch; restart | crash between any two writes; Kafka retention; a batch that cannot be quarantined |
| Silver writer (`silver_writer.py`, `silver_transform.py`) | per table: a checkpoint over Bronze files, a Silver table, `silver.dlq_events` | validate, quarantine, dedupe, MERGE under the LSN guard | replayed, duplicated and malformed rows; retries; hard deletes that leave no LSN |
| Customer history (`scd2.py`) | `gold.dim_customer_history` | classify, close, append, inside the customers query's batch | two commits that a crash may separate; a guard of its own that lags behind Silver's |
| Streaming analytics (`analytics_*.py`) | per metric: Spark's aggregation state, a sink table; one stored watermark | windowed MERGE, late-event detection, alerts | two watermarks that advance in different queries; batches that run again against their own watermark |
| Simulator (`simulator.py`, `transitions.py`) | `open_orders`, next identifiers, and the Postgres rows | ten events, each several autocommitted statements | an event that fails half way; cached statuses that no longer hold |
| Gold build (`gold_builder.py`, `gold_tests.py`) | the Gold tables | full and incremental builds, tests | incremental aggregates over mutable tables that are still written to |
| Data-quality gate (`data_quality/`) | `audit.dq_results` | suites of checks, escalation, the exit code | checks over tables that independent queries write |
| Schema evolution, seeding, scripts, DDL | - | start-up and ad-hoc steps | check-then-alter at start-up |

The parts interact through data alone. Postgres commits become Debezium
messages; the Bronze query of a topic appends them to its table; the Silver
query of a table reads that table's files in order; the customers query writes
the history in the same batch; the gate and the Gold build read Silver. Each
writer runs its seven queries in one process that Docker restarts, and the
failure of one query ends the process.

What makes each part correct, in a sentence: Bronze loses nothing it could still
read, and repeats only what a restart repeats, in order; Silver shows for each
key a version that Postgres committed, never goes back, and ends at the current
one; the history is an unbroken chain that ends at the current values; an order
that came in time is counted, and one that is behind an earlier batch is
reported; an order's status, payment, shipment and reservations fit together
unless an event about it stopped half way; a report counts each recent order
once; the gate lets a build start only on tables that satisfy its checks.
`PROJECT.json` lists the hazards of each part at the lines where they bite.

## Modules

* `BronzeWriter` models one query of `bronze_writer.py`. Its `pc` names the step
  of the micro-batch; `planned` and `committed` are the checkpoint's two logs;
  `bronze`, `dlqTable` and `dlqTopic` are the sinks. Each Iceberg append is one
  step, the Kafka write one step per message (it is not atomic). `Produce` and
  `Expire` are Debezium and Kafka's retention. A message is one of the kinds
  that `extract_fields()` and the writer tell apart; errors with one outcome (a
  `ts_ms` that is no number, a `transaction` that is no object) share a kind.
  `FailBatch` is the exception of
  `createDataFrame()` when every bad message has a null value. `MCBronzeWriter`
  instantiates it.
* `ChangeFeed` is what a Silver query reads: the WAL of one table, and Bronze
  files that hold its changes at least once, in order, among malformed rows.
* `SilverWriter` extends it with one query of `silver_writer.py`: `Quarantine`
  (validate and write the DLQ table, reduce to the latest per key),
  `MergeSilver` (the MERGE), and for customers `Classify`, `CloseHistory` and
  `AppendHistory` (the classification and the two commits of `apply_scd2()`),
  then `AdvanceCheckpoint`. `Crash` may fall before each of them. `Merge` is the
  statement that `build_merge_sql()` builds, clause by clause, and `ErrorType`
  the `when` chain of `validate()` in SQL's three-valued logic.
  `MCSilverWriter` instantiates it.
* `CurrentState` is the abstract specification of a current-state table: a
  view of a log in which a key's version is a change of that key and only moves
  forward. `SilverWriter` implements it on soft-deleting tables.
* `OrderMachine` is the abstract specification of an order: `ORDER_TRANSITIONS`,
  and orders that are "torn" by an event that stopped half way, of which nothing
  is promised.
* `OrderLifecycle` models `simulator.py` on the tables the seeder filled
  (`SeedOrders`, `SeedInventory`). The connection is in autocommit mode, so every
  statement of an event is an action: `NewOrder`, `InsertItem`, `InsertPayment`,
  `Reserve` are `_create_order()`, `ResolvePayment` and `MarkPaid`
  `event_payment_change()`, and so on; `pc`, `cur` and `left` say where the event
  is. `open` is `open_orders`, which the simulator decides by instead of the
  tables. `Raise` is the exception `run()` catches, `Crash` and `Restart` a
  simulator that is killed and started. `torn` (a history variable) collects the
  orders of events that stopped half way.
* `Analytics` models three queries of `analytics_writer.py`: the windowed metric
  `orders_per_minute` (`wend`, `wdone`, its watermark, its state store, its
  sink), the late-event detector (`stored` is `watermark_state`, `flagged` counts
  the rows of `late_events`), and the alerts. Each has the two logs of a
  checkpoint and one action per commit. `NoDataBatch` is Spark's extra batch
  that evicts windows.
* `GoldBuild` models `make gold-build` (`pc`: the checks, the exit code, the
  builder, the tests) over Silver tables that the Silver queries move on their
  own. The source's changes are one log and a Silver table is a prefix of it
  (`pos`), which `SilverPrefixProofs` and `SilverRefinement` justify for tables
  without deletes. A row of a Gold table is the set of order rows it aggregates.
  `Severity` holds the rules of `severity.py`. The log is written by the part of
  `simulator.py` that reaches orders and shipments. As in `OrderLifecycle`, an
  event decides by memory (`open`, which is `open_orders`) and never by a row of
  an order, and its statements are commits of their own: after the first, `due` is the
  status the event has yet to give (`UpdateOrder`, `EndEvent`). `Raise` and `Restart`
  stop it there; `torn` (a history variable) collects the orders this happens to.
* `BronzeProofs`, `SilverProofs`, `SilverPrefixProofs`, `HistoryProofs`,
  `SilverRefinement`, `AnalyticsProofs`, `OrderProofs` and `GoldProofs` hold the
  proofs: the first one and the last three are about one module each, the others
  about `SilverWriter`.

`ChangeFeed` composes with Bronze by assumption: its files arrive in order but
for whole batches that are appended again (`LandedInOrder`), without gaps
(`LossOnlyByRetention`) and eventually (`EventuallyDelivered`), the first two
proved and the third checked of `BronzeWriter`. A gap that retention tears is not
in `ChangeFeed`.

### Abstractions

* Files are sets of rows without `event_id` and Kafka coordinates. These only
  tell copies of one change apart, and copies agree on all else, so
  `dropDuplicates` and the tie-breaks among copies are the union of sets.
* A change's LSN is its position in the WAL, and commit times follow it. Rows
  of Debezium's first snapshot share one LSN in reality; each key has only one,
  so no two are ever compared.
* All columns outside the key are one value. For customers it stands for the
  tracked attributes; an update may leave it as it is.
* A Kafka message's partition follows from its key, so the changes of a key are
  in one partition: the order of different keys does not matter to the writer.
* Two of the seven queries of a writer meet only in append-only DLQ tables and
  in `Crash`: one query is the whole component.
* `silver.dlq_events` is a set of rows: a retry may append a row twice.
* `OrderLifecycle`: an item is one unit of one product at price one, so quantities
  and amounts are counts. An order has one payment (the seeder's extra FAILED
  attempt is on no path of the code). The events that touch neither orders nor
  stock, `new_customer`, `profile_update` and `price_stock_change`, are single
  statements and left out. The tables keep the schema of `02_schema.sql`.
* `Analytics`: a topic has one partition, so offsets are positions. Times are
  small numbers, since only their order, the window and the delay matter. Topics
  are not expired.
* `GoldBuild`: `PLACED` stands for `PAID` too, as payments are left out. Of a
  shipment, creation and dispatch are one event (`Dispatch`), and it is in the log
  once it is settled: then it has the `delivered_at` that the gate looks for,
  whether it is DELIVERED or RETURNED. Updates of an order that leave status and
  date alone are left out, and so are order numbers and the cap of 5000 on the
  orders a start loads, which `OrderLifecycle` has. Time is counted in days,
  as `date_sub()` does. A late order's `updated_at`, up to 15 minutes back, is
  that of its day. `BuildFulfillment` is one of five tables that are built anew
  from Silver and replaced as a whole; the others differ in the SELECT.

## Runs

Every run switches deadlock checking off: a writer that has read everything
waits for input, and inputs are bounded.

| Run | What it shows |
|---|---|
| `bronze` | Two partitions, three messages that parse, do not parse or have no value, a crash at any step, a failing batch, retention. Only expired messages are lost, each sink holds a message at most once per start of the batch, the offsets of a partition land in order, and everything arrives unless it expires or its batch fails. |
| `silver_soft` | The customers query: two keys, two values, three changes, a Debezium replay and a crash. Silver rows are versions of their key, no committed change is lost, the history is a chain and agrees with Silver, Silver implements `CurrentState`, and once the source is quiet both show what Postgres holds. |
| `silver_hard` | The order_items query: two keys, two changes with deletes, a malformed row of any kind, a replay, a batch appended twice and a crash. Rows are versions of their key, deletes hold as long as Debezium does not replay, the quarantine is complete and holds nothing else, and the table converges even after a replay. |
| `orders` | One seeded order in any status and one created, up to two items, one warehouse, one failing event and one kill. Tables and memory of every order agree except the orders of torn events; the creation of orders is blocked only by a torn creation; statuses follow `OrderMachine`; units of stock do not vanish; orders in memory move on. |
| `analytics` | A snapshot of three orders and two more messages of any operation and time, a restart. What came in time is counted once whatever the batches were; an evicted window is not opened again; a row is flagged only if it is behind an earlier row (or, after a restart, behind a row of its own batch) and is flagged if it is behind an earlier batch; appended rows repeat only with restarts. |
| `gold` | Two orders of a customer, four changes, three days, a look-back of one day, a builder that dies: an incremental run counts every recent order, no order twice, and drops only old ones. |
| `gold_gate` | One order through all of its events, two of which may stop half way, and a builder that dies: the gate's two checks fail only on lag between tables; the test of the cancelled orders fails only on torn orders; what the gate passed still holds when the builder reads; tables that are built anew catch up. |

Five runs end in a violation, each of a sentence in the repository:

| Run | The sentence | What happens |
|---|---|---|
| `bronze_retention` | `docs/cdc.md`: "Every hop guarantees no silent data loss" | With `failOnDataLoss=false`, offsets that expired unread are committed as processed. |
| `bronze_null_value` | `extract_fields()`: malformed messages go "to the DLQ instead of failing the whole micro-batch" | If all bad messages of a batch have a null value, the DLQ frame has a column without a type and the batch fails, at each restart again. |
| `silver_replay` | `build_merge_sql()`: the guard makes "out-of-order replays no-ops" | A replayed insert after a hard delete is NOT MATCHED and inserts the row again. It stays until the replay reaches the delete (`EventuallyConsistent` of `silver_hard`). |
| `scd2_history` | `scd2.py`: the "ordered stream of individual changes", reproduced by "a full backfill" | Changes of one customer in one micro-batch are reduced to the last before the history sees them. |
| `gold_untouched` | `build_daily_sales()`: "replacing stale rows for touched dates while leaving untouched history alone" | An order changes late. Its date's row is replaced by the aggregate of the orders that changed recently, and another order of that date is no longer counted. |

What the passing runs say of the code is not always what its comments say.

* `DropsOnlyOld` has an exception because the code needs it: `build_daily_sales()`
  aggregates only the orders that changed within three days but replaces the
  whole row of each of their dates (`gold_untouched`).
* `OnlyLagFails` says when the gate finds an orphaned order or a delivered one
  without a shipment: when the parent's Silver query is behind the child's. No merge
  has to go wrong, though `referential_integrity.py:1-4` and
  `business_rules.py:1-5` take a violation to mean a "merge bug".
* `QuarantineExact` excepts rows whose operation is NULL. `validate()` "splits the
  micro-batch into (good, bad)" (`silver_transform.py:51`), but for a NULL operation
  the condition `_valid` is NULL, and neither of its filters keeps the row: it
  disappears. `extract_fields()` lets it land, as it only checks that `op` is there.
* `OnlyTornAreCancelledAndDelivered` holds at any lag of the two tables, but
  `gold_tests.py:62`, "A CANCELLED order should never have a DELIVERED shipment", is
  not true of the source itself. If an event stops between the two statements of a
  dispatch and another after the shipment's UPDATE to DELIVERED, the order is PAID in
  memory and can be cancelled; the test then fails with Silver up to date. Of the
  other Gold tests, `payment_total_not_exceeding_order_total` (`gold_tests.py:76`)
  can fail with no lag and no failure, by an item that is deleted while the
  payment is pending: a hazard of the list, which no property covers.
* `FlaggedIsLate` is about `created_at` alone: the detector has no operation
  filter, so the update of an old order is flagged. `analytics_config.py:5-12`
  wants the detector to agree with Spark's watermark; it compares with the
  newest row of earlier batches while Spark compares a window's end with the
  watermark of the batch before, and a row may be counted and flagged.
* `DamageIsConfined` lets a cancelled order keep a PENDING shipment and a SUCCESS
  payment: `event_order_cancellation()` touches neither, though
  `docs/data_model.md:27` has "SUCCESS -> REFUNDED (if order cancelled after
  payment)".
* `OpenOrdersMoveOn` excepts shipments that are IN_TRANSIT or RETURNED: no event
  takes their orders further, in the documented life cycle or not.
* `StockNeverVanishes` allows units to appear: a cancellation puts each unit back
  as available at a warehouse drawn anew, whether it was reserved there or not.

### Bounds

`MaxMessages`, `MaxChanges`, `MaxCrashes`, `MaxFailures`, `MaxReplays`,
`MaxRedeliveries` and `MaxMalformed` cap the inputs, in the guards of the
actions they are named for. The hazards need few of them: a
reordering or lost update takes two changes of a key and one duplicate, a
broken chain three changes and a crash between two commits, a resurrection an
insert, a delete and a replay. Two keys show that a batch treats keys apart,
two partitions that a batch's range is per partition. `MaxFiles = 2` is
below the number of files that the changes, their duplicates and a malformed row
make, so backlogs are split.

`orders` has one order of the seeder in each status and one that is created
while the other is under way; `OpenLimit = 1` makes the loading of open orders
leave one out, two items make the loops of an event stop between rounds, and one
failure and one kill combine. With one product and one warehouse a reservation
still fails for want of stock, and a release still exceeds what is reserved.
`analytics` has two-row batches over five messages, so that a row is late within
its batch, against the batch before, and two batches later; times 2, 4 and 6
with windows of two and a delay of one are on both sides of each bound. Its
snapshot is fixed, the messages after it are not. The two changes of
`silver_hard` are an insert and a delete of one key, or changes of both.

In `gold` four changes are a customer, two orders and an update of one of them, or
a customer, an order, its settled shipment and its update; with three days and a
look-back of one an order is touched, at the edge, or old. The two orders are
symmetric. `MaxStops` caps events and simulators that stop half way: none in
`gold`, whose properties the theorems prove for any number, two in `gold_gate`,
which is what it takes to cancel an order whose shipment is delivered. There six changes are a
customer and an order's whole life to its delivery (placed, SHIPPED, its shipment,
DELIVERED), and one more where an event stopped.

Each property is known to fail under a mutation of the
code it is about (the operators marked as slips).

### Fairness

`WF_vars(Query)`: Spark triggers a started query again and again, the steps of a
batch end, and Docker restarts an exited container (`restart: unless-stopped`).
No step of the query blocks another, so weak fairness of their disjunction is
enough. `SilverWriter` also assumes that Bronze goes on delivering, which
`EventuallyDelivered` shows. Nothing is assumed of the source, of replays,
retention or crashes; crashes are finite in a behaviour, without which no
writer makes progress.

`OrderLifecycle` assumes that an event that started goes on, and strong fairness
for the shipment events and the cancellation of each order: `_build_schedule()`
gives each kind of event a rate above zero, and each draws its order at random,
so an order that is eligible again and again is drawn. Failing events are finitely
many (`MaxFailures`); this is an assumption, since `run()` never reconnects and a
connection that is lost fails every later event. Nothing is assumed of payments,
and nobody has to start a simulator that was killed. `Analytics`
assumes `WF` of each of the three queries, for the reasons above. `GoldBuild`
assumes it of the Silver queries and of the steps of a chain that was started;
that somebody starts one again and again is a premise of `GoldCatchesUp`, as
nothing in the repository schedules it.

## Proofs

Every safety property that a passing run checks, state invariant, action
property or refinement, is also a theorem. The theorems hold for every set of
partitions, keys, values, customers and warehouses, every malformed input, every
size of a batch, an event's loop or a look-back, and any number of messages,
changes, orders, crashes, failing batches or events, replays and duplicates.
They assume only the named assumptions of the modules on their constants, which
TLC evaluates on each run: that null is no key, that bounds are numbers, that a
snapshot is not longer than the topic (`TopicAssumption`), that there is a
warehouse. Two need more, and say so in their statements: `NoUpdateIsLost` a table without
deletes and `SilverImplementsCurrentState` a soft-deleting one.

Where a property is not inductive, the invariant that implies it is named below;
TLC checked each of them on the instance of its run before it was proved.

* `BronzeProofs` proves all the safety properties of `BronzeWriter`. They share
  `BatchInv`: a batch is what its planned range still held when it was read, and
  the unsent rows are bad rows of it. For `NothingLostButByRetention`,
  `WrittenInv` adds what each step finds already written, so that at the
  checkpoint every planned message is in its sinks or expired
  (`PlannedAccounted`). `RepetitionsAreBounded` counts: a message of the planned
  range that the attempt under way has not written yet is in the sink once for
  each attempt that ended, and an attempt adds one. For `PartitionsLandInOrder`,
  `SnapshotInv` says that a snapshot is of committed batches or holds all good
  rows its range can still bring, whatever has expired since.
* `SilverProofs!TypeCorrect` and `RowsAreVersions` prove `[]TypeOK` and
  `[]RowsFromSource`. The latter is not inductive: the rows of a batch's frame
  become Silver rows, so the invariant `SourceInv` also says that each change
  in the WAL sits at its LSN (`WalInv`), that Bronze holds changes and
  malformed rows only (`BronzeInv`), and that a frame holds changes only
  (`FrameInv`). `GoodRow` says that `validate()` accepts no malformed row.
* `SilverPrefixProofs!QuarantineIsExact` proves `[]QuarantineExact`. Between the
  DLQ write and the checkpoint the batch's bad rows are in the table
  (`QuarantineInv`); files appended meanwhile leave the batch as it is
  (`OutsideKeepsBatches`), since it is a range of files fixed by the checkpoint.
* `SilverPrefixProofs!NoUpdateIsLost` proves `[]NoLostUpdate` for tables without
  deletes. The frame of a batch covers each good row by one of its key that is
  as late (`FrameCovers`, from `PickCovers` and the fact that a bounded set of
  naturals has a greatest element), it is one row per key (`FrameUnique`), and
  after the MERGE Silver has reached it (`FrameMerged`); a MERGE lowers no LSN
  (`MergeMonotone`), which is why a retry or a replay takes nothing back.
* `SilverRefinement!SilverImplementsCurrentState` proves that a soft-deleting
  table implements `CurrentState`: `log` is the key of each WAL entry and
  `view` the `_source_lsn` of each row. A commit maps to a `Change`, the MERGE to
  a `CatchUp`, every other step stutters.

* `HistoryProofs` is about the order in which changes are applied.
  `DeletesLast` proves `[]DeletedStaysDeleted`. Its invariant `OrderInv` says that,
  without replays, an older file of Bronze is a copy of a newer one or holds older
  changes (`FilesInv`), so that the last change of a key in a batch is its last
  change in all files planned so far (`TopOfBatch`); and that the Silver row of a
  key, if there is one, is that of its last change in the committed files or in the
  planned ones (`SilverFollows`), a MERGE taking it from either to the latter. A
  hard delete leaves no LSN, which is why the premise "if there is one" is
  needed, and why replays are excluded: `silver_replay` shows what they do.
* `HistoryIsChain` proves `[]HistoryChain`, replays included. `ChainInv` adds to the
  links that a gap is never there between batches, and that the change which
  closed it is the last of its key in the batch that will run again
  (`GapIsClosing`). That batch is fixed by the checkpoint, so the retry, which finds
  no current row and opens one, opens it with the change that closed the row
  before; `Classified` says that the cached classification still describes the
  history when the second commit uses it.
* `HistoryAgreesWithSilver` proves `[]HistoryAgrees`. `HistoryFollows` says for
  the current row of a key what `SilverFollows` says for Silver. The crucial
  case is a key that the classification passes over (`NotOpening`): its values are
  unchanged, or the row has the change already.
* `AnalyticsProofs` proves the safety of the three queries from `AnalyticsInv`, one
  conjunct per query. `WindowedInv`: the state of an open window counts its
  creations so far and the sink is as far or one batch ahead, so a batch that runs
  again writes the same count (`MergedSink`), and a window that is evicted has
  a creation beyond its end that is committed (`ClosedWindow`), so no batch after
  that holds a row that is in time for it. `DetectorInv`: the stored time is that
  of the rows before the checkpoint or of the planned batch as well, and the
  latter only after a restart, which is what a row flagged by its own batch needs.
  `AlertsInv` and its counterpart for flags count what the attempt under way has
  written already, as in `BronzeProofs`.
* `OrderProofs` proves the safety of `OrderLifecycle` from `OrderInv`, which says of
  the order an event is about what the event's statements have done so far
  (`CreationInv`, `ChangeInv`), and of every other order that it is consistent or
  torn (`DamageIsConfined`). `NextIdInv` is why a restarted simulator, which takes
  `max_id() + 1`, meets no order but a torn one (`OnlyTornBlockCreation`).
  `OrdersFollowMachine` maps a step that changes an order's status to a `Move` or
  `Place` of `OrderMachine` and a failure to `Tear`: the status in memory, by which
  the simulator decides, is the one in the table unless the order is torn
  (`OpenIsConsistent`). `StockIsKept` needs the types alone.
* `GoldProofs` proves the safety of `GoldBuild` from `GoldInv`. `LogInv` states what
  the source promises of its log, torn events included: a child comes after its
  parent (`KeysInv`), a delivery after its shipment (`DeliveryInv`), an order keeps its
  date and never becomes PLACED again (`VersionInv`), `updated_at` follows the log
  (`TimeInv`). Silver tables are prefixes that grow, so a foreign key fails only if
  the parent's table is behind (`ChecksFailOnlyOnLag`) and a check that passed goes
  on to hold of the rows it saw (`VerdictOutlivesGate`). `EventInv` is about the event
  under way: memory holds only orders of the log (`KnownInv`), and of an order
  that is not torn it keeps cancellation and dispatch apart: one that is dispatched
  is SHIPPED in memory or about to be, or gone from it, and no change cancels it
  (`MemoryInv`). `CancelledTestFindsTorn` follows. `OrdersCountedOnce` rests on the
  date of an order, which never changes, and on the whole date being replaced (`RebuiltDates`).

Only model-checked: liveness (`EventuallyDelivered`, `EventuallyConsistent`,
`OpenOrdersMoveOn`, `EventuallyCaughtUp`, `GoldCatchesUp`), since the provers
do not handle `ENABLED` under fairness. The five violations are counterexamples on
instances, and need no proof. Induction is used with a set in the place of a
predicate (`AllNumbers`, `NextIdIsFree`, `Greatest`: a nonempty set of naturals
has a least element), as the provers cannot instantiate the library's
induction theorems.

## Plan

Done: the modules above, their runs, and the proofs above. Left, in this order:

1. The step between the modules: that the files `BronzeWriter` appends are files
   `ChangeFeed` allows is argued from `LandedInOrder` and `LossOnlyByRetention`,
   not stated as a refinement of one by the other; in the same way `GoldBuild`
   takes a Silver table as a prefix of the log.
2. `SilverWriter` with deletes and replays: that a resurrected row is at most as
   old as the replay that brought it back (`silver_replay` shows it may come back).
3. The safety halves of the liveness properties: that what is behind always has a
   step enabled that moves it on, stated without `ENABLED`.

## Not modelled

Column lists, casts and DDL (`silver_schemas.py`, `*.sql`) have no state.
Schema evolution (`schema_evolution.py`) is a check and an ALTER by one process
before any of its queries runs, and the migrations are applied by hand; the
simulator on a database whose `carrier` column was renamed fails each INSERT of a
shipment, which is listed as a hazard only. The seeder's own run, and a load that
dies half way, come before the pipeline. Of the gate, the null and range checks
read one column of one table and hold on every row the source's schema admits;
of the Gold tests, the grain checks hold by the GROUP BY of a table or the
primary key of its source, and the payment total by nothing (see the hazards). Random
data, configuration, logging, reports and the ad-hoc scripts have no effect on
the tables. The internals of Postgres, Debezium, Kafka, Spark and Iceberg are
outside `src/`: the models take from them only the delivery guarantees and
atomicity named above.
