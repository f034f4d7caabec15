------------------------------ MODULE Analytics ------------------------------
(***************************************************************************)
(* streaming/pyspark/analytics_writer.py: three of its streaming queries,  *)
(* which run in one process, each with a checkpoint of its own.            *)
(*   - the windowed metric orders_per_minute, over cdc.orders, with        *)
(*     Spark's watermark;                                                  *)
(*   - the late-event detector, over the same topic, with a watermark of   *)
(*     its own in the table analytics.watermark_state;                     *)
(*   - the stock alerts, over cdc.inventory.                               *)
(* A failing query ends the process, and the container is started again.   *)
(*                                                                         *)
(* Times and durations are small numbers; 0 stands for "no time yet".      *)
(***************************************************************************)
EXTENDS Integers, Sequences, FiniteSets

CONSTANTS
    Times,            \* created_at of the orders
    WindowSize,       \* window_duration
    Delay,            \* ORDERS_WATERMARK: watermark and lateness_threshold
    MaxOffsets,       \* MAX_OFFSETS_PER_TRIGGER
    Snapshot,         \* what the topic holds when the queries start first
    MaxMessages,      \* bound: messages in cdc.orders
    Inventory,        \* the messages of cdc.inventory: is the stock low?
    MaxCrashes        \* bound: restarts of the process

Operations == {"r", "c", "u", "d"}

\* A message without an `after` image, a delete or one that does not parse, is
\* one with the operation "d".
Message == [op : Operations, time : Times]

ASSUME TimeAssumption ==
    /\ Times \subseteq Nat \ {0}
    /\ WindowSize \in Nat \ {0} /\ Delay \in Nat
ASSUME SizeAssumption ==
    /\ MaxOffsets \in Nat \ {0} /\ MaxMessages \in Nat /\ MaxCrashes \in Nat
ASSUME TopicAssumption ==
    /\ Snapshot \in Seq(Message) /\ Len(Snapshot) <= MaxMessages
    /\ Inventory \in Seq(BOOLEAN)

VARIABLES
    topic,     \* cdc.orders
    wend,      \* windowed query: last offset of its offset log
    wdone,     \* last offset of its commit log
    wpc,       \* its step
    wm,        \* the watermark of its current or next batch
    lateWm,    \* the watermark of the batch before, by which late rows are dropped
    state,     \* its state store: orders counted per window
    sink,      \* analytics.orders_per_minute: order_count per window
    dend,      \* detector: offset log, commit log, step
    ddone,
    dpc,
    stored,    \* watermark_state.max_event_time, 0 while there is no row
    flagged,   \* offset -> number of its rows in analytics.late_events
    aend,      \* alerts: offset log, commit log, step
    adone,
    apc,
    alerts,    \* offset -> number of its rows in analytics.inventory_alerts
    crashes

windowed == <<wend, wdone, wpc, wm, lateWm, state, sink>>
detector == <<dend, ddone, dpc, stored, flagged>>
alerting == <<aend, adone, apc, alerts>>
vars == <<topic, windowed, detector, alerting, crashes>>

Max2(a, b) == IF a > b THEN a ELSE b

Minus(a, b) == IF a > b THEN a - b ELSE 0

MaxTime(rows) ==
    IF rows = {} THEN 0
    ELSE CHOOSE t \in {topic[i].time : i \in rows} : \A i \in rows : topic[i].time <= t

\* A slip: the plan runs past the topic.
PlanPastEnd(done, length) == done + MaxOffsets

\* The latest plan of a query: the rest of the topic, at most MaxOffsets of it.
PlanEnd(done, length) == IF done + MaxOffsets < length THEN done + MaxOffsets ELSE length

-----------------------------------------------------------------------------
(* Rows and windows.                                                       *)

\* _parse_after(): rows without an `after` image are dropped.
Parsed(first, last) == {i \in first .. last : topic[i].op # "d"}

\* operation_filter: creations and snapshot rows only.
Created(first, last) == {i \in first .. last : topic[i].op \in {"c", "r"}}

Window(t) == t \div WindowSize

Windows == {Window(t) : t \in Times}

End(w) == (w + 1) * WindowSize

\* Slips: late rows are accepted; updates are.
AcceptedLate(w) == {i \in Created(wdone + 1, wend) : Window(topic[i].time) = w}

AcceptedUpdates(w) == {i \in Parsed(wdone + 1, wend) : Window(topic[i].time) = w /\ End(w) > lateWm}

\* Spark drops the rows of a window that ended before the previous batch's
\* watermark.
Accepted(w) == {i \in Created(wdone + 1, wend) : Window(topic[i].time) = w /\ End(w) > lateWm}

Init ==
    /\ topic = Snapshot
    /\ wend = 0 /\ wdone = 0 /\ wpc = "idle" /\ wm = 0 /\ lateWm = 0
    /\ state = [w \in Windows |-> 0]
    /\ sink = [w \in Windows |-> 0]
    /\ dend = 0 /\ ddone = 0 /\ dpc = "idle" /\ stored = 0
    /\ flagged = [i \in 1 .. MaxMessages |-> 0]
    /\ aend = 0 /\ adone = 0 /\ apc = "idle"
    /\ alerts = [i \in DOMAIN Inventory |-> 0]
    /\ crashes = 0

\* Debezium delivers a change of an order, after the snapshot.  created_at never
\* changes, so the update of an old order has an old time; event_late_order makes
\* old creations.
Produce(m) ==
    /\ Len(topic) < MaxMessages
    /\ m.op # "r"
    /\ topic' = Append(topic, m)
    /\ UNCHANGED <<windowed, detector, alerting, crashes>>

-----------------------------------------------------------------------------
(* run_windowed_query()                                                    *)

PlanWindowed ==
    /\ wpc = "idle"
    /\ wdone < Len(topic)
    /\ wend' = PlanEnd(wdone, Len(topic))
    /\ wpc' = "merge"
    /\ UNCHANGED <<topic, wdone, wm, lateWm, state, sink, detector, alerting, crashes>>

\* outputMode("update"): the windows the batch touched.
Updated == {w \in Windows : Accepted(w) # {}}

\* build_windowed_merge_sql(): the row of an updated window is replaced by the
\* count its state has then, or inserted.
Merged(rows) == [w \in Windows |-> IF w \in Updated THEN rows[w] ELSE sink[w]]

\* A batch that updates no window merges nothing.
Merge ==
    /\ wpc = "merge"
    /\ sink' = Merged([w \in Windows |-> state[w] + Cardinality(Accepted(w))])
    /\ wpc' = "commit"
    /\ UNCHANGED <<topic, wend, wdone, wm, lateWm, state, detector, alerting, crashes>>

\* The state store and the commit log: windows that ended before the watermark
\* are evicted, and the watermark moves up to the times of the given rows.
CommitUpTo(rows) ==
    /\ wpc = "commit"
    /\ state' = [w \in Windows |-> IF End(w) <= wm THEN 0 ELSE state[w] + Cardinality(Accepted(w))]
    /\ wdone' = wend
    /\ lateWm' = wm
    /\ wm' = Max2(wm, Minus(MaxTime(rows), Delay))
    /\ wpc' = "idle"
    /\ UNCHANGED <<topic, wend, sink, detector, alerting, crashes>>

\* A slip: the watermark is taken before the operations are filtered.
CommitUnfiltered == CommitUpTo(Parsed(wdone + 1, wend))

CommitWindowed == CommitUpTo(Created(wdone + 1, wend))

\* Spark runs a batch without data when the watermark moved and nothing is new.
NoDataBatch ==
    /\ wpc = "idle"
    /\ wdone = Len(topic)
    /\ lateWm < wm
    /\ state' = [w \in Windows |-> IF End(w) <= wm THEN 0 ELSE state[w]]
    /\ lateWm' = wm
    /\ UNCHANGED <<topic, wend, wdone, wpc, wm, sink, detector, alerting, crashes>>

-----------------------------------------------------------------------------
(* run_late_event_query()                                                  *)

Batch == Parsed(ddone + 1, dend)

\* A slip: the query waits for a full batch.
PlanFullBatch ==
    /\ dpc = "idle"
    /\ ddone + MaxOffsets <= Len(topic)
    /\ dend' = ddone + MaxOffsets
    /\ dpc' = "flag"
    /\ UNCHANGED <<topic, windowed, ddone, stored, flagged, alerting, crashes>>

PlanDetector ==
    /\ dpc = "idle"
    /\ ddone < Len(topic)
    /\ dend' = PlanEnd(ddone, Len(topic))
    /\ dpc' = "flag"
    /\ UNCHANGED <<topic, windowed, ddone, stored, flagged, alerting, crashes>>

\* The rows behind the given time by more than the threshold, whatever their
\* operation, are appended.
FlagBehind(time, threshold) ==
    /\ dpc = "flag"
    /\ flagged' = [i \in DOMAIN flagged |->
                     IF i \in Batch /\ topic[i].time + threshold < time
                     THEN flagged[i] + 1 ELSE flagged[i]]
    /\ dpc' = IF Batch = {} THEN "commit" ELSE "raise"
    /\ UNCHANGED <<topic, windowed, dend, ddone, stored, alerting, crashes>>

\* Slips: the batch is compared with its own maximum; an off-by-one.
FlagAgainstBatch == FlagBehind(Max2(stored, MaxTime(Batch)), Delay)

FlagOffByOne == FlagBehind(stored, Delay + 1)

\* The stored time is read before the batch raises it; without one, 0, no row
\* is late.
Flag == FlagBehind(stored, Delay)

\* The MERGE into watermark_state, a commit of its own.
RaiseTo(time) ==
    /\ dpc = "raise"
    /\ stored' = time
    /\ dpc' = "commit"
    /\ UNCHANGED <<topic, windowed, dend, ddone, flagged, alerting, crashes>>

\* A slip: no GREATEST.
RaiseToBatch == RaiseTo(MaxTime(Batch))

Raise == RaiseTo(Max2(stored, MaxTime(Batch)))

CommitDetector ==
    /\ dpc = "commit"
    /\ ddone' = dend
    /\ dpc' = "idle"
    /\ UNCHANGED <<topic, windowed, dend, stored, flagged, alerting, crashes>>

-----------------------------------------------------------------------------
(* run_alert_query()                                                       *)

PlanAlerts ==
    /\ apc = "idle"
    /\ adone < Len(Inventory)
    /\ aend' = PlanEnd(adone, Len(Inventory))
    /\ apc' = "append"
    /\ UNCHANGED <<topic, windowed, detector, adone, alerts, crashes>>

AppendAlerts ==
    /\ apc = "append"
    /\ alerts' = [i \in DOMAIN Inventory |->
                    IF i \in adone + 1 .. aend /\ Inventory[i] THEN alerts[i] + 1 ELSE alerts[i]]
    /\ apc' = "commit"
    /\ UNCHANGED <<topic, windowed, detector, aend, adone, crashes>>

\* A slip: the offsets are not committed.
CommitNothing ==
    /\ apc = "commit"
    /\ apc' = "idle"
    /\ UNCHANGED <<topic, windowed, detector, aend, adone, alerts, crashes>>

CommitAlerts ==
    /\ apc = "commit"
    /\ adone' = aend
    /\ apc' = "idle"
    /\ UNCHANGED <<topic, windowed, detector, aend, alerts, crashes>>

-----------------------------------------------------------------------------
(* main()                                                                  *)

\* awaitAnyTermination(): the process ends with any of its queries and starts
\* again with all of them.  A batch that is planned and not committed runs again.
Crash ==
    /\ crashes < MaxCrashes
    /\ crashes' = crashes + 1
    /\ wpc' = IF wdone < wend THEN "merge" ELSE "idle"
    /\ dpc' = IF ddone < dend THEN "flag" ELSE "idle"
    /\ apc' = IF adone < aend THEN "append" ELSE "idle"
    /\ UNCHANGED <<topic, wend, wdone, wm, lateWm, state, sink, dend, ddone, stored, flagged,
                   aend, adone, alerts>>

WindowedStep == PlanWindowed \/ Merge \/ CommitWindowed \/ NoDataBatch

DetectorStep == PlanDetector \/ Flag \/ Raise \/ CommitDetector

AlertStep == PlanAlerts \/ AppendAlerts \/ CommitAlerts

Next ==
    \/ \E m \in Message : Produce(m)
    \/ WindowedStep
    \/ DetectorStep
    \/ AlertStep
    \/ Crash

\* Each query has a trigger of its own and runs on.
Fairness == WF_vars(WindowedStep) /\ WF_vars(DetectorStep) /\ WF_vars(AlertStep)

Spec == Init /\ [][Next]_vars /\ Fairness

-----------------------------------------------------------------------------
(* Properties.                                                             *)

TypeOK ==
    /\ topic \in Seq(Message) /\ Len(topic) <= MaxMessages
    /\ wdone \in 0 .. wend /\ wend \in 0 .. Len(topic)
    /\ ddone \in 0 .. dend /\ dend \in 0 .. Len(topic)
    /\ adone \in 0 .. aend /\ aend \in 0 .. Len(Inventory)
    /\ wpc \in {"idle", "merge", "commit"}
    /\ dpc \in {"idle", "flag", "raise", "commit"}
    /\ apc \in {"idle", "append", "commit"}
    /\ lateWm \in 0 .. wm /\ wm \in Nat
    /\ state \in [Windows -> Nat] /\ sink \in [Windows -> Nat]
    /\ stored \in Times \cup {0}
    /\ flagged \in [1 .. MaxMessages -> Nat]
    /\ alerts \in [DOMAIN Inventory -> Nat]
    /\ crashes \in 0 .. MaxCrashes

CreatedIn(w, last) == {i \in Created(1, last) : Window(topic[i].time) = w}

\* A creation is in time for its window when nothing created before it in the
\* topic is later than the window's end by the delay or more.
InTime(w, last) ==
    {i \in CreatedIn(w, last) : \A j \in Created(1, i - 1) : topic[j].time < End(w) + Delay}

\* Every creation that came in time is counted, however the topic was cut into
\* batches and however often they ran.
OnTimeIsCounted == \A w \in Windows : sink[w] >= Cardinality(InTime(w, wdone))

\* No creation is counted twice, and updates are never counted.
NothingCountedTwice == \A w \in Windows : sink[w] <= Cardinality(CreatedIn(w, wend))

\* A window that was evicted is not opened again by a late row, whose count
\* would replace the real one in the sink.
CountsNeverShrink == [][\A w \in Windows : sink'[w] >= sink[w]]_vars

Behind(i, last) == \E j \in Parsed(1, last) : topic[i].time + Delay < topic[j].time

\* The stored time is that of the rows committed, or of those planned when a
\* crash came between the MERGE and the checkpoint.
StoredIsMax ==
    /\ stored \in {MaxTime(Parsed(1, ddone)), MaxTime(Parsed(1, dend))}
    /\ dpc = "idle" => stored = MaxTime(Parsed(1, ddone))

\* A row is flagged only if it is behind an earlier row by more than the
\* threshold; a batch that ran again is compared with its own rows as well.
FlaggedIsLate ==
    \A i \in 1 .. Len(topic) :
        flagged[i] > 0 => i <= dend /\ (Behind(i, i - 1) \/ (crashes > 0 /\ Behind(i, dend)))

\* A row that is behind another one of an earlier batch, as all are that a batch
\* or more lies between, is flagged.
LateIsFlagged ==
    \A i \in Parsed(1, ddone) : Behind(i, i - MaxOffsets) => flagged[i] > 0

\* The appended tables are at least once: no low stock is without its alert, and
\* a row is repeated at most once for each restart.
AppendsRepeatOnlyOnRestart ==
    /\ \A i \in DOMAIN Inventory : alerts[i] <= 1 + crashes
    /\ \A i \in 1 .. adone : Inventory[i] => alerts[i] > 0
    /\ \A i \in 1 .. MaxMessages : flagged[i] <= 1 + crashes

\* Every query works its topic off.
EventuallyCaughtUp == <>[](wdone = Len(topic) /\ ddone = Len(topic) /\ adone = Len(Inventory))
=============================================================================
