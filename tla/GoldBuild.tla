------------------------------ MODULE GoldBuild ------------------------------
(***************************************************************************)
(* `make gold-build`: the data-quality gate (data_quality/runner.py), the  *)
(* Gold builder (batch/pyspark/gold_builder.py) and the Gold tests, one    *)
(* after the other, over Silver tables that independent queries keep       *)
(* writing to.                                                             *)
(*                                                                         *)
(* The source is the traffic simulator as far as it reaches orders and     *)
(* their shipments (OrderLifecycle has it all), with its events that stop  *)
(* half way.  Its changes are one log.  A Silver table shows the last      *)
(* change of each key in a prefix of it, and each table has a prefix of    *)
(* its own (SilverPrefixProofs: what Silver shows is a state the source    *)
(* had).                                                                   *)
(* A Gold aggregate is represented by the set of rows it aggregates.       *)
(***************************************************************************)
EXTENDS Integers, Sequences, FiniteSets, Severity

CONSTANTS
    Orders,
    Customers,
    CustomerOf,   \* [Orders -> Customers], orders.customer_id
    Lookback,     \* days an incremental run of daily_sales looks back
    MaxChanges,   \* bound: changes in the log
    MaxDay,       \* bound: days that pass
    MaxStops,     \* bound: events and simulators that stop half way
    MaxFailures   \* bound: builds that die half way

ASSUME SizeAssumption ==
    /\ Lookback \in Nat /\ MaxChanges \in Nat /\ MaxDay \in Nat
    /\ MaxStops \in Nat /\ MaxFailures \in Nat
ASSUME OrderAssumption ==
    /\ IsFiniteSet(Orders) /\ IsFiniteSet(Customers) /\ CustomerOf \in [Orders -> Customers]

VARIABLES
    today,
    log,        \* the changes committed at the source, in order
    dispatched, \* orders whose row in shipments is SHIPPED, or settled
    open,       \* open_orders: the status each order had last, "none" if absent
    due,        \* the status the event under way has yet to give its order
    torn,       \* orders of events that stopped half way (history)
    stops,      \* events and simulators that stopped half way so far
    pos,        \* table -> length of the prefix of the log its Silver table shows
    daily,      \* gold.daily_sales: date -> the order rows its row aggregates
    fulfil,     \* gold.order_fulfillment_metrics: date -> order rows with shipment
    pc,         \* the step of `make gold-build`
    results,    \* run_suite(): the results of the gate's checks so far
    checked,    \* pos["orders"] when each check of this gate ran (history)
    built,      \* pos["orders"] and the day of the last daily_sales (history)
    failures    \* builds that died so far

simulator == <<dispatched, open, due, torn, stops>>
source == <<today, log, simulator>>
gold == <<daily, fulfil>>
vars == <<source, pos, gold, pc, results, checked, built, failures>>

Tables == {"customers", "orders", "shipments"}

Days == 0 .. MaxDay

\* Two of the gate's checks: orders.customer_id_fk_customers and
\* orders.delivered_orders_have_shipment.
Checks == {"fk", "delivered"}

Steps == Checks \cup {"idle", "verdict", "daily", "fulfil", "test"}

\* PLACED stands for PAID as well.
Statuses == {"PLACED", "SHIPPED", "CANCELLED", "DELIVERED"}

CANCELLABLE_STATUSES == {"PLACED"}

Terminal(s) == s \in {"CANCELLED", "DELIVERED"}

\* A shipment that is settled has a delivered_at, whichever its status.
Outcomes == {"DELIVERED", "RETURNED"}

\* Of the columns of a row: the status, created_at and updated_at.
Change == [table : Tables, key : Orders \cup Customers,
           status : Statuses \cup Outcomes \cup {"current"},
           created : Days, updated : Days]

Init ==
    /\ today = 0
    /\ log = <<>>
    /\ dispatched = {}
    /\ open = [o \in Orders |-> "none"]
    /\ due = [o \in Orders |-> "none"]
    /\ torn = {}
    /\ stops = 0
    /\ pos = [t \in Tables |-> 0]
    /\ daily = [d \in Days |-> {}]
    /\ fulfil = [d \in Days |-> {}]
    /\ pc = "idle"
    /\ results = <<>>
    /\ checked = [c \in Checks |-> 0]
    /\ built = [orders |-> 0, day |-> 0]
    /\ failures = 0

-----------------------------------------------------------------------------
(* Rows of a table as of a prefix of the log.                              *)

ChangesOf(t, n) == {i \in 1 .. n : log[i].table = t}

Rows(t, n) ==
    {log[i] : i \in {j \in ChangesOf(t, n) : \A k \in ChangesOf(t, n) : log[k].key = log[j].key => k <= j}}

Keys(t, n) == {log[i].key : i \in ChangesOf(t, n)}

Current(t, k) == CHOOSE r \in Rows(t, Len(log)) : r.key = k

Silver(t) == Rows(t, pos[t])

-----------------------------------------------------------------------------
(* The simulator.  Each statement is a commit of its own, and the events   *)
(* decide by open_orders alone: an event is its first statement and, if it *)
(* has more to do, what is due.                                            *)

Commit(t, k, s, created) ==
    /\ Len(log) < MaxChanges
    /\ log' = Append(log, [table |-> t, key |-> k, status |-> s, created |-> created, updated |-> today])
    /\ UNCHANGED <<today, pos, gold, pc, results, checked, built, failures>>

Idle == \A o \in Orders : due[o] = "none"

NewCustomer(c) ==
    /\ Idle
    /\ c \notin Keys("customers", Len(log))
    /\ Commit("customers", c, "current", today)
    /\ UNCHANGED simulator

\* The foreign key: the customer is there first.
NewOrder(o) ==
    /\ Idle
    /\ o \notin Keys("orders", Len(log))
    /\ CustomerOf[o] \in Keys("customers", Len(log))
    /\ Commit("orders", o, "PLACED", today)
    /\ due' = [due EXCEPT ![o] = "PLACED"]
    /\ UNCHANGED <<dispatched, open, torn, stops>>

CancelOrder(o) ==
    /\ Idle
    /\ open[o] \in CANCELLABLE_STATUSES
    /\ Commit("orders", o, "CANCELLED", Current("orders", o).created)
    /\ due' = [due EXCEPT ![o] = "CANCELLED"]
    /\ UNCHANGED <<dispatched, open, torn, stops>>

\* The shipment goes to SHIPPED; only what is settled is in the log.
Dispatch(o) ==
    /\ Idle
    /\ open[o] # "none"
    /\ o \notin dispatched
    /\ dispatched' = dispatched \cup {o}
    /\ due' = [due EXCEPT ![o] = "SHIPPED"]
    /\ UNCHANGED <<today, log, open, torn, stops, pos, gold, pc, results, checked, built, failures>>

\* A slip: the order is delivered first, its shipment later.
DeliverFirst(o, outcome) ==
    /\ Idle
    /\ open[o] # "none"
    /\ o \in dispatched /\ o \notin Keys("shipments", Len(log))
    /\ \/ outcome = "DELIVERED" /\ Commit("orders", o, "DELIVERED", Current("orders", o).created)
       \/ Commit("shipments", o, outcome, today)
    /\ UNCHANGED simulator

\* The shipment first, then the order; a RETURNED shipment leaves its order open.
SettleShipment(o, outcome) ==
    /\ Idle
    /\ open[o] # "none"
    /\ o \in dispatched /\ o \notin Keys("shipments", Len(log))
    /\ Commit("shipments", o, outcome, today)
    /\ due' = [due EXCEPT ![o] = IF outcome = "DELIVERED" THEN "DELIVERED" ELSE "none"]
    /\ UNCHANGED <<dispatched, open, torn, stops>>

\* The end of an event, at which open_orders learns its outcome.
Remember(o) ==
    /\ open' = [open EXCEPT ![o] = IF Terminal(due[o]) THEN "none" ELSE due[o]]
    /\ due' = [due EXCEPT ![o] = "none"]
    /\ UNCHANGED <<dispatched, torn, stops>>

\* The UPDATE of a shipment's order has no guard on the order's status.
UpdateOrder(o) ==
    /\ due[o] \in {"SHIPPED", "DELIVERED"}
    /\ Commit("orders", o, due[o], Current("orders", o).created)
    /\ Remember(o)

\* A slip: a cancelled order stays in open_orders.
EndEventKeeping(o) ==
    /\ due[o] \in {"PLACED", "CANCELLED"}
    /\ \/ due[o] = "PLACED" /\ Remember(o)
       \/ due[o] = "CANCELLED" /\ due' = [due EXCEPT ![o] = "none"] /\ UNCHANGED <<dispatched, open, torn, stops>>
    /\ UNCHANGED <<today, log, pos, gold, pc, results, checked, built, failures>>

\* A creation and a cancellation end with statements on other tables.
EndEvent(o) ==
    /\ due[o] \in {"PLACED", "CANCELLED"}
    /\ Remember(o)
    /\ UNCHANGED <<today, log, pos, gold, pc, results, checked, built, failures>>

\* A statement raises: what is due stays undone, and the next event comes.
Raise ==
    /\ ~Idle
    /\ stops < MaxStops
    /\ stops' = stops + 1
    /\ torn' = torn \cup {o \in Orders : due[o] # "none"}
    /\ due' = [o \in Orders |-> "none"]
    /\ UNCHANGED <<today, log, dispatched, open, pos, gold, pc, results, checked, built, failures>>

\* The simulator is killed, between two statements, and loads the open orders.
Restart ==
    /\ stops < MaxStops
    /\ stops' = stops + 1
    /\ torn' = torn \cup {o \in Orders : due[o] # "none"}
    /\ due' = [o \in Orders |-> "none"]
    /\ open' = [o \in Orders |-> IF o \in Keys("orders", Len(log)) /\ ~Terminal(Current("orders", o).status)
                                 THEN Current("orders", o).status ELSE "none"]
    /\ UNCHANGED <<today, log, dispatched, pos, gold, pc, results, checked, built, failures>>

NextDay ==
    /\ today < MaxDay
    /\ today' = today + 1
    /\ UNCHANGED <<log, simulator, pos, gold, pc, results, checked, built, failures>>

\* A slip: the query starts again from any offset.
IngestAny(t) ==
    /\ \E n \in ChangesOf(t, Len(log)) : pos[t] # n /\ pos' = [pos EXCEPT ![t] = n]
    /\ UNCHANGED <<source, gold, pc, results, checked, built, failures>>

\* A batch of the table's own Silver query, up to some message of the table.
Ingest(t) ==
    /\ \E n \in ChangesOf(t, Len(log)) : pos[t] < n /\ pos' = [pos EXCEPT ![t] = n]
    /\ UNCHANGED <<source, gold, pc, results, checked, built, failures>>

-----------------------------------------------------------------------------
(* The gate.                                                               *)

Orphans == {o \in Keys("orders", pos["orders"]) : CustomerOf[o] \notin Keys("customers", pos["customers"])}

Delivered == {r \in Silver("orders") : r.status = "DELIVERED"}

Undelivered == {r \in Delivered : r.key \notin Keys("shipments", pos["shipments"])}

Start ==
    /\ pc = "idle"
    /\ pc' = "fk"
    /\ checked' = [c \in Checks |-> 0]
    /\ UNCHANGED <<source, pos, gold, results, built, failures>>

\* row_count_check(): a check reads its two tables now and reports later.
RunCheck(c, violations, total, next) ==
    /\ pc = c
    /\ results' = Append(results, [severity |-> "CRITICAL", mostly_threshold |-> 0,
                                   element_count |-> Cardinality(total),
                                   violation_count |-> Cardinality(violations)])
    /\ checked' = [checked EXCEPT ![c] = pos["orders"]]
    /\ pc' = next
    /\ UNCHANGED <<source, pos, gold, built, failures>>

CheckForeignKeys == RunCheck("fk", Orphans, Keys("orders", pos["orders"]), "delivered")

CheckDelivered == RunCheck("delivered", Undelivered, Delivered, "verdict")

\* A slip: only the last check's result decides.
BlockingLast == {i \in DOMAIN results : i = Len(results) /\ IsBlocking(results[i])}

Blocking == {i \in DOMAIN results : IsBlocking(results[i])}

\* The exit code of runner.py: make goes on only if nothing blocks.
Verdict ==
    /\ pc = "verdict"
    /\ pc' = IF Blocking = {} THEN "daily" ELSE "idle"
    /\ results' = <<>>
    /\ UNCHANGED <<source, pos, gold, checked, built, failures>>

-----------------------------------------------------------------------------
(* The builder and the tests.                                              *)

\* _table_is_empty(target)
FirstRun == \A d \in Days : daily[d] = {}

\* A slip: the look-back is exclusive.
TouchedAfter ==
    IF FirstRun THEN Silver("orders")
    ELSE {r \in Silver("orders") : r.updated + Lookback > today}

\* A slip: cancelled orders are left out of the source, not of a column.
TouchedUncancelled ==
    IF FirstRun THEN Silver("orders")
    ELSE {r \in Silver("orders") : r.updated + Lookback >= today /\ r.status # "CANCELLED"}

\* The orders that changed within the look-back; all of them on the first run.
Touched ==
    IF FirstRun THEN Silver("orders")
    ELSE {r \in Silver("orders") : r.updated + Lookback >= today}

\* A slip: the touched orders are added to the row of their date.
BuildDailySalesAdding ==
    /\ pc = "daily"
    /\ daily' = [d \in Days |-> daily[d] \cup {r \in Touched : r.created = d}]
    /\ built' = [orders |-> pos["orders"], day |-> today]
    /\ pc' = "fulfil"
    /\ UNCHANGED <<source, pos, fulfil, results, checked, failures>>

\* The row of a date with touched orders is replaced by the aggregate of those
\* orders alone; the other rows stay.
BuildDailySales ==
    /\ pc = "daily"
    /\ daily' = [d \in Days |-> IF \E r \in Touched : r.created = d
                                THEN {r \in Touched : r.created = d} ELSE daily[d]]
    /\ built' = [orders |-> pos["orders"], day |-> today]
    /\ pc' = "fulfil"
    /\ UNCHANGED <<source, pos, fulfil, results, checked, failures>>

\* int_orders_enriched: an order with what is known of its shipment.
Enriched(r, t) == [order |-> r, delivered |-> r.key \in Keys("shipments", t)]

FulfilmentOf(o, t) == [d \in Days |-> {Enriched(r, t) : r \in {s \in Rows("orders", o) : s.created = d}}]

\* A slip: only dates that have no row yet are written.
BuildFulfillmentAppending ==
    /\ pc = "fulfil"
    /\ fulfil' = [d \in Days |-> IF fulfil[d] # {} THEN fulfil[d]
                                 ELSE FulfilmentOf(pos["orders"], pos["shipments"])[d]]
    /\ pc' = "test"
    /\ UNCHANGED <<source, pos, daily, results, checked, built, failures>>

\* One of the five tables that are built anew and replaced as a whole.
BuildFulfillment ==
    /\ pc = "fulfil"
    /\ fulfil' = FulfilmentOf(pos["orders"], pos["shipments"])
    /\ pc' = "test"
    /\ UNCHANGED <<source, pos, daily, results, checked, built, failures>>

\* _cancelled_orders_no_successful_fulfillment reads Silver, not Gold.
CancelledAndDelivered ==
    {r \in Silver("orders") :
        /\ r.status = "CANCELLED"
        /\ \E s \in Silver("shipments") : s.key = r.key /\ s.status = "DELIVERED"}

Test ==
    /\ pc = "test"
    /\ pc' = "idle"
    /\ UNCHANGED <<source, pos, gold, results, checked, built, failures>>

\* The builder dies between two tables.
Fail ==
    /\ pc \in {"daily", "fulfil"}
    /\ failures < MaxFailures
    /\ failures' = failures + 1
    /\ pc' = "idle"
    /\ UNCHANGED <<source, pos, gold, results, checked, built>>

-----------------------------------------------------------------------------

SourceStep ==
    \/ \E c \in Customers : NewCustomer(c)
    \/ \E o \in Orders : NewOrder(o) \/ CancelOrder(o) \/ Dispatch(o) \/ UpdateOrder(o) \/ EndEvent(o)
    \/ \E o \in Orders : \E outcome \in Outcomes : SettleShipment(o, outcome)
    \/ Raise
    \/ Restart
    \/ NextDay

BuildStep ==
    CheckForeignKeys \/ CheckDelivered \/ Verdict \/ BuildDailySales \/ BuildFulfillment \/ Test

Next ==
    \/ SourceStep
    \/ \E t \in Tables : Ingest(t)
    \/ Start
    \/ BuildStep
    \/ Fail

\* The Silver queries run on, and a started chain runs to its end.  Nobody has to
\* start one.
Fairness == (\A t \in Tables : WF_vars(Ingest(t))) /\ WF_vars(BuildStep)

Spec == Init /\ [][Next]_vars /\ Fairness

-----------------------------------------------------------------------------
(* Properties.                                                             *)

TypeOK ==
    /\ today \in Days
    /\ log \in Seq(Change) /\ Len(log) <= MaxChanges
    /\ dispatched \subseteq Orders /\ torn \subseteq Orders
    /\ open \in [Orders -> {"none", "PLACED", "SHIPPED"}]
    /\ due \in [Orders -> Statuses \cup {"none"}]
    /\ stops \in 0 .. MaxStops
    /\ pos \in [Tables -> 0 .. Len(log)]
    /\ \A d \in Days : \A r \in daily[d] : r \in Change /\ r.created = d
    /\ DOMAIN daily = Days /\ DOMAIN fulfil = Days
    /\ pc \in Steps
    /\ results \in Seq(CheckResult) /\ Len(results) <= Cardinality(Checks)
    /\ checked \in [Checks -> 0 .. pos["orders"]]
    /\ built.orders \in 0 .. pos["orders"] /\ built.day \in 0 .. today
    /\ failures \in 0 .. MaxFailures

\* Table t does not show a change yet that is older than one table u shows.
Behind(t, u) == \E i \in ChangesOf(t, pos[u]) : pos[t] < i

\* The gate compares tables that show different moments of the source, and the
\* source's events stop half way.  The foreign key and the delivered orders are
\* nevertheless found wrong only while a change of the parent's table is missing
\* that is older than what the child's table shows.
OnlyLagFails ==
    /\ Orphans # {} => Behind("customers", "orders")
    /\ Undelivered # {} => Behind("shipments", "orders")

\* The test of the cancelled orders fails only on orders an event about which
\* stopped half way: whatever the lag of the two tables, it is no false alarm.
\* Of a torn order "A CANCELLED order should never have a DELIVERED shipment"
\* (gold_tests.py:62) is not true of the source itself.
OnlyTornAreCancelledAndDelivered == \A r \in CancelledAndDelivered : r.key \in torn

\* What the builder and the tests read of the orders that were in Silver when the
\* gate looked is what the gate passed, though Silver has moved on since: no
\* order without its customer, no delivered order without its shipment.
GateHolds ==
    pc \in {"daily", "fulfil", "test"} =>
        /\ \A o \in Keys("orders", checked["fk"]) : CustomerOf[o] \in Keys("customers", pos["customers"])
        /\ \A r \in Rows("orders", checked["delivered"]) :
               r.status = "DELIVERED" => r.key \in Keys("shipments", pos["shipments"])

\* daily_sales counts, in the version Silver showed, every order that had changed
\* within the look-back of the last build.
RecentAreCounted ==
    \A r \in Rows("orders", built.orders) : r.updated + Lookback >= built.day => r \in daily[r.created]

\* No order is counted twice, in an old and a new version or on two dates.
CountedOnce ==
    \A d, e \in Days : \A r \in daily[d], s \in daily[e] : r.key = s.key => d = e /\ r = s

\* An order is dropped from daily_sales only for a newer version of itself, or
\* because it has not changed within the look-back: that one is lost though it
\* is in Silver, when another order of its date was touched.
DropsOnlyOld ==
    [][\A d \in Days : \A r \in daily[d] \ daily'[d] :
           \/ \E s \in daily'[d] : s.key = r.key
           \/ r.updated + Lookback < today]_vars

\* build_daily_sales(): "replacing stale rows for touched dates while leaving
\* untouched history alone".  Only a newer version displaces an order.
UntouchedHistoryStays ==
    [][\A d \in Days : \A r \in daily[d] \ daily'[d] : \E s \in daily'[d] : s.key = r.key]_vars

\* If `make gold-build` is run again and again, the tables built anew come to
\* show the source's orders and shipments, in spite of gates that fail on lag and
\* of builders that die.
GoldCatchesUp == ([]<>(pc # "idle")) => <>[](fulfil = FulfilmentOf(Len(log), Len(log)))
=============================================================================
