--------------------------- MODULE OrderLifecycle ---------------------------
(***************************************************************************)
(* The traffic simulator, generator/streaming/simulator.py, on a database  *)
(* the seeder filled.  The connection is in autocommit mode: every         *)
(* statement of an event is a commit of its own (one action here), and an  *)
(* event that raises, or a simulator that is killed, leaves the statements *)
(* it had done.  The simulator picks orders from open_orders, its own      *)
(* memory of the orders that are not terminal, not from the database.      *)
(*                                                                         *)
(* Items are one unit of one product at price one; events that touch no    *)
(* order and no stock (customers, prices) are left out.                    *)
(***************************************************************************)
EXTENDS Integers, FiniteSets

CONSTANTS
    MaxOrderId,   \* bound: the orders are 1 .. MaxOrderId
    Seeded,       \* the seeder made the orders 1 .. Seeded
    Warehouses,
    MaxItems,     \* an order is created with 1 .. MaxItems items
    OpenLimit,    \* the LIMIT on the orders loaded at start-up
    MaxStock,     \* bound: no restock once this many units are available
    MaxFailures,  \* bound: events that raise half way
    MaxCrashes    \* bound: times the simulator is killed

ASSUME SizeAssumption ==
    /\ MaxOrderId \in Nat /\ Seeded \in 0 .. MaxOrderId
    /\ MaxItems \in Nat \ {0} /\ OpenLimit \in Nat \ {0}
    /\ MaxStock \in Nat /\ MaxFailures \in Nat /\ MaxCrashes \in Nat
ASSUME WarehouseAssumption == IsFiniteSet(Warehouses) /\ Warehouses # {}

VARIABLES
    status,     \* orders.order_status, "none" before the row exists
    items,      \* number of the order's rows in order_items
    total,      \* orders.total_amount
    payment,    \* payments.payment_status
    amount,     \* payments.amount
    shipment,   \* shipments.shipment_status
    available,  \* [Warehouses -> Nat], inventory.available_quantity
    reserved,   \* [Warehouses -> Nat], inventory.reserved_quantity
    open,       \* open_orders: the status each order had last, "none" if absent
    nextOrder,  \* next_order_id
    pc,         \* the next statement of the event under way
    cur,        \* the order of that event, 0 between events
    left,       \* rounds left of the event's loop
    torn,       \* orders of events that stopped half way
    failures,
    crashes

ordersTable == <<status, total>>
stock == <<available, reserved>>
memory == <<open, nextOrder>>
event == <<pc, cur, left>>
faults == <<torn, failures, crashes>>
vars == <<ordersTable, items, payment, amount, shipment, stock, memory, event, faults>>

Orders == 1 .. MaxOrderId

Machine == INSTANCE OrderMachine WITH status <- [o \in Orders |-> IF o \in torn THEN "torn" ELSE status[o]]

Statuses == {"PLACED", "PAID", "SHIPPED", "DELIVERED", "CANCELLED"}

PaymentStatuses == {"PENDING", "SUCCESS", "FAILED", "REFUNDED"}

ShipmentStatuses == {"PENDING", "SHIPPED", "IN_TRANSIT", "DELIVERED", "RETURNED"}

CANCELLABLE_STATUSES == {"PLACED", "PAID"}

\* The statements after the first of each event, and between events.
Steps == {"idle", "items", "payment", "reserve", "paid", "shipped", "delivered",
          "release", "retotal", "down"}

Minus(a, b) == IF a > b THEN a - b ELSE 0

-----------------------------------------------------------------------------
(* What the seeder writes, and what the simulator loads.                   *)

payment_status_for_order(s) ==
    CASE s \in {"PAID", "SHIPPED", "DELIVERED"} -> {"SUCCESS"}
      [] s = "CANCELLED" -> {"REFUNDED", "FAILED"}
      [] s = "PLACED" -> {"PENDING", "FAILED"}

\* "none" for the orders that are not eligible for a shipment.
shipment_status_for_order(s) ==
    CASE s = "SHIPPED" -> {"SHIPPED", "IN_TRANSIT"}
      [] s = "DELIVERED" -> {"DELIVERED", "RETURNED"}
      [] s = "PAID" -> {"PENDING"}
      [] OTHER -> {"none"}

Terminal(s) == s \in {"DELIVERED", "CANCELLED"}

OpenRows(st) == {o \in Orders : st[o] # "none" /\ ~Terminal(st[o])}

\* _load_initial_state(): a random sample of the open orders.
Samples(st) ==
    {S \in SUBSET OpenRows(st) :
        Cardinality(S) = IF Cardinality(OpenRows(st)) > OpenLimit
                         THEN OpenLimit ELSE Cardinality(OpenRows(st))}

Remembered(st, S) == [o \in Orders |-> IF o \in S THEN st[o] ELSE "none"]

\* max_id() + 1, the least id above every order's.
NextId(st) ==
    CHOOSE n \in 1 .. MaxOrderId + 1 :
        /\ \A o \in Orders : o >= n => st[o] = "none"
        /\ \A m \in 1 .. n - 1 : \E o \in m .. n - 1 : st[o] # "none"

\* generate_order_items(): the items make up the total, which is what is paid.
SeedItems ==
    /\ \E n \in [1 .. Seeded -> 1 .. MaxItems] :
           items = [o \in Orders |-> IF o <= Seeded THEN n[o] ELSE 0]
    /\ total = items
    /\ amount = items

\* load_orders_and_dependents(): a status drawn for each order, and the payment
\* and the shipment that go with it.
SeedOrders ==
    /\ \E seed \in [1 .. Seeded -> Statuses] :
           status = [o \in Orders |-> IF o <= Seeded THEN seed[o] ELSE "none"]
    /\ SeedItems
    /\ payment \in [Orders -> PaymentStatuses \cup {"none"}]
    /\ shipment \in [Orders -> ShipmentStatuses \cup {"none"}]
    /\ \A o \in Orders :
           IF o <= Seeded
           THEN /\ payment[o] \in payment_status_for_order(status[o])
                /\ shipment[o] \in shipment_status_for_order(status[o])
           ELSE payment[o] = "none" /\ shipment[o] = "none"

\* load_inventory()
SeedInventory ==
    /\ available \in [Warehouses -> 0 .. MaxStock]
    /\ reserved \in [Warehouses -> 0 .. MaxStock]
    /\ \A w \in Warehouses : reserved[w] <= available[w]

Init ==
    /\ SeedOrders
    /\ SeedInventory
    /\ \E S \in Samples(status) : open = Remembered(status, S)
    /\ nextOrder = NextId(status)
    /\ pc = "idle" /\ cur = 0 /\ left = 0
    /\ torn = {} /\ failures = 0 /\ crashes = 0

-----------------------------------------------------------------------------
(* _create_order(), for event_new_order and event_late_order.              *)

\* The INSERT raises when next_order_id is taken: nothing happens then.
NewOrder(n) ==
    /\ pc = "idle"
    /\ nextOrder \in Orders
    /\ status[nextOrder] = "none"
    /\ status' = [status EXCEPT ![nextOrder] = "PLACED"]
    /\ total' = [total EXCEPT ![nextOrder] = n]
    /\ pc' = "items" /\ cur' = nextOrder /\ left' = n
    /\ UNCHANGED <<items, payment, amount, shipment, stock, memory, faults>>

InsertItem ==
    /\ pc = "items"
    /\ items' = [items EXCEPT ![cur] = @ + 1]
    /\ pc' = IF left = 1 THEN "payment" ELSE "items"
    /\ left' = left - 1
    /\ UNCHANGED <<ordersTable, payment, amount, shipment, stock, memory, cur, faults>>

InsertPayment ==
    /\ pc = "payment"
    /\ payment' = [payment EXCEPT ![cur] = "PENDING"]
    /\ amount' = [amount EXCEPT ![cur] = total[cur]]
    /\ pc' = "reserve" /\ left' = items[cur]
    /\ UNCHANGED <<ordersTable, items, shipment, stock, memory, cur, faults>>

\* The loop over the items goes on; after the last the order enters the memory.
NextItem ==
    /\ left' = left - 1
    /\ IF left = 1
       THEN /\ open' = [open EXCEPT ![cur] = "PLACED"]
            /\ nextOrder' = nextOrder + 1
            /\ pc' = "idle" /\ cur' = 0
       ELSE UNCHANGED <<memory, pc, cur>>

\* A slip: the reserved units are taken and written nowhere.
ReserveForgets(w) ==
    /\ pc = "reserve"
    /\ available' = [available EXCEPT ![w] = Minus(@, 1)]
    /\ NextItem
    /\ UNCHANGED <<ordersTable, items, payment, amount, shipment, reserved, faults>>

\* A warehouse drawn at random that has not the stock reserves nothing, and no
\* other is tried.
Reserve(w) ==
    /\ pc = "reserve"
    /\ IF available[w] >= 1
       THEN /\ available' = [available EXCEPT ![w] = @ - 1]
            /\ reserved' = [reserved EXCEPT ![w] = @ + 1]
       ELSE UNCHANGED stock
    /\ NextItem
    /\ UNCHANGED <<ordersTable, items, payment, amount, shipment, faults>>

-----------------------------------------------------------------------------
(* event_payment_change()                                                  *)

\* A FAILED payment ends the event; nothing ever tries it again.
ResolvePayment(o, outcome) ==
    /\ pc = "idle"
    /\ open[o] = "PLACED"
    /\ payment[o] = "PENDING"
    /\ payment' = [payment EXCEPT ![o] = outcome]
    /\ IF outcome = "SUCCESS" THEN pc' = "paid" /\ cur' = o ELSE UNCHANGED <<pc, cur>>
    /\ UNCHANGED <<ordersTable, items, amount, shipment, stock, memory, left, faults>>

\* The UPDATE has the guard order_status = 'PLACED', the memory has none.
MarkPaid ==
    /\ pc = "paid"
    /\ status' = [status EXCEPT ![cur] = IF @ = "PLACED" THEN "PAID" ELSE @]
    /\ open' = [open EXCEPT ![cur] = "PAID"]
    /\ pc' = "idle" /\ cur' = 0
    /\ UNCHANGED <<total, items, payment, amount, shipment, stock, nextOrder, left, faults>>

-----------------------------------------------------------------------------
(* event_shipment_change()                                                 *)

CreateShipment(o) ==
    /\ pc = "idle"
    /\ open[o] \in {"PAID", "SHIPPED"}
    /\ shipment[o] = "none"
    /\ shipment' = [shipment EXCEPT ![o] = "PENDING"]
    /\ UNCHANGED <<ordersTable, items, payment, amount, stock, memory, event, faults>>

\* A slip: open_orders is not consulted, every pending shipment may go.
DispatchAny(o) ==
    /\ pc = "idle"
    /\ shipment[o] = "PENDING"
    /\ shipment' = [shipment EXCEPT ![o] = "SHIPPED"]
    /\ pc' = "shipped" /\ cur' = o
    /\ UNCHANGED <<ordersTable, items, payment, amount, stock, memory, left, faults>>

Dispatch(o) ==
    /\ pc = "idle"
    /\ open[o] \in {"PAID", "SHIPPED"}
    /\ shipment[o] = "PENDING"
    /\ shipment' = [shipment EXCEPT ![o] = "SHIPPED"]
    /\ pc' = "shipped" /\ cur' = o
    /\ UNCHANGED <<ordersTable, items, payment, amount, stock, memory, left, faults>>

\* No guard on the order's status, here and below.
MarkShipped ==
    /\ pc = "shipped"
    /\ status' = [status EXCEPT ![cur] = "SHIPPED"]
    /\ open' = [open EXCEPT ![cur] = "SHIPPED"]
    /\ pc' = "idle" /\ cur' = 0
    /\ UNCHANGED <<total, items, payment, amount, shipment, stock, nextOrder, left, faults>>

\* A RETURNED shipment leaves its order SHIPPED and open for ever; one the
\* seeder left IN_TRANSIT is never settled.
Settle(o, outcome) ==
    /\ pc = "idle"
    /\ open[o] \in {"PAID", "SHIPPED"}
    /\ shipment[o] = "SHIPPED"
    /\ shipment' = [shipment EXCEPT ![o] = outcome]
    /\ IF outcome = "DELIVERED" THEN pc' = "delivered" /\ cur' = o ELSE UNCHANGED <<pc, cur>>
    /\ UNCHANGED <<ordersTable, items, payment, amount, stock, memory, left, faults>>

MarkDelivered ==
    /\ pc = "delivered"
    /\ status' = [status EXCEPT ![cur] = "DELIVERED"]
    /\ open' = [open EXCEPT ![cur] = "none"]
    /\ pc' = "idle" /\ cur' = 0
    /\ UNCHANGED <<total, items, payment, amount, shipment, stock, nextOrder, left, faults>>

-----------------------------------------------------------------------------
(* event_order_cancellation(), event_delete_order_item(),                  *)
(* event_inventory_restock()                                               *)

\* The payment and a pending shipment stay as they are.  An order without items
\* leaves the memory at once.
CancelIn(statuses, o) ==
    /\ pc = "idle"
    /\ open[o] \in statuses
    /\ status' = [status EXCEPT ![o] = "CANCELLED"]
    /\ IF items[o] = 0
       THEN open' = [open EXCEPT ![o] = "none"] /\ UNCHANGED event
       ELSE pc' = "release" /\ cur' = o /\ left' = items[o] /\ UNCHANGED open
    /\ UNCHANGED <<total, items, payment, amount, shipment, stock, nextOrder, faults>>

\* Slips: orders that were shipped are cancelled too; only orders that were paid.
CancelShipped(o) == CancelIn({"PLACED", "PAID", "SHIPPED"}, o)

CancelPaidOnly(o) == CancelIn({"PAID"}, o)

Cancel(o) == CancelIn(CANCELLABLE_STATUSES, o)

\* Each unit goes back to a warehouse drawn anew, whether it was reserved there,
\* elsewhere or nowhere.
ReleaseAt(w, rest) ==
    /\ pc = "release"
    /\ available' = [available EXCEPT ![w] = @ + 1]
    /\ reserved' = [reserved EXCEPT ![w] = rest]
    /\ left' = left - 1
    /\ IF left = 1
       THEN open' = [open EXCEPT ![cur] = "none"] /\ pc' = "idle" /\ cur' = 0
       ELSE UNCHANGED <<open, pc, cur>>
    /\ UNCHANGED <<ordersTable, items, payment, amount, shipment, nextOrder, faults>>

\* A slip: the subtraction is not clamped by GREATEST.
ReleaseUnclamped(w) == ReleaseAt(w, reserved[w] - 1)

Release(w) == ReleaseAt(w, Minus(reserved[w], 1))

\* The unit stays reserved and the payment keeps its amount.
DeleteItem(o) ==
    /\ pc = "idle"
    /\ open[o] = "PLACED"
    /\ items[o] > 1
    /\ items' = [items EXCEPT ![o] = @ - 1]
    /\ pc' = "retotal" /\ cur' = o
    /\ UNCHANGED <<ordersTable, payment, amount, shipment, stock, memory, left, faults>>

ReduceTotal ==
    /\ pc = "retotal"
    /\ total' = [total EXCEPT ![cur] = Minus(@, 1)]
    /\ pc' = "idle" /\ cur' = 0
    /\ UNCHANGED <<status, items, payment, amount, shipment, stock, memory, left, faults>>

Restock(w) ==
    /\ pc = "idle"
    /\ available[w] < MaxStock
    /\ available' = [available EXCEPT ![w] = @ + 1]
    /\ UNCHANGED <<ordersTable, items, payment, amount, shipment, reserved, memory, event, faults>>

-----------------------------------------------------------------------------
(* run(): a statement may raise, the simulator may be killed.              *)

\* The loop catches the exception and goes on with the next event: what the
\* memory was to learn at the end of this one, it never learns.
Raise ==
    /\ pc \notin {"idle", "down"}
    /\ failures < MaxFailures
    /\ failures' = failures + 1
    /\ torn' = torn \cup {cur}
    /\ pc' = "idle" /\ cur' = 0 /\ left' = 0
    /\ UNCHANGED <<ordersTable, items, payment, amount, shipment, stock, memory, crashes>>

Crash ==
    /\ pc # "down"
    /\ crashes < MaxCrashes
    /\ crashes' = crashes + 1
    /\ torn' = torn \cup ({cur} \ {0})
    /\ pc' = "down" /\ cur' = 0 /\ left' = 0
    /\ open' = [o \in Orders |-> "none"]
    /\ UNCHANGED <<ordersTable, items, payment, amount, shipment, stock, nextOrder, failures>>

\* A slip: the id is taken from the open orders, not from all of them.
RestartFromOpen ==
    /\ pc = "down"
    /\ \E S \in Samples(status) : open' = Remembered(status, S)
    /\ nextOrder' = Cardinality(OpenRows(status)) + 1
    /\ pc' = "idle"
    /\ UNCHANGED <<ordersTable, items, payment, amount, shipment, stock, cur, left, faults>>

Restart ==
    /\ pc = "down"
    /\ \E S \in Samples(status) : open' = Remembered(status, S)
    /\ nextOrder' = NextId(status)
    /\ pc' = "idle"
    /\ UNCHANGED <<ordersTable, items, payment, amount, shipment, stock, cur, left, faults>>

Statement ==
    \/ InsertItem \/ InsertPayment \/ MarkPaid \/ MarkShipped \/ MarkDelivered \/ ReduceTotal
    \/ \E w \in Warehouses : Reserve(w) \/ Release(w)

PaymentChange(o) == \E outcome \in {"SUCCESS", "FAILED"} : ResolvePayment(o, outcome)

ShipmentChange(o) ==
    \/ CreateShipment(o)
    \/ Dispatch(o)
    \/ \E outcome \in {"DELIVERED", "RETURNED"} : Settle(o, outcome)

Next ==
    \/ \E n \in 1 .. MaxItems : NewOrder(n)
    \/ \E o \in Orders : PaymentChange(o) \/ ShipmentChange(o) \/ Cancel(o) \/ DeleteItem(o)
    \/ \E w \in Warehouses : Restock(w)
    \/ Statement
    \/ Raise
    \/ Crash
    \/ Restart

\* An event that started goes on.  Each kind of event is due again and again
\* and draws its order at random, so an order that keeps being eligible is drawn
\* at some time.  Nobody has to start the simulator again.
Fairness ==
    /\ WF_vars(Statement)
    /\ \A o \in Orders : SF_vars(ShipmentChange(o)) /\ SF_vars(Cancel(o))

Spec == Init /\ [][Next]_vars /\ Fairness

-----------------------------------------------------------------------------
(* Properties.                                                             *)

TypeOK ==
    /\ status \in [Orders -> Statuses \cup {"none"}]
    /\ items \in [Orders -> Nat]
    /\ total \in [Orders -> Nat]
    /\ payment \in [Orders -> PaymentStatuses \cup {"none"}]
    /\ amount \in [Orders -> Nat]
    /\ shipment \in [Orders -> ShipmentStatuses \cup {"none"}]
    /\ available \in [Warehouses -> Nat]
    /\ reserved \in [Warehouses -> Nat]
    /\ open \in [Orders -> Statuses \cup {"none"}]
    /\ nextOrder \in 1 .. MaxOrderId + 1
    /\ pc \in Steps
    /\ cur \in Orders \cup {0}
    /\ left \in Nat
    /\ torn \subseteq Orders
    /\ failures \in 0 .. MaxFailures
    /\ crashes \in 0 .. MaxCrashes

\* What the tables of an order that is not being changed say together: the items
\* add up to the total, the payment covers it, and the three statuses agree.  A
\* cancelled order may keep a pending shipment and a payment that was made.
PaymentAgrees(o) ==
    /\ amount[o] >= total[o]
    /\ status[o] = "PLACED" => payment[o] \in {"PENDING", "FAILED"}
    /\ status[o] \in {"PAID", "SHIPPED", "DELIVERED"} => payment[o] = "SUCCESS"
    /\ payment[o] # "none"

ShipmentAgrees(o) ==
    /\ status[o] = "PLACED" => shipment[o] = "none"
    /\ status[o] \in {"PAID", "CANCELLED"} => shipment[o] \in {"none", "PENDING"}
    /\ status[o] = "SHIPPED" => shipment[o] \in {"SHIPPED", "IN_TRANSIT", "RETURNED"}
    /\ status[o] = "DELIVERED" => shipment[o] \in {"DELIVERED", "RETURNED"}

MemoryAgrees(o) == open[o] # "none" => open[o] = status[o] /\ ~Terminal(status[o])

Consistent(o) ==
    /\ items[o] >= 1 /\ total[o] = items[o]
    /\ PaymentAgrees(o)
    /\ ShipmentAgrees(o)
    /\ MemoryAgrees(o)

\* simulator.py:80-82 calls an event one committed unit of work.  It is not, but
\* the harm of an event that stops half way stays with the order it was about:
\* every other order's tables, and what the simulator remembers of it, agree.
DamageIsConfined ==
    \A o \in Orders : status[o] # "none" /\ o \notin torn \cup {cur} => Consistent(o)

\* next_order_id moves only at the end of a creation.  Between events it is
\* taken, so that every creation raises until a restart, only if the creation of
\* that very order stopped half way.
CreationBlockedOnlyByTorn ==
    pc = "idle" /\ nextOrder \in Orders /\ status[nextOrder] # "none" => nextOrder \in torn

\* An order's status moves along ORDER_TRANSITIONS, until an event about it
\* stops half way.
ImplementsOrderMachine == Machine!Spec

Units == [w \in Warehouses |-> available[w] + reserved[w]]

\* The units of a warehouse, available or reserved, never become fewer, and they
\* grow only by a restock or where a cancellation puts a unit back.
StockNeverVanishes ==
    [][\A w \in Warehouses :
          /\ Units'[w] >= Units[w]
          /\ Units'[w] > Units[w] => pc = "release" \/ (pc = "idle" /\ Restock(w))]_vars

\* An order the simulator remembers is delivered, returned or cancelled at last:
\* a payment that failed and a random choice that passes it over do not keep it
\* for ever.  The exceptions are a shipment the seeder left IN_TRANSIT, an order
\* an event about which stopped half way, and a simulator that is not running.
\* Failures are bounded: run() never reconnects, so a connection that is lost
\* would fail every later event.
OpenOrdersMoveOn ==
    \A o \in Orders :
        open[o] # "none" /\ shipment[o] \notin {"IN_TRANSIT", "RETURNED"} ~>
            open[o] = "none" \/ shipment[o] = "RETURNED" \/ o \in torn \/ pc = "down"
=============================================================================
