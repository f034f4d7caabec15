---------------------------- MODULE OrderProofs ----------------------------
(***************************************************************************)
(* Theorems about OrderLifecycle, for every number of orders, items,       *)
(* warehouses, failing events and kills: the harm of an event that stops   *)
(* half way stays with its order, every other order moves along            *)
(* ORDER_TRANSITIONS, and no unit of stock is lost.                        *)
(***************************************************************************)
EXTENDS OrderLifecycle, NaturalsInduction, WellFoundedInduction, TLAPS

-----------------------------------------------------------------------------
(* The inductive invariant.                                                *)

\* An order that was never inserted has no rows and is not remembered.
FreshInv ==
    \A o \in Orders :
        status[o] = "none" =>
            /\ items[o] = 0 /\ payment[o] = "none" /\ shipment[o] = "none"
            /\ open[o] = "none" /\ o \notin torn

\* An event is about an order that exists, and its loops have a round left.
CursorInv ==
    /\ pc \in {"idle", "down"} <=> cur = 0
    /\ cur # 0 => status[cur] # "none"
    /\ pc \in {"items", "reserve", "release"} => left >= 1

\* The steps of the creation of an order.
Creating == {"items", "payment", "reserve"}

\* Ids above the next one are free, and so is that one itself, unless its
\* creation is under way or stopped half way.
NextIdInv ==
    /\ \A o \in Orders : o > nextOrder => status[o] = "none"
    /\ nextOrder \in Orders /\ status[nextOrder] # "none" =>
           nextOrder \in torn \/ (pc \in Creating /\ cur = nextOrder)

\* The amounts of an order that is complete.
Paid(o) == items[o] >= 1 /\ total[o] = items[o] /\ amount[o] >= total[o]

\* What the statements of a creation have done so far.
CreationInv ==
    /\ pc \in Creating =>
           /\ cur = nextOrder /\ cur \notin torn
           /\ status[cur] = "PLACED" /\ shipment[cur] = "none" /\ open[cur] = "none"
    /\ pc = "items" => payment[cur] = "none" /\ total[cur] = items[cur] + left
    /\ pc = "payment" => payment[cur] = "none" /\ total[cur] = items[cur] /\ items[cur] >= 1
    /\ pc = "reserve" => payment[cur] = "PENDING" /\ Paid(cur)

\* The columns of an order of which one event has done the first statement.
Columns(o, s, m, ship) == status[o] = s /\ open[o] = m /\ shipment[o] = ship

\* What the first statement of the other events has done, to an order that was
\* consistent before.
ChangeInv ==
    cur \notin torn =>
        /\ pc = "paid" =>
               Paid(cur) /\ payment[cur] = "SUCCESS" /\ Columns(cur, "PLACED", "PLACED", "none")
        /\ pc = "shipped" =>
               Paid(cur) /\ payment[cur] = "SUCCESS" /\ Columns(cur, "PAID", "PAID", "SHIPPED")
        /\ pc = "delivered" =>
               Paid(cur) /\ payment[cur] = "SUCCESS" /\ Columns(cur, "SHIPPED", "SHIPPED", "DELIVERED")
        /\ pc = "release" =>
               /\ Paid(cur) /\ payment[cur] # "none"
               /\ status[cur] = "CANCELLED" /\ shipment[cur] \in {"none", "PENDING"}
        /\ pc = "retotal" =>
               /\ items[cur] >= 1 /\ total[cur] = items[cur] + 1 /\ amount[cur] >= total[cur]
               /\ payment[cur] \in {"PENDING", "FAILED"} /\ Columns(cur, "PLACED", "PLACED", "none")

OrderInv ==
    /\ TypeOK
    /\ FreshInv
    /\ CursorInv
    /\ NextIdInv
    /\ CreationInv
    /\ ChangeInv
    /\ DamageIsConfined

-----------------------------------------------------------------------------
(* The seeder and the start of the simulator.                              *)

LEMMA OrderIds ==
    /\ Orders = 1 .. MaxOrderId /\ MaxOrderId \in Nat
    /\ Orders \subseteq Nat
    /\ 0 \notin Orders
  BY SizeAssumption DEF Orders

\* max_id() + 1 is an id, and the orders from it on do not exist.
LEMMA NextIdIsFree ==
    ASSUME NEW st \in [Orders -> Statuses \cup {"none"}]
    PROVE  /\ NextId(st) \in 1 .. MaxOrderId + 1
           /\ \A o \in Orders : o >= NextId(st) => st[o] = "none"
<1>. DEFINE Bounds == {n \in 1 .. MaxOrderId + 1 : \A o \in Orders : o >= n => st[o] = "none"}
            R == OpToRel(<, Nat)
<1>1. MaxOrderId \in Nat /\ Orders = 1 .. MaxOrderId
  BY SizeAssumption DEF Orders
<1>2. Bounds \subseteq Nat /\ MaxOrderId + 1 \in Bounds
  BY <1>1
<1>3. PICK n \in Bounds : \A m \in Bounds : ~(<<m, n>> \in R)
  <2>1. Bounds # {}
    BY <1>2
  <2>. QED
    BY ONLY <1>2, <2>1, NatLessThanWellFounded, WFMin, Zenon
<1>4. \A m \in Bounds : ~(m < n)
  BY <1>2, <1>3 DEF OpToRel
<1>5. ASSUME NEW m \in 1 .. n - 1
      PROVE  \E o \in m .. n - 1 : st[o] # "none"
  <2>1. n \in 1 .. MaxOrderId + 1 /\ n - 1 \in 1 .. MaxOrderId + 1
    BY <1>1, <1>5
  <2>2. n - 1 \notin Bounds
    BY <1>4, <2>1
  <2>3. PICK o \in Orders : o >= n - 1 /\ st[o] # "none"
    BY <2>1, <2>2
  <2>4. ~(o >= n)
    BY <2>3
  <2>. QED
    BY <1>1, <2>1, <2>3, <2>4
<1>6. /\ n \in 1 .. MaxOrderId + 1
      /\ \A o \in Orders : o >= n => st[o] = "none"
      /\ \A m \in 1 .. n - 1 : \E o \in m .. n - 1 : st[o] # "none"
  BY <1>5
<1>. QED
  BY <1>6 DEF NextId

\* What _load_initial_state() remembers are statuses of orders that are open.
LEMMA MemoryIsOpen ==
    ASSUME NEW st \in [Orders -> Statuses \cup {"none"}], NEW S \in Samples(st)
    PROVE  /\ Remembered(st, S) \in [Orders -> Statuses \cup {"none"}]
           /\ \A o \in Orders : Remembered(st, S)[o] # "none" =>
                  Remembered(st, S)[o] = st[o] /\ ~Terminal(st[o])
<1>1. \A o \in S : o \in Orders /\ ~Terminal(st[o])
  BY DEF Samples, OpenRows
<1>. QED
  BY <1>1 DEF Remembered

\* The seeder's orders are complete, and nothing is torn.
LEMMA OrderInit == Init => OrderInv
<1>. SUFFICES ASSUME Init PROVE OrderInv
  OBVIOUS
<1>1. PICK seed \in [1 .. Seeded -> Statuses] :
         status = [o \in Orders |-> IF o <= Seeded THEN seed[o] ELSE "none"]
  BY DEF Init, SeedOrders
<1>2. PICK n \in [1 .. Seeded -> 1 .. MaxItems] :
         items = [o \in Orders |-> IF o <= Seeded THEN n[o] ELSE 0]
  BY DEF Init, SeedOrders, SeedItems
<1>3. PICK S \in Samples(status) : open = Remembered(status, S)
  BY DEF Init
<1>4. \A o \in Orders : o <= Seeded => o \in 1 .. Seeded
  BY SizeAssumption DEF Orders
<1>5. /\ status \in [Orders -> Statuses \cup {"none"}]
      /\ \A o \in Orders : status[o] # "none" <=> o <= Seeded
  BY <1>1, <1>4 DEF Statuses
<1>6. /\ items \in [Orders -> Nat]
      /\ \A o \in Orders : IF o <= Seeded THEN items[o] >= 1 ELSE items[o] = 0
  BY <1>2, <1>4, SizeAssumption
<1>7. total = items /\ amount = items
  BY DEF Init, SeedOrders, SeedItems
<1>8. /\ payment \in [Orders -> PaymentStatuses \cup {"none"}]
      /\ shipment \in [Orders -> ShipmentStatuses \cup {"none"}]
      /\ \A o \in Orders :
             IF o <= Seeded
             THEN /\ payment[o] \in payment_status_for_order(status[o])
                  /\ shipment[o] \in shipment_status_for_order(status[o])
             ELSE payment[o] = "none" /\ shipment[o] = "none"
  BY DEF Init, SeedOrders
<1>9. /\ open \in [Orders -> Statuses \cup {"none"}]
      /\ \A o \in Orders : open[o] # "none" => open[o] = status[o] /\ ~Terminal(status[o])
  BY <1>3, <1>5, MemoryIsOpen
<1>10. /\ nextOrder \in 1 .. MaxOrderId + 1
       /\ \A o \in Orders : o >= nextOrder => status[o] = "none"
  BY <1>5, NextIdIsFree DEF Init
<1>11. pc = "idle" /\ cur = 0 /\ left = 0 /\ torn = {} /\ failures = 0 /\ crashes = 0
  BY DEF Init
<1>12. TypeOK
  <2>1. available \in [Warehouses -> Nat] /\ reserved \in [Warehouses -> Nat]
    BY SizeAssumption DEF Init, SeedInventory
  <2>. QED
    BY <1>5, <1>6, <1>7, <1>8, <1>9, <1>10, <1>11, <2>1, SizeAssumption DEF TypeOK, Steps
<1>13. FreshInv
  BY <1>5, <1>6, <1>8, <1>9, <1>11 DEF FreshInv
<1>14. CursorInv /\ CreationInv /\ ChangeInv
  BY <1>11 DEF CursorInv, CreationInv, ChangeInv, Creating
<1>15. NextIdInv
  BY <1>10, SizeAssumption DEF NextIdInv, Orders
<1>16. DamageIsConfined
  <2>. SUFFICES ASSUME NEW o \in Orders, status[o] # "none"
                PROVE  Consistent(o)
    BY DEF DamageIsConfined
  <2>1. o <= Seeded /\ status[o] \in Statuses
    BY <1>5
  <2>2. items[o] \in Nat /\ items[o] >= 1 /\ total[o] = items[o] /\ amount[o] = items[o]
    BY <1>6, <1>7, <2>1
  <2>3. PaymentAgrees(o)
    BY <1>8, <2>1, <2>2 DEF PaymentAgrees, payment_status_for_order, Statuses
  <2>4. ShipmentAgrees(o)
    BY <1>8, <2>1 DEF ShipmentAgrees, shipment_status_for_order, Statuses
  <2>5. MemoryAgrees(o)
    BY <1>9 DEF MemoryAgrees
  <2>. QED
    BY <2>2, <2>3, <2>4, <2>5 DEF Consistent
<1>. QED
  BY <1>12, <1>13, <1>14, <1>15, <1>16 DEF OrderInv

-----------------------------------------------------------------------------
(* Orders that no event is about.                                          *)

\* Between events, what the simulator remembers of an order that is not torn is
\* its status.
LEMMA OpenIsConsistent ==
    ASSUME OrderInv, pc = "idle", NEW o \in Orders, open[o] # "none", o \notin torn
    PROVE  Consistent(o) /\ status[o] = open[o]
<1>1. cur = 0 /\ status[o] # "none"
  BY DEF OrderInv, CursorInv, FreshInv
<1>2. Consistent(o)
  BY <1>1, OrderIds DEF OrderInv, DamageIsConfined
<1>. QED
  BY <1>2 DEF Consistent, MemoryAgrees

LEMMA ConsistentStays ==
    ASSUME NEW o \in Orders, Consistent(o), status'[o] = status[o], open'[o] = open[o],
           UNCHANGED <<total, items, payment, amount, shipment>>
    PROVE  Consistent(o)'
  BY DEF Consistent, PaymentAgrees, ShipmentAgrees, MemoryAgrees

-----------------------------------------------------------------------------
(* Creation.                                                              *)

\* A free id gets its row, and the event of its creation begins.
LEMMA NewOrderInv ==
    ASSUME OrderInv, NEW n \in 1 .. MaxItems, NewOrder(n)
    PROVE  OrderInv'
<1>1. TypeOK'
  BY DEF OrderInv, TypeOK, Steps, Statuses, ShipmentStatuses, NewOrder, stock, memory, faults
<1>2. FreshInv'
  BY DEF OrderInv, FreshInv, NewOrder, memory, faults
<1>3. CursorInv'
  BY DEF OrderInv, TypeOK, CursorInv, NewOrder
<1>4. NextIdInv'
  BY OrderIds DEF OrderInv, NextIdInv, Creating, NewOrder, memory
<1>5. CreationInv'
  BY DEF OrderInv, TypeOK, CreationInv, FreshInv, NewOrder, memory, faults
<1>6. ChangeInv'
  BY DEF OrderInv, ChangeInv, NewOrder
<1>7. DamageIsConfined'
  BY OrderIds
  DEF OrderInv, CursorInv, DamageIsConfined, Consistent, PaymentAgrees, ShipmentAgrees,
      MemoryAgrees, NewOrder, memory, faults
<1>. QED
  BY <1>1, <1>2, <1>3, <1>4, <1>5, <1>6, <1>7 DEF OrderInv

LEMMA InsertItemInv ==
    ASSUME OrderInv, InsertItem
    PROVE  OrderInv'
<1>1. TypeOK'
  <2>1. pc = "items" /\ cur \in Orders /\ left \in Nat \ {0}
    BY DEF OrderInv, TypeOK, CursorInv, InsertItem
  <2>2. items' \in [Orders -> Nat] /\ left' \in Nat /\ pc' \in Steps
    BY <2>1 DEF OrderInv, TypeOK, InsertItem, Steps
  <2>. QED
    BY <2>2 DEF OrderInv, TypeOK, InsertItem, ordersTable, stock, memory, faults
<1>2. FreshInv'
  BY DEF OrderInv, FreshInv, CursorInv, InsertItem, ordersTable, memory, faults
<1>3. CursorInv'
  BY DEF OrderInv, TypeOK, CursorInv, InsertItem, ordersTable
<1>4. NextIdInv'
  BY DEF OrderInv, NextIdInv, Creating, InsertItem, ordersTable, memory, faults
<1>5. CreationInv'
  BY DEF OrderInv, TypeOK, CreationInv, Creating, InsertItem, ordersTable, stock, memory, faults
<1>6. ChangeInv'
  BY DEF OrderInv, ChangeInv, InsertItem
<1>7. DamageIsConfined'
  BY DEF OrderInv, DamageIsConfined, Consistent, PaymentAgrees, ShipmentAgrees, MemoryAgrees,
         InsertItem, ordersTable, memory, faults
<1>. QED
  BY <1>1, <1>2, <1>3, <1>4, <1>5, <1>6, <1>7 DEF OrderInv

LEMMA InsertPaymentInv ==
    ASSUME OrderInv, InsertPayment
    PROVE  OrderInv'
<1>1. TypeOK'
  BY DEF OrderInv, TypeOK, Steps, PaymentStatuses, CursorInv, InsertPayment, ordersTable, stock,
         memory, faults
<1>2. FreshInv'
  BY DEF OrderInv, FreshInv, CursorInv, InsertPayment, ordersTable, memory, faults
<1>3. CursorInv'
  BY DEF OrderInv, CursorInv, CreationInv, InsertPayment, ordersTable
<1>4. NextIdInv'
  BY DEF OrderInv, NextIdInv, Creating, InsertPayment, ordersTable, memory, faults
<1>5. CreationInv'
  BY DEF OrderInv, TypeOK, CreationInv, Creating, Paid, InsertPayment, ordersTable, memory, faults
<1>6. ChangeInv'
  BY DEF OrderInv, ChangeInv, InsertPayment
<1>7. DamageIsConfined'
  BY DEF OrderInv, DamageIsConfined, Consistent, PaymentAgrees, ShipmentAgrees, MemoryAgrees,
         InsertPayment, ordersTable, memory, faults
<1>. QED
  BY <1>1, <1>2, <1>3, <1>4, <1>5, <1>6, <1>7 DEF OrderInv

\* After the last item the order is complete, and the memory learns of it.
LEMMA ReserveInv ==
    ASSUME OrderInv, NEW w \in Warehouses, Reserve(w)
    PROVE  OrderInv'
<1>1. TypeOK'
  <2>1. pc = "reserve" /\ cur \in Orders /\ cur = nextOrder /\ left \in Nat \ {0}
    BY DEF OrderInv, TypeOK, CursorInv, CreationInv, Creating, Reserve
  <2>2. available' \in [Warehouses -> Nat] /\ reserved' \in [Warehouses -> Nat]
    BY DEF OrderInv, TypeOK, Reserve, stock
  <2>3. nextOrder' \in 1 .. MaxOrderId + 1
    BY <2>1, SizeAssumption DEF OrderInv, TypeOK, Reserve, NextItem, memory, Orders
  <2>4. open' \in [Orders -> Statuses \cup {"none"}] /\ left' \in Nat
    BY <2>1 DEF OrderInv, TypeOK, Reserve, NextItem, memory, Statuses
  <2>5. pc' \in Steps /\ cur' \in Orders \cup {0}
    BY <2>1 DEF OrderInv, TypeOK, Reserve, NextItem, Steps
  <2>. QED
    BY <2>2, <2>3, <2>4, <2>5 DEF OrderInv, TypeOK, Reserve, ordersTable, faults
<1>2. FreshInv'
  BY DEF OrderInv, TypeOK, FreshInv, CursorInv, Reserve, NextItem, ordersTable, memory, faults
<1>3. CursorInv'
  <2>1. pc = "reserve" /\ cur \in Orders /\ left \in Nat /\ left >= 1
    BY DEF Reserve, OrderInv, TypeOK, CursorInv
  <2>2. CASE left = 1
    BY <2>2 DEF Reserve, NextItem, CursorInv
  <2>3. CASE left # 1
    BY <2>1, <2>3 DEF Reserve, NextItem, OrderInv, CursorInv, ordersTable
  <2>. QED
    BY <2>2, <2>3
<1>4. NextIdInv'
  <2>1. pc = "reserve" /\ cur = nextOrder /\ nextOrder \in Nat /\ UNCHANGED <<status, torn>>
    BY OrderIds DEF Reserve, OrderInv, TypeOK, CreationInv, Creating, ordersTable, faults
  <2>2. CASE left = 1
    <3>1. nextOrder' = nextOrder + 1
      BY <2>2 DEF Reserve, NextItem
    <3>2. \A o \in Orders : o >= nextOrder' => status[o] = "none"
      BY <2>1, <3>1, OrderIds DEF OrderInv, NextIdInv
    <3>3. \A o \in Orders : o > nextOrder' => o >= nextOrder'
      BY <2>1, <3>1, OrderIds
    <3>. QED
      BY <2>1, <3>1, <3>2, <3>3 DEF NextIdInv
  <2>3. CASE left # 1
    BY <2>1, <2>3 DEF Reserve, NextItem, memory, OrderInv, NextIdInv, Creating
  <2>. QED
    BY <2>2, <2>3
<1>5. CreationInv'
  BY DEF OrderInv, CreationInv, Creating, Paid, Reserve, NextItem, ordersTable, memory, faults
<1>6. ChangeInv'
  BY DEF OrderInv, ChangeInv, Reserve, NextItem
<1>7. DamageIsConfined'
  <2>. SUFFICES ASSUME NEW q \in Orders, status'[q] # "none", q \notin torn' \cup {cur'}
                PROVE  Consistent(q)'
    BY DEF DamageIsConfined
  <2>1. /\ torn' = torn
        /\ UNCHANGED <<status, total, items, payment, amount, shipment>>
        /\ cur \in Orders /\ (cur' = cur \/ left = 1)
    BY DEF Reserve, NextItem, OrderInv, CursorInv, TypeOK, ordersTable, faults
  <2>2. CASE q = cur
    <3>1. left = 1
      BY <2>1, <2>2
    <3>2. open'[q] = "PLACED"
      BY <2>1, <2>2, <3>1 DEF Reserve, NextItem, OrderInv, TypeOK
    <3>. QED
      BY <2>1, <2>2, <3>2 DEF Reserve, OrderInv, TypeOK, CreationInv, Creating, Paid,
         Consistent, PaymentAgrees, ShipmentAgrees, MemoryAgrees, Terminal
  <2>3. CASE q # cur
    <3>1. Consistent(q)
      BY <2>1, <2>3 DEF OrderInv, DamageIsConfined
    <3>2. open'[q] = open[q]
      BY <2>1, <2>3 DEF Reserve, NextItem, OrderInv, TypeOK, memory
    <3>. QED
      BY <2>1, <3>1, <3>2, ConsistentStays
  <2>. QED
    BY <2>2, <2>3
<1>. QED
  BY <1>1, <1>2, <1>3, <1>4, <1>5, <1>6, <1>7 DEF OrderInv

-----------------------------------------------------------------------------
(* Payments and shipments.                                                *)

\* The order was PLACED in the memory, and so in its table unless it is torn.
LEMMA ResolvePaymentInv ==
    ASSUME OrderInv, NEW o \in Orders, NEW outcome \in {"SUCCESS", "FAILED"}, ResolvePayment(o, outcome)
    PROVE  OrderInv'
<1>1. TypeOK'
  BY DEF OrderInv, TypeOK, Steps, PaymentStatuses, ResolvePayment, ordersTable, stock, memory,
         faults
<1>2. FreshInv'
  BY DEF OrderInv, FreshInv, ResolvePayment, ordersTable, memory, faults
<1>3. CursorInv'
  BY OrderIds DEF OrderInv, CursorInv, FreshInv, ResolvePayment, ordersTable
<1>4. NextIdInv'
  BY DEF OrderInv, NextIdInv, Creating, ResolvePayment, ordersTable, memory, faults
<1>5. CreationInv'
  BY DEF OrderInv, CreationInv, Creating, ResolvePayment
<1>6. ChangeInv'
  <2>1. o \notin torn => Consistent(o) /\ status[o] = "PLACED"
    BY OpenIsConsistent DEF ResolvePayment
  <2>2. /\ payment'[o] = outcome /\ open[o] = "PLACED"
        /\ cur = 0 /\ IF outcome = "SUCCESS" THEN pc' = "paid" /\ cur' = o ELSE pc' = "idle" /\ cur' = 0
        /\ UNCHANGED <<status, total, items, amount, shipment, open, torn>>
    BY DEF ResolvePayment, OrderInv, TypeOK, CursorInv, ordersTable, memory, faults
  <2>. QED
    BY <2>1, <2>2 DEF ChangeInv, Columns, Paid, Consistent, PaymentAgrees, ShipmentAgrees
<1>7. DamageIsConfined'
  BY OrderIds
  DEF OrderInv, CursorInv, DamageIsConfined, Consistent, PaymentAgrees, ShipmentAgrees,
      MemoryAgrees, ResolvePayment, ordersTable, memory, faults
<1>. QED
  BY <1>1, <1>2, <1>3, <1>4, <1>5, <1>6, <1>7 DEF OrderInv

LEMMA MarkPaidInv ==
    ASSUME OrderInv, MarkPaid
    PROVE  OrderInv'
<1>1. TypeOK'
  BY DEF OrderInv, TypeOK, Steps, Statuses, MarkPaid, stock, faults
<1>2. FreshInv'
  BY DEF OrderInv, FreshInv, CursorInv, MarkPaid, faults
<1>3. CursorInv'
  BY DEF OrderInv, CursorInv, MarkPaid
<1>4. NextIdInv'
  BY DEF OrderInv, NextIdInv, Creating, MarkPaid, faults
<1>5. CreationInv'
  BY DEF OrderInv, CreationInv, Creating, MarkPaid
<1>6. ChangeInv'
  BY DEF OrderInv, ChangeInv, MarkPaid
<1>7. DamageIsConfined'
  BY DEF OrderInv, TypeOK, ChangeInv, Columns, DamageIsConfined, Consistent, PaymentAgrees,
         ShipmentAgrees, MemoryAgrees, Terminal, Paid, MarkPaid, faults
<1>. QED
  BY <1>1, <1>2, <1>3, <1>4, <1>5, <1>6, <1>7 DEF OrderInv

LEMMA CreateShipmentInv ==
    ASSUME OrderInv, NEW o \in Orders, CreateShipment(o)
    PROVE  OrderInv'
<1>1. TypeOK'
  BY DEF OrderInv, TypeOK, ShipmentStatuses, CreateShipment, ordersTable, stock, memory, event,
         faults
<1>2. FreshInv'
  BY DEF OrderInv, FreshInv, CreateShipment, ordersTable, memory, faults
<1>3. CursorInv'
  BY DEF OrderInv, CursorInv, CreateShipment, event
<1>4. NextIdInv'
  BY DEF OrderInv, NextIdInv, CreateShipment, ordersTable, memory, event, faults
<1>5. CreationInv'
  BY DEF OrderInv, CreationInv, CreateShipment, ordersTable, memory, event, faults
<1>6. ChangeInv'
  BY DEF OrderInv, ChangeInv, CreateShipment, event
<1>7. DamageIsConfined'
  BY DEF OrderInv, DamageIsConfined, Consistent, PaymentAgrees, ShipmentAgrees, MemoryAgrees,
         CreateShipment, ordersTable, memory, event, faults
<1>. QED
  BY <1>1, <1>2, <1>3, <1>4, <1>5, <1>6, <1>7 DEF OrderInv

\* A pending shipment of an order that is not torn: the order is PAID.
LEMMA DispatchInv ==
    ASSUME OrderInv, NEW o \in Orders, Dispatch(o)
    PROVE  OrderInv'
<1>1. TypeOK'
  BY DEF OrderInv, TypeOK, Steps, ShipmentStatuses, Dispatch, ordersTable, stock, memory, faults
<1>2. FreshInv'
  BY DEF OrderInv, FreshInv, Dispatch, ordersTable, memory, faults
<1>3. CursorInv'
  BY OrderIds DEF OrderInv, CursorInv, FreshInv, Dispatch, ordersTable
<1>4. NextIdInv'
  BY DEF OrderInv, NextIdInv, Creating, Dispatch, ordersTable, memory, faults
<1>5. CreationInv'
  BY DEF OrderInv, CreationInv, Creating, Dispatch
<1>6. ChangeInv'
  <2>1. o \notin torn => Consistent(o) /\ status[o] = open[o] /\ status[o] = "PAID"
    BY OpenIsConsistent DEF Dispatch, Consistent, ShipmentAgrees
  <2>2. /\ pc' = "shipped" /\ cur' = o /\ shipment'[o] = "SHIPPED"
        /\ UNCHANGED <<status, total, items, payment, amount, open, torn>>
    BY DEF Dispatch, OrderInv, TypeOK, ordersTable, memory, faults
  <2>. QED
    BY <2>1, <2>2 DEF ChangeInv, Columns, Paid, Consistent, PaymentAgrees
<1>7. DamageIsConfined'
  BY OrderIds
  DEF OrderInv, CursorInv, DamageIsConfined, Consistent, PaymentAgrees, ShipmentAgrees,
      MemoryAgrees, Dispatch, ordersTable, memory, faults
<1>. QED
  BY <1>1, <1>2, <1>3, <1>4, <1>5, <1>6, <1>7 DEF OrderInv

LEMMA MarkShippedInv ==
    ASSUME OrderInv, MarkShipped
    PROVE  OrderInv'
<1>1. TypeOK'
  BY DEF OrderInv, TypeOK, Steps, Statuses, MarkShipped, stock, faults
<1>2. FreshInv'
  BY DEF OrderInv, TypeOK, FreshInv, MarkShipped, faults
<1>3. CursorInv'
  BY DEF OrderInv, CursorInv, MarkShipped
<1>4. NextIdInv'
  BY DEF OrderInv, NextIdInv, CursorInv, Creating, MarkShipped, faults
<1>5. CreationInv'
  BY DEF OrderInv, CreationInv, Creating, MarkShipped
<1>6. ChangeInv'
  BY DEF OrderInv, ChangeInv, MarkShipped
<1>7. DamageIsConfined'
  BY DEF OrderInv, TypeOK, ChangeInv, Columns, DamageIsConfined, Consistent, PaymentAgrees,
         ShipmentAgrees, MemoryAgrees, Terminal, Paid, MarkShipped, faults
<1>. QED
  BY <1>1, <1>2, <1>3, <1>4, <1>5, <1>6, <1>7 DEF OrderInv

\* A shipment under way of an order that is not torn: the order is SHIPPED.
LEMMA SettleInv ==
    ASSUME OrderInv, NEW o \in Orders, NEW outcome \in {"DELIVERED", "RETURNED"}, Settle(o, outcome)
    PROVE  OrderInv'
<1>1. TypeOK'
  BY DEF OrderInv, TypeOK, Steps, ShipmentStatuses, Settle, ordersTable, stock, memory, faults
<1>2. FreshInv'
  BY DEF OrderInv, FreshInv, Settle, ordersTable, memory, faults
<1>3. CursorInv'
  BY OrderIds DEF OrderInv, CursorInv, FreshInv, Settle, ordersTable
<1>4. NextIdInv'
  BY DEF OrderInv, NextIdInv, Creating, Settle, ordersTable, memory, faults
<1>5. CreationInv'
  BY DEF OrderInv, CreationInv, Creating, Settle
<1>6. ChangeInv'
  <2>1. o \notin torn => Consistent(o) /\ status[o] = open[o] /\ status[o] = "SHIPPED"
    BY OpenIsConsistent DEF Settle, Consistent, ShipmentAgrees
  <2>2. /\ shipment'[o] = outcome
        /\ cur = 0 /\ IF outcome = "DELIVERED" THEN pc' = "delivered" /\ cur' = o ELSE pc' = "idle" /\ cur' = 0
        /\ UNCHANGED <<status, total, items, payment, amount, open, torn>>
    BY DEF Settle, OrderInv, TypeOK, CursorInv, ordersTable, memory, faults
  <2>. QED
    BY <2>1, <2>2 DEF ChangeInv, Columns, Paid, Consistent, PaymentAgrees
<1>7. DamageIsConfined'
  BY OrderIds
  DEF OrderInv, CursorInv, DamageIsConfined, Consistent, PaymentAgrees, ShipmentAgrees,
      MemoryAgrees, Settle, ordersTable, memory, faults
<1>. QED
  BY <1>1, <1>2, <1>3, <1>4, <1>5, <1>6, <1>7 DEF OrderInv

LEMMA MarkDeliveredInv ==
    ASSUME OrderInv, MarkDelivered
    PROVE  OrderInv'
<1>1. TypeOK'
  BY DEF OrderInv, TypeOK, Steps, Statuses, MarkDelivered, stock, faults
<1>2. FreshInv'
  BY DEF OrderInv, FreshInv, MarkDelivered, faults
<1>3. CursorInv'
  BY DEF OrderInv, CursorInv, MarkDelivered
<1>4. NextIdInv'
  BY DEF OrderInv, NextIdInv, CursorInv, Creating, MarkDelivered, faults
<1>5. CreationInv'
  BY DEF OrderInv, CreationInv, Creating, MarkDelivered
<1>6. ChangeInv'
  BY DEF OrderInv, ChangeInv, MarkDelivered
<1>7. DamageIsConfined'
  BY DEF OrderInv, TypeOK, ChangeInv, Columns, DamageIsConfined, Consistent, PaymentAgrees,
         ShipmentAgrees, MemoryAgrees, Paid, MarkDelivered, faults
<1>. QED
  BY <1>1, <1>2, <1>3, <1>4, <1>5, <1>6, <1>7 DEF OrderInv

-----------------------------------------------------------------------------
(* Cancellations, deleted items and stock.                                *)

\* An order without items is cancelled in one step only if it is torn.
LEMMA CancelInv ==
    ASSUME OrderInv, NEW o \in Orders, Cancel(o)
    PROVE  OrderInv'
<1>1. TypeOK'
  <2>1. status' \in [Orders -> Statuses \cup {"none"}] /\ open' \in [Orders -> Statuses \cup {"none"}]
    BY DEF OrderInv, TypeOK, Cancel, CancelIn, Statuses
  <2>2. pc' \in Steps /\ cur' \in Orders \cup {0} /\ left' \in Nat
    BY DEF OrderInv, TypeOK, Cancel, CancelIn, Steps, event
  <2>. QED
    BY <2>1, <2>2 DEF OrderInv, TypeOK, Cancel, CancelIn, stock, faults
<1>2. FreshInv'
  BY DEF OrderInv, TypeOK, FreshInv, Cancel, CancelIn, faults
<1>3. CursorInv'
  BY OrderIds DEF OrderInv, TypeOK, CursorInv, Cancel, CancelIn, stock, event
<1>4. NextIdInv'
  BY DEF OrderInv, NextIdInv, Creating, FreshInv, Cancel, CancelIn, CANCELLABLE_STATUSES, faults
<1>5. CreationInv'
  BY DEF OrderInv, CreationInv, Creating, Cancel, CancelIn, event
<1>6. ChangeInv'
  <2>1. o \notin torn => Consistent(o) /\ status[o] \in {"PLACED", "PAID"}
    BY OpenIsConsistent DEF Cancel, CancelIn, CANCELLABLE_STATUSES
  <2>2. /\ status'[o] = "CANCELLED"
        /\ (pc' = "release" /\ cur' = o) \/ pc' = "idle"
        /\ UNCHANGED <<total, items, payment, amount, shipment, torn>>
    BY DEF Cancel, CancelIn, OrderInv, TypeOK, event, faults
  <2>. QED
    BY <2>1, <2>2 DEF ChangeInv, Paid, Consistent, PaymentAgrees, ShipmentAgrees
<1>7. DamageIsConfined'
  <2>. SUFFICES ASSUME NEW q \in Orders, status'[q] # "none", q \notin torn' \cup {cur'}
                PROVE  Consistent(q)'
    BY DEF DamageIsConfined
  <2>1. /\ o \notin torn => items[o] >= 1
        /\ items[o] \in Nat /\ torn' = torn
        /\ items[o] # 0 => cur' = o
    BY OpenIsConsistent
    DEF Cancel, CancelIn, CANCELLABLE_STATUSES, OrderInv, TypeOK, Consistent, faults
  <2>2. q # o
    BY <2>1
  <2>3. /\ status'[q] = status[q] /\ open'[q] = open[q]
        /\ UNCHANGED <<total, items, payment, amount, shipment>>
    BY <2>2 DEF Cancel, CancelIn, OrderInv, TypeOK
  <2>4. Consistent(q)
    BY <2>1, <2>3, OrderIds DEF Cancel, CancelIn, OrderInv, CursorInv, DamageIsConfined
  <2>. QED
    BY <2>3, <2>4, ConsistentStays
<1>. QED
  BY <1>1, <1>2, <1>3, <1>4, <1>5, <1>6, <1>7 DEF OrderInv

LEMMA ReleaseInv ==
    ASSUME OrderInv, NEW w \in Warehouses, Release(w)
    PROVE  OrderInv'
<1>1. TypeOK'
  <2>1. pc = "release" /\ cur \in Orders /\ left \in Nat \ {0}
    BY DEF OrderInv, TypeOK, CursorInv, Release, ReleaseAt
  <2>2. available' \in [Warehouses -> Nat] /\ reserved' \in [Warehouses -> Nat]
    BY DEF OrderInv, TypeOK, Release, ReleaseAt, Minus
  <2>3. open' \in [Orders -> Statuses \cup {"none"}] /\ left' \in Nat
    BY <2>1 DEF OrderInv, TypeOK, Release, ReleaseAt
  <2>4. pc' \in Steps /\ cur' \in Orders \cup {0}
    BY <2>1 DEF OrderInv, TypeOK, Release, ReleaseAt, Steps
  <2>. QED
    BY <2>2, <2>3, <2>4 DEF OrderInv, TypeOK, Release, ReleaseAt, ordersTable, faults
<1>2. FreshInv'
  BY DEF OrderInv, TypeOK, FreshInv, Release, ReleaseAt, ordersTable, faults
<1>3. CursorInv'
  BY DEF OrderInv, TypeOK, CursorInv, Release, ReleaseAt, ordersTable
<1>4. NextIdInv'
  BY DEF OrderInv, NextIdInv, Creating, Release, ReleaseAt, ordersTable, faults
<1>5. CreationInv'
  BY DEF OrderInv, CreationInv, Creating, Release, ReleaseAt
<1>6. ChangeInv'
  BY DEF OrderInv, ChangeInv, Paid, Release, ReleaseAt, ordersTable, faults
<1>7. DamageIsConfined'
  <2>. SUFFICES ASSUME NEW q \in Orders, status'[q] # "none", q \notin torn' \cup {cur'}
                PROVE  Consistent(q)'
    BY DEF DamageIsConfined
  <2>1. /\ torn' = torn
        /\ UNCHANGED <<status, total, items, payment, amount, shipment>>
        /\ cur \in Orders /\ (cur' = cur \/ left = 1)
    BY DEF Release, ReleaseAt, OrderInv, CursorInv, TypeOK, ordersTable, faults
  <2>2. CASE q = cur
    <3>1. left = 1
      BY <2>1, <2>2
    <3>2. open'[q] = "none"
      BY <2>1, <2>2, <3>1 DEF Release, ReleaseAt, OrderInv, TypeOK
    <3>. QED
      BY <2>1, <2>2, <3>2 DEF Release, ReleaseAt, OrderInv, TypeOK, ChangeInv, Paid,
         Consistent, PaymentAgrees, ShipmentAgrees, MemoryAgrees, Terminal
  <2>3. CASE q # cur
    <3>1. Consistent(q)
      BY <2>1, <2>3 DEF OrderInv, DamageIsConfined
    <3>2. open'[q] = open[q]
      BY <2>1, <2>3 DEF Release, ReleaseAt, OrderInv, TypeOK, memory
    <3>. QED
      BY <2>1, <3>1, <3>2, ConsistentStays
  <2>. QED
    BY <2>2, <2>3
<1>. QED
  BY <1>1, <1>2, <1>3, <1>4, <1>5, <1>6, <1>7 DEF OrderInv

LEMMA DeleteItemInv ==
    ASSUME OrderInv, NEW o \in Orders, DeleteItem(o)
    PROVE  OrderInv'
<1>1. TypeOK'
  <2>1. items' \in [Orders -> Nat]
    BY DEF OrderInv, TypeOK, DeleteItem
  <2>. QED
    BY <2>1 DEF OrderInv, TypeOK, DeleteItem, Steps, ordersTable, stock, memory, faults
<1>2. FreshInv'
  BY DEF OrderInv, FreshInv, DeleteItem, ordersTable, memory, faults
<1>3. CursorInv'
  BY OrderIds DEF OrderInv, CursorInv, FreshInv, DeleteItem, ordersTable
<1>4. NextIdInv'
  BY DEF OrderInv, NextIdInv, Creating, DeleteItem, ordersTable, memory, faults
<1>5. CreationInv'
  BY DEF OrderInv, CreationInv, Creating, DeleteItem
<1>6. ChangeInv'
  <2>1. o \notin torn => Consistent(o) /\ status[o] = "PLACED"
    BY OpenIsConsistent DEF DeleteItem
  <2>2. /\ pc' = "retotal" /\ cur' = o /\ items[o] > 1 /\ items[o] \in Nat /\ items'[o] = items[o] - 1
        /\ open[o] = "PLACED"
        /\ UNCHANGED <<status, total, payment, amount, shipment, open, torn>>
    BY DEF DeleteItem, OrderInv, TypeOK, ordersTable, memory, faults
  <2>. QED
    BY <2>1, <2>2 DEF ChangeInv, Columns, Consistent, PaymentAgrees, ShipmentAgrees
<1>7. DamageIsConfined'
  BY OrderIds
  DEF OrderInv, CursorInv, DamageIsConfined, Consistent, PaymentAgrees, ShipmentAgrees,
      MemoryAgrees, DeleteItem, ordersTable, memory, faults
<1>. QED
  BY <1>1, <1>2, <1>3, <1>4, <1>5, <1>6, <1>7 DEF OrderInv

LEMMA ReduceTotalInv ==
    ASSUME OrderInv, ReduceTotal
    PROVE  OrderInv'
<1>1. TypeOK'
  <2>1. total' \in [Orders -> Nat]
    BY DEF OrderInv, TypeOK, CursorInv, ReduceTotal, Minus
  <2>. QED
    BY <2>1 DEF OrderInv, TypeOK, ReduceTotal, Steps, stock, memory, faults
<1>2. FreshInv'
  BY DEF OrderInv, FreshInv, ReduceTotal, memory, faults
<1>3. CursorInv'
  BY DEF OrderInv, CursorInv, ReduceTotal
<1>4. NextIdInv'
  BY DEF OrderInv, NextIdInv, Creating, ReduceTotal, memory, faults
<1>5. CreationInv'
  BY DEF OrderInv, CreationInv, Creating, ReduceTotal
<1>6. ChangeInv'
  BY DEF OrderInv, ChangeInv, ReduceTotal
<1>7. DamageIsConfined'
  BY DEF OrderInv, TypeOK, ChangeInv, Columns, DamageIsConfined, Consistent, PaymentAgrees,
         ShipmentAgrees, MemoryAgrees, Terminal, ReduceTotal, Minus, memory, faults
<1>. QED
  BY <1>1, <1>2, <1>3, <1>4, <1>5, <1>6, <1>7 DEF OrderInv

LEMMA RestockInv ==
    ASSUME OrderInv, NEW w \in Warehouses, Restock(w)
    PROVE  OrderInv'
<1>1. TypeOK'
  <2>1. available' \in [Warehouses -> Nat]
    BY DEF OrderInv, TypeOK, Restock
  <2>. QED
    BY <2>1 DEF OrderInv, TypeOK, Restock, ordersTable, memory, event, faults
<1>2. FreshInv'
  BY DEF OrderInv, FreshInv, Restock, ordersTable, memory, faults
<1>3. CursorInv'
  BY DEF OrderInv, CursorInv, Restock, event
<1>4. NextIdInv'
  BY DEF OrderInv, NextIdInv, Restock, ordersTable, memory, event, faults
<1>5. CreationInv'
  BY DEF OrderInv, CreationInv, Restock, ordersTable, memory, event, faults
<1>6. ChangeInv'
  BY DEF OrderInv, ChangeInv, Restock, event
<1>7. DamageIsConfined'
  BY DEF OrderInv, DamageIsConfined, Consistent, PaymentAgrees, ShipmentAgrees, MemoryAgrees,
         Restock, ordersTable, memory, event, faults
<1>. QED
  BY <1>1, <1>2, <1>3, <1>4, <1>5, <1>6, <1>7 DEF OrderInv

-----------------------------------------------------------------------------
(* Events that stop half way.                                             *)

\* The order of an event that raises is torn from then on.
LEMMA RaiseInv ==
    ASSUME OrderInv, Raise
    PROVE  OrderInv'
<1>1. TypeOK'
  BY SizeAssumption DEF OrderInv, TypeOK, Steps, CursorInv, Raise, ordersTable, stock, memory
<1>2. FreshInv'
  BY DEF OrderInv, FreshInv, CursorInv, Raise, ordersTable, memory
<1>3. CursorInv'
  BY DEF OrderInv, CursorInv, Raise
<1>4. NextIdInv'
  BY DEF OrderInv, NextIdInv, Raise, ordersTable, memory
<1>5. CreationInv'
  BY DEF OrderInv, CreationInv, Creating, Raise
<1>6. ChangeInv'
  BY DEF OrderInv, ChangeInv, Raise
<1>7. DamageIsConfined'
  BY DEF OrderInv, DamageIsConfined, Consistent, PaymentAgrees, ShipmentAgrees, MemoryAgrees,
         Raise, ordersTable, memory
<1>. QED
  BY <1>1, <1>2, <1>3, <1>4, <1>5, <1>6, <1>7 DEF OrderInv

LEMMA CrashInv ==
    ASSUME OrderInv, Crash
    PROVE  OrderInv'
<1>1. TypeOK'
  BY SizeAssumption DEF OrderInv, TypeOK, Steps, Crash, ordersTable, stock
<1>2. FreshInv'
  BY DEF OrderInv, FreshInv, CursorInv, Crash, ordersTable
<1>3. CursorInv'
  BY DEF OrderInv, CursorInv, Crash
<1>4. NextIdInv'
  BY OrderIds DEF OrderInv, NextIdInv, Crash, ordersTable
<1>5. CreationInv'
  BY DEF OrderInv, CreationInv, Creating, Crash
<1>6. ChangeInv'
  BY DEF OrderInv, ChangeInv, Crash
<1>7. DamageIsConfined'
  BY DEF OrderInv, DamageIsConfined, Consistent, PaymentAgrees, ShipmentAgrees, MemoryAgrees,
         Crash, ordersTable
<1>. QED
  BY <1>1, <1>2, <1>3, <1>4, <1>5, <1>6, <1>7 DEF OrderInv

\* The restarted simulator knows a sample of the open orders, and the next free id.
LEMMA RestartInv ==
    ASSUME OrderInv, Restart
    PROVE  OrderInv'
<1>1. PICK S \in Samples(status) : open' = Remembered(status, S)
  BY DEF Restart
<1>2. /\ open' \in [Orders -> Statuses \cup {"none"}]
      /\ \A o \in Orders : open'[o] # "none" => open'[o] = status[o] /\ ~Terminal(status[o])
  BY <1>1, MemoryIsOpen DEF OrderInv, TypeOK
<1>3. /\ nextOrder' \in 1 .. MaxOrderId + 1
      /\ \A o \in Orders : o >= nextOrder' => status[o] = "none"
  BY NextIdIsFree DEF OrderInv, TypeOK, Restart
<1>4. /\ UNCHANGED <<ordersTable, items, payment, amount, shipment, stock, cur, left, faults>>
      /\ pc = "down" /\ pc' = "idle" /\ cur = 0
  BY DEF Restart, OrderInv, CursorInv
<1>5. TypeOK'
  BY <1>2, <1>3, <1>4 DEF OrderInv, TypeOK, Steps, ordersTable, stock, faults
<1>6. FreshInv'
  BY <1>2, <1>4 DEF OrderInv, FreshInv, ordersTable, faults
<1>7. CursorInv' /\ CreationInv' /\ ChangeInv'
  BY <1>4 DEF CursorInv, CreationInv, ChangeInv, Creating
<1>8. NextIdInv'
  BY <1>3, <1>4, SizeAssumption DEF NextIdInv, ordersTable, Orders
<1>9. DamageIsConfined'
  <2>. SUFFICES ASSUME NEW o \in Orders, status[o] # "none", o \notin torn
                PROVE  Consistent(o)'
    BY <1>4 DEF DamageIsConfined, ordersTable, faults
  <2>1. Consistent(o)
    BY <1>4, SizeAssumption DEF OrderInv, DamageIsConfined, Orders
  <2>2. MemoryAgrees(o)'
    BY <1>2, <1>4 DEF MemoryAgrees, ordersTable
  <2>. QED
    BY <1>4, <2>1, <2>2 DEF Consistent, PaymentAgrees, ShipmentAgrees, ordersTable
<1>. QED
  BY <1>5, <1>6, <1>7, <1>8, <1>9 DEF OrderInv

-----------------------------------------------------------------------------
(* Invariance.                                                             *)

LEMMA StutterInv ==
    ASSUME OrderInv, UNCHANGED vars
    PROVE  OrderInv'
<1>1. UNCHANGED <<status, total, items, payment, amount, shipment, available, reserved,
                  open, nextOrder, pc, cur, left, torn, failures, crashes>>
  BY DEF vars, ordersTable, stock, memory, event, faults
<1>2. TypeOK' /\ FreshInv' /\ CursorInv' /\ NextIdInv' /\ CreationInv' /\ ChangeInv'
  BY <1>1
  DEF OrderInv, TypeOK, FreshInv, CursorInv, NextIdInv, CreationInv, ChangeInv, Paid, Columns
<1>3. DamageIsConfined'
  BY <1>1 DEF OrderInv, DamageIsConfined, Consistent, PaymentAgrees, ShipmentAgrees, MemoryAgrees
<1>. QED
  BY <1>2, <1>3 DEF OrderInv

LEMMA OrderNext == OrderInv /\ [Next]_vars => OrderInv'
<1>. SUFFICES ASSUME OrderInv, [Next]_vars PROVE OrderInv'
  OBVIOUS
<1>1. ASSUME NEW n \in 1 .. MaxItems, NewOrder(n)
      PROVE  OrderInv'
  BY <1>1, NewOrderInv
<1>2. ASSUME NEW o \in Orders, PaymentChange(o) \/ ShipmentChange(o) \/ Cancel(o) \/ DeleteItem(o)
      PROVE  OrderInv'
  BY <1>2, ResolvePaymentInv, CreateShipmentInv, DispatchInv, SettleInv, CancelInv, DeleteItemInv
     DEF PaymentChange, ShipmentChange
<1>3. ASSUME NEW w \in Warehouses, Restock(w)
      PROVE  OrderInv'
  BY <1>3, RestockInv
<1>4. CASE Statement
  BY <1>4, InsertItemInv, InsertPaymentInv, MarkPaidInv, MarkShippedInv, MarkDeliveredInv,
     ReduceTotalInv, ReserveInv, ReleaseInv DEF Statement
<1>5. CASE Raise \/ Crash \/ Restart
  BY <1>5, RaiseInv, CrashInv, RestartInv
<1>6. CASE UNCHANGED vars
  BY <1>6, StutterInv
<1>. QED
  BY <1>1, <1>2, <1>3, <1>4, <1>5, <1>6 DEF Next

LEMMA OrderInvariant == Spec => []OrderInv
<1>. QED
  BY OrderInit, OrderNext, PTL DEF Spec

\* The types hold: no quantity or amount goes below zero, no loop runs past its
\* last round.
THEOREM TypeCorrect == Spec => []TypeOK
<1>1. OrderInv => TypeOK
  BY DEF OrderInv
<1>. QED
  BY <1>1, OrderInvariant, PTL

\* Orders whose events ran to their end agree in all tables and in the memory of
\* the simulator, whatever stopped half way elsewhere.
THEOREM DamageStaysConfined == Spec => []DamageIsConfined
<1>1. OrderInv => DamageIsConfined
  BY DEF OrderInv
<1>. QED
  BY <1>1, OrderInvariant, PTL

\* Between events an order id is taken only by an order whose creation stopped
\* half way.
THEOREM OnlyTornBlockCreation == Spec => []CreationBlockedOnlyByTorn
<1>1. OrderInv => CreationBlockedOnlyByTorn
  BY DEF OrderInv, NextIdInv, Creating, CreationBlockedOnlyByTorn
<1>. QED
  BY <1>1, OrderInvariant, PTL

-----------------------------------------------------------------------------
(* The orders follow OrderMachine.                                         *)

\* The state of the abstract machine.
MachineStatus == [o \in Orders |-> IF o \in torn THEN "torn" ELSE status[o]]

LEMMA RefinesInit == Init => Machine!Init
<1>. SUFFICES ASSUME Init PROVE Machine!Init
  OBVIOUS
<1>1. status \in [Orders -> Statuses \cup {"none"}] /\ torn = {}
  BY OrderInit DEF OrderInv, TypeOK, Init
<1>. QED
  BY <1>1 DEF Machine!Init, Machine!OrderStatuses, Statuses

\* A step that changes the status of an order that is torn is not seen.
LEMMA TornIsSilent ==
    ASSUME OrderInv, torn' = torn, NEW o \in torn, NEW s,
           status' = [status EXCEPT ![o] = s]
    PROVE  MachineStatus' = MachineStatus
  BY DEF OrderInv, TypeOK, MachineStatus

\* A step that changes the status of another is seen as this change.
LEMMA ChangeIsSeen ==
    ASSUME OrderInv, torn' = torn, NEW o \in Orders, o \notin torn, NEW s,
           status' = [status EXCEPT ![o] = s]
    PROVE  /\ MachineStatus' = [MachineStatus EXCEPT ![o] = s]
           /\ MachineStatus[o] = status[o]
  BY DEF OrderInv, TypeOK, MachineStatus

LEMMA MoveRefines ==
    ASSUME OrderInv, torn' = torn, NEW o \in Orders, o \notin torn, NEW s \in Statuses,
           status' = [status EXCEPT ![o] = s],
           \/ status[o] = "PLACED" /\ s \in {"PAID", "CANCELLED"}
           \/ status[o] = "PAID" /\ s \in {"SHIPPED", "CANCELLED"}
           \/ status[o] = "SHIPPED" /\ s = "DELIVERED"
    PROVE  Machine!Next
<1>1. MachineStatus' = [MachineStatus EXCEPT ![o] = s] /\ MachineStatus[o] = status[o]
  BY ChangeIsSeen
<1>2. status[o] \in Machine!OrderStatuses /\ s \in Machine!ORDER_TRANSITIONS[status[o]]
  BY DEF Machine!OrderStatuses, Machine!ORDER_TRANSITIONS
<1>3. Machine!Move(o)
  BY <1>1, <1>2 DEF Machine!Move, MachineStatus
<1>. QED
  BY <1>3 DEF Machine!Next

LEMMA PlaceRefines ==
    ASSUME OrderInv, NEW n \in 1 .. MaxItems, NewOrder(n)
    PROVE  Machine!Next
<1>1. /\ nextOrder \in Orders /\ nextOrder \notin torn /\ status[nextOrder] = "none"
      /\ status' = [status EXCEPT ![nextOrder] = "PLACED"] /\ torn' = torn
  BY DEF NewOrder, OrderInv, FreshInv, faults
<1>2. /\ MachineStatus' = [MachineStatus EXCEPT ![nextOrder] = "PLACED"]
      /\ MachineStatus[nextOrder] = "none"
  BY <1>1, ChangeIsSeen
<1>3. ASSUME NEW o \in Orders, o = nextOrder
      PROVE  Machine!Place(o)
  BY <1>2, <1>3 DEF Machine!Place, MachineStatus
<1>. QED
  BY <1>1, <1>3 DEF Machine!Next

\* An event that stops half way tears its order, once.
LEMMA TearRefines ==
    ASSUME OrderInv, UNCHANGED status, torn' = torn \cup ({cur} \ {0})
    PROVE  Machine!Next \/ UNCHANGED MachineStatus
<1>1. CASE cur \in torn \cup {0}
  <2>1. torn' = torn
    BY <1>1
  <2>. QED
    BY <2>1 DEF MachineStatus
<1>2. CASE cur \notin torn \cup {0}
  <2>1. cur \in Orders /\ status[cur] \in Statuses /\ torn' = torn \cup {cur}
    BY <1>2 DEF OrderInv, TypeOK, CursorInv
  <2>2. MachineStatus' = [MachineStatus EXCEPT ![cur] = "torn"] /\ MachineStatus[cur] = status[cur]
    BY <1>2, <2>1 DEF MachineStatus
  <2>3. ASSUME NEW o \in Orders, o = cur
        PROVE  Machine!Tear(o)
    BY <2>1, <2>2, <2>3 DEF Machine!Tear, Machine!OrderStatuses, MachineStatus, Statuses
  <2>. QED
    BY <2>1, <2>3 DEF Machine!Next
<1>. QED
  BY <1>1, <1>2

LEMMA RefinesNext ==
    OrderInv /\ [Next]_vars => [Machine!Next]_MachineStatus
<1>. SUFFICES ASSUME OrderInv, [Next]_vars
              PROVE  Machine!Next \/ UNCHANGED MachineStatus
  OBVIOUS
<1>1. ASSUME NEW n \in 1 .. MaxItems, NewOrder(n)
      PROVE  Machine!Next
  BY <1>1, PlaceRefines
<1>2. CASE MarkPaid
  <2>1. /\ cur \in Orders /\ torn' = torn
        /\ cur \notin torn => status[cur] = "PLACED"
        /\ status' = [status EXCEPT ![cur] = IF status[cur] = "PLACED" THEN "PAID" ELSE status[cur]]
    BY <1>2 DEF MarkPaid, OrderInv, TypeOK, CursorInv, ChangeInv, Columns, faults
  <2>. QED
    BY <2>1, TornIsSilent, MoveRefines DEF Statuses
<1>3. CASE MarkShipped
  <2>1. /\ cur \in Orders /\ torn' = torn /\ status' = [status EXCEPT ![cur] = "SHIPPED"]
        /\ cur \notin torn => status[cur] = "PAID"
    BY <1>3 DEF MarkShipped, OrderInv, TypeOK, CursorInv, ChangeInv, Columns, faults
  <2>. QED
    BY <2>1, TornIsSilent, MoveRefines DEF Statuses
<1>4. CASE MarkDelivered
  <2>1. /\ cur \in Orders /\ torn' = torn /\ status' = [status EXCEPT ![cur] = "DELIVERED"]
        /\ cur \notin torn => status[cur] = "SHIPPED"
    BY <1>4 DEF MarkDelivered, OrderInv, TypeOK, CursorInv, ChangeInv, Columns, faults
  <2>. QED
    BY <2>1, TornIsSilent, MoveRefines DEF Statuses
<1>5. ASSUME NEW o \in Orders, Cancel(o)
      PROVE  Machine!Next \/ UNCHANGED MachineStatus
  <2>1. torn' = torn /\ status' = [status EXCEPT ![o] = "CANCELLED"]
    BY <1>5 DEF Cancel, CancelIn, faults
  <2>2. o \notin torn => status[o] \in {"PLACED", "PAID"}
    BY <1>5, OpenIsConsistent DEF Cancel, CancelIn, CANCELLABLE_STATUSES
  <2>. QED
    BY <2>1, <2>2, TornIsSilent, MoveRefines DEF Statuses
<1>6. CASE Raise \/ Crash
  <2>1. UNCHANGED status /\ torn' = torn \cup ({cur} \ {0})
    BY <1>6 DEF Raise, Crash, OrderInv, CursorInv, ordersTable
  <2>. QED
    BY <2>1, TearRefines
<1>7. ASSUME UNCHANGED <<status, torn>>
      PROVE  UNCHANGED MachineStatus
  BY <1>7 DEF MachineStatus
<1>8. ASSUME NEW o \in Orders, PaymentChange(o) \/ ShipmentChange(o) \/ DeleteItem(o)
      PROVE  UNCHANGED MachineStatus
  BY <1>7, <1>8 DEF PaymentChange, ShipmentChange, ResolvePayment, CreateShipment, Dispatch, Settle,
                    DeleteItem, ordersTable, faults
<1>9. ASSUME NEW w \in Warehouses, Restock(w) \/ Reserve(w) \/ Release(w)
      PROVE  UNCHANGED MachineStatus
  BY <1>7, <1>9 DEF Restock, Reserve, Release, ReleaseAt, ordersTable, faults
<1>10. CASE InsertItem \/ InsertPayment \/ ReduceTotal \/ Restart \/ UNCHANGED vars
  BY <1>7, <1>10 DEF InsertItem, InsertPayment, ReduceTotal, Restart, vars, ordersTable, faults
<1>. QED
  BY <1>1, <1>2, <1>3, <1>4, <1>5, <1>6, <1>8, <1>9, <1>10 DEF Next, Statement

\* An order's status moves along ORDER_TRANSITIONS until an event about it stops
\* half way: the simulator implements OrderMachine.
THEOREM OrdersFollowMachine == Spec => ImplementsOrderMachine
<1>. QED
  BY RefinesInit, RefinesNext, OrderInvariant, PTL
  DEF Spec, ImplementsOrderMachine, Machine!Spec, MachineStatus

-----------------------------------------------------------------------------
(* Stock.                                                                  *)

\* What a step does to the units of a warehouse.
UnitsStep ==
    \A w \in Warehouses :
        /\ Units'[w] >= Units[w]
        /\ Units'[w] > Units[w] => pc = "release" \/ (pc = "idle" /\ Restock(w))

LEMMA UnitsNext == OrderInv /\ [Next]_vars => [UnitsStep]_vars
<1>. SUFFICES ASSUME OrderInv, [Next]_vars, NEW w \in Warehouses
              PROVE  /\ Units'[w] >= Units[w]
                     /\ Units'[w] > Units[w] => pc = "release" \/ (pc = "idle" /\ Restock(w))
  BY DEF UnitsStep
<1>1. /\ Units[w] = available[w] + reserved[w] /\ Units'[w] = available'[w] + reserved'[w]
      /\ available[w] \in Nat /\ reserved[w] \in Nat
  BY DEF OrderInv, TypeOK, Units
<1>2. ASSUME NEW v \in Warehouses, Reserve(v)
      PROVE  Units'[w] = Units[w]
  <2>1. \/ available'[w] = available[w] /\ reserved'[w] = reserved[w]
        \/ available'[w] = available[w] - 1 /\ reserved'[w] = reserved[w] + 1
    BY <1>2 DEF Reserve, OrderInv, TypeOK, stock
  <2>. QED
    BY <1>1, <2>1
<1>3. ASSUME NEW v \in Warehouses, Release(v)
      PROVE  Units'[w] >= Units[w] /\ pc = "release"
  <2>1. \/ available'[w] = available[w] /\ reserved'[w] = reserved[w]
        \/ available'[w] = available[w] + 1 /\ reserved'[w] = Minus(reserved[w], 1)
    BY <1>3 DEF Release, ReleaseAt, OrderInv, TypeOK
  <2>2. pc = "release"
    BY <1>3 DEF Release, ReleaseAt
  <2>. QED
    BY <1>1, <2>1, <2>2 DEF Minus
<1>4. ASSUME NEW v \in Warehouses, Restock(v)
      PROVE  Units'[w] >= Units[w] /\ (Units'[w] > Units[w] => pc = "idle" /\ Restock(w))
  <2>1. CASE v = w
    <3>1. pc = "idle" /\ available'[w] = available[w] + 1 /\ reserved'[w] = reserved[w]
      BY <1>4, <2>1 DEF Restock, OrderInv, TypeOK
    <3>. QED
      BY <1>1, <1>4, <2>1, <3>1
  <2>2. CASE v # w
    <3>1. available'[w] = available[w] /\ reserved'[w] = reserved[w]
      BY <1>4, <2>2 DEF Restock, OrderInv, TypeOK
    <3>. QED
      BY <1>1, <3>1
  <2>. QED
    BY <2>1, <2>2
<1>5. ASSUME UNCHANGED <<available, reserved>>
      PROVE  Units'[w] = Units[w]
  BY <1>5 DEF Units
<1>6. ASSUME NEW o \in Orders, PaymentChange(o) \/ ShipmentChange(o) \/ Cancel(o) \/ DeleteItem(o)
      PROVE  Units'[w] = Units[w]
  BY <1>5, <1>6 DEF PaymentChange, ShipmentChange, ResolvePayment, CreateShipment, Dispatch, Settle,
                    Cancel, CancelIn, DeleteItem, stock
<1>7. ASSUME NEW n \in 1 .. MaxItems, NewOrder(n)
      PROVE  Units'[w] = Units[w]
  BY <1>5, <1>7 DEF NewOrder, stock
<1>8. CASE \/ InsertItem \/ InsertPayment \/ MarkPaid \/ MarkShipped \/ MarkDelivered \/ ReduceTotal
           \/ Raise \/ Crash \/ Restart \/ UNCHANGED vars
  <2>1. UNCHANGED stock
    BY <1>8 DEF InsertItem, InsertPayment, MarkPaid, MarkShipped, MarkDelivered, ReduceTotal,
                Raise, Crash, Restart, vars
  <2>. QED
    BY <1>1, <1>5, <2>1 DEF stock
<1>. QED
  BY <1>1, <1>2, <1>3, <1>4, <1>6, <1>7, <1>8 DEF Next, Statement

\* The units of a warehouse never become fewer, and grow only by a restock or by
\* the release of a cancelled order's items.
THEOREM StockIsKept == Spec => StockNeverVanishes
<1>1. [UnitsStep]_vars => [\A w \in Warehouses :
          /\ Units'[w] >= Units[w]
          /\ Units'[w] > Units[w] => pc = "release" \/ (pc = "idle" /\ Restock(w))]_vars
  BY DEF UnitsStep
<1>. QED
  BY <1>1, UnitsNext, OrderInvariant, PTL DEF Spec, StockNeverVanishes
=============================================================================
