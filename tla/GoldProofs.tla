----------------------------- MODULE GoldProofs -----------------------------
(***************************************************************************)
(* Theorems about GoldBuild, for every number of orders, customers and     *)
(* changes, and every look-back: what the gate's verdict is worth once     *)
(* Silver has moved on, and what the rows of daily_sales count.            *)
(***************************************************************************)
EXTENDS GoldBuild, FiniteSetTheorems, SequenceTheorems, NaturalsInduction, WellFoundedInduction, TLAPS

-----------------------------------------------------------------------------
(* The inductive invariant.                                                *)

IsOrder(i) == log[i].table = "orders"

IsShipment(i) == log[i].table = "shipments"

\* The keys of the tables, and the foreign key of orders.
KeysInv ==
    \A i \in DOMAIN log :
        /\ log[i].table = "customers" => log[i].key \in Customers
        /\ log[i].table # "customers" => log[i].key \in Orders
        /\ IsOrder(i) =>
               \E j \in 1 .. i - 1 : log[j].table = "customers" /\ log[j].key = CustomerOf[log[i].key]

\* An order is delivered after its shipment.
DeliveryInv ==
    \A i \in DOMAIN log : IsOrder(i) /\ log[i].status = "DELIVERED" =>
        \E j \in 1 .. i - 1 : IsShipment(j) /\ log[j].key = log[i].key

\* created_at never changes, and no update of an order makes it PLACED.
VersionInv ==
    /\ \A i \in DOMAIN log : IsOrder(i) => log[i].status \in Statuses
    /\ \A i, j \in DOMAIN log : IsOrder(i) /\ IsOrder(j) /\ log[i].key = log[j].key =>
        /\ log[i].created = log[j].created
        /\ i < j => log[j].status # "PLACED"

\* updated_at follows the log.
TimeInv ==
    /\ \A i \in DOMAIN log : log[i].updated <= today
    /\ \A i, j \in DOMAIN log : i <= j => log[i].updated <= log[j].updated

LogInv ==
    /\ KeysInv
    /\ DeliveryInv
    /\ VersionInv
    /\ TimeInv

\* The simulator knows orders that exist, dispatches before it settles, and settles
\* before it is due to deliver the order.
KnownInv(o) ==
    /\ o \in dispatched \/ open[o] # "none" \/ due[o] # "none" =>
           \E i \in DOMAIN log : IsOrder(i) /\ log[i].key = o
    /\ \A i \in DOMAIN log : IsShipment(i) /\ log[i].key = o => o \in dispatched
    /\ due[o] \in {"SHIPPED", "DELIVERED"} => o \in dispatched
    /\ due[o] = "DELIVERED" => \E i \in DOMAIN log : IsShipment(i) /\ log[i].key = o

\* What it remembers of an order agrees with the order's row, until an event about
\* the order stops half way: one that may be cancelled is not dispatched, and one
\* that was cancelled is forgotten and changes no more.
MemoryInv(o) ==
    /\ due[o] = "PLACED" \/ open[o] = "PLACED" =>
           /\ o \in dispatched => due[o] = "SHIPPED"
           /\ \A i \in DOMAIN log : IsOrder(i) /\ log[i].key = o /\ log[i].status = "CANCELLED" =>
                  due[o] = "CANCELLED"
    /\ o \in dispatched =>
           \/ due[o] = "SHIPPED"
           \/ \E i \in DOMAIN log : IsOrder(i) /\ log[i].key = o /\ log[i].status # "PLACED"
    /\ \A i \in DOMAIN log : IsOrder(i) /\ log[i].key = o /\ log[i].status = "CANCELLED" =>
           /\ o \notin dispatched
           /\ open[o] = "none" \/ due[o] = "CANCELLED"
           /\ \A j \in DOMAIN log : IsOrder(j) /\ log[j].key = o => j <= i

EventInv ==
    /\ \A o \in Orders : KnownInv(o)
    /\ \A o \in Orders \ torn : MemoryInv(o)

\* What each check of the gate is about, of the orders that were in Silver then.
FkHolds == \A o \in Keys("orders", checked["fk"]) : CustomerOf[o] \in Keys("customers", pos["customers"])

DeliveredHolds ==
    \A r \in Rows("orders", checked["delivered"]) :
        r.status = "DELIVERED" => r.key \in Keys("shipments", pos["shipments"])

\* A result that passes says that its check holds, and one is there for each
\* check that has run.
GateInv ==
    /\ pc \notin {"delivered", "verdict"} => results = <<>>
    /\ pc = "delivered" => Len(results) = 1
    /\ pc = "verdict" => Len(results) = 2
    /\ pc \in {"delivered", "verdict"} /\ Passed(results[1]) => FkHolds
    /\ pc = "verdict" /\ Passed(results[2]) => DeliveredHolds
    /\ GateHolds

\* daily_sales holds versions that orders had in Silver, one of each.
DailyInv ==
    /\ \A d \in Days : \A r \in daily[d] : \E i \in 1 .. pos["orders"] : IsOrder(i) /\ r = log[i]
    /\ CountedOnce

GoldInv ==
    /\ TypeOK
    /\ LogInv
    /\ EventInv
    /\ GateInv
    /\ DailyInv
    /\ RecentAreCounted

-----------------------------------------------------------------------------
(* Prefixes of the log.                                                    *)

\* A nonempty set of naturals with a bound has a greatest element.
LEMMA Greatest ==
    ASSUME NEW S \in SUBSET Nat, S # {}, NEW n \in Nat, \A x \in S : x <= n
    PROVE  \E x \in S : \A y \in S : y <= x
<1>. DEFINE Gaps == {x \in 0 .. n : n - x \in S}
            R == OpToRel(<, Nat)
<1>1. Gaps \subseteq Nat
  OBVIOUS
<1>2. \A y \in S : n - y \in Gaps
  OBVIOUS
<1>3. PICK m \in Gaps : \A y \in Gaps : ~(<<y, m>> \in R)
  BY ONLY <1>1, <1>2, S # {}, NatLessThanWellFounded, WFMin, Zenon
<1>4. \A y \in Gaps : ~(y < m)
  BY <1>1, <1>3 DEF OpToRel
<1>. QED
  BY <1>2, <1>4

\* A key of a table has a last change, and the table shows that one.
LEMMA LastChange ==
    ASSUME TypeOK, NEW t \in Tables, NEW n \in 0 .. Len(log), NEW k \in Keys(t, n)
    PROVE  \E i \in ChangesOf(t, n) :
               /\ log[i].key = k /\ log[i] \in Rows(t, n)
               /\ \A j \in ChangesOf(t, n) : log[j].key = k => j <= i
<1>. DEFINE S == {i \in ChangesOf(t, n) : log[i].key = k}
<1>1. S \in SUBSET Nat /\ S # {} /\ n \in Nat /\ \A i \in S : i <= n
  BY DEF ChangesOf, Keys
<1>2. PICK i \in S : \A j \in S : j <= i
  BY <1>1, Greatest
<1>. QED
  BY <1>2 DEF Rows

\* The source's current row of a key is its last change.
LEMMA CurrentIsLast ==
    ASSUME TypeOK, NEW t \in Tables, NEW k \in Keys(t, Len(log))
    PROVE  \E i \in ChangesOf(t, Len(log)) :
               /\ Current(t, k) = log[i] /\ log[i].key = k
               /\ \A j \in ChangesOf(t, Len(log)) : log[j].key = k => j <= i
<1>1. Len(log) \in Nat
  BY DEF TypeOK
<1>2. PICK i \in ChangesOf(t, Len(log)) :
          /\ log[i].key = k /\ log[i] \in Rows(t, Len(log))
          /\ \A j \in ChangesOf(t, Len(log)) : log[j].key = k => j <= i
  BY <1>1, LastChange
<1>3. Current(t, k) \in Rows(t, Len(log)) /\ Current(t, k).key = k
  BY <1>2 DEF Current
<1>4. PICK j \in ChangesOf(t, Len(log)) :
          /\ Current(t, k) = log[j]
          /\ \A m \in ChangesOf(t, Len(log)) : log[m].key = log[j].key => m <= j
  BY <1>3 DEF Rows
<1>5. i <= j /\ j <= i /\ i \in Nat /\ j \in Nat
  BY <1>2, <1>3, <1>4 DEF ChangesOf
<1>. QED
  BY <1>2, <1>4, <1>5

\* A table shows one row of a key.
LEMMA OneRow ==
    ASSUME NEW t, NEW n \in Nat, NEW r \in Rows(t, n), NEW s \in Rows(t, n), r.key = s.key
    PROVE  r = s
BY DEF Rows, ChangesOf

\* The steps outside `make gold-build`: changes are committed, Silver catches up.
Outside ==
    /\ \/ log' = log
       \/ \E c \in Change : log' = Append(log, c)
    /\ \A t \in Tables : pos[t] <= pos'[t]
    /\ today <= today'
    /\ UNCHANGED <<gold, pc, results, checked, built, failures>>

LEMMA LogGrows ==
    ASSUME TypeOK, Outside
    PROVE  /\ Len(log) \in Nat /\ Len(log') \in Nat /\ Len(log) <= Len(log')
           /\ \A i \in 1 .. Len(log) : log'[i] = log[i]
<1>1. CASE log' = log
  BY <1>1 DEF TypeOK
<1>2. ASSUME NEW c \in Change, log' = Append(log, c)
      PROVE  /\ Len(log) \in Nat /\ Len(log') \in Nat /\ Len(log) <= Len(log')
             /\ \A i \in 1 .. Len(log) : log'[i] = log[i]
  BY <1>2 DEF TypeOK
<1>. QED
  BY <1>1, <1>2 DEF Outside

\* What a table shows as of a prefix stays what it is.
LEMMA PrefixStays ==
    ASSUME TypeOK, Outside, NEW t \in Tables, NEW n \in 0 .. Len(log)
    PROVE  Rows(t, n)' = Rows(t, n) /\ Keys(t, n)' = Keys(t, n)
<1>1. \A i \in 1 .. n : log'[i] = log[i]
  BY LogGrows
<1>2. ChangesOf(t, n)' = ChangesOf(t, n)
  BY <1>1 DEF ChangesOf
<1>3. \A i \in ChangesOf(t, n) : log'[i] = log[i]
  BY <1>1 DEF ChangesOf
<1>. QED
  BY <1>2, <1>3 DEF Rows, Keys

LEMMA FiniteTables ==
    ASSUME TypeOK, KeysInv, NEW n \in 0 .. Len(log)
    PROVE  IsFiniteSet(Rows("orders", n)) /\ IsFiniteSet(Keys("orders", n))
<1>. DEFINE All == {log[i] : i \in 1 .. n}
            f == [i \in 1 .. n |-> log[i]]
<1>1. IsFiniteSet(1 .. n)
  BY FS_Interval
<1>2. f \in Surjection(1 .. n, All)
  BY DEF Surjection
<1>3. IsFiniteSet(All)
  BY <1>1, <1>2, FS_Surjection
<1>4. Rows("orders", n) \in SUBSET All
  BY DEF Rows, ChangesOf
<1>5. Keys("orders", n) \in SUBSET Orders
  BY DEF TypeOK, KeysInv, Keys, ChangesOf
<1>. QED
  BY <1>3, <1>4, <1>5, FS_Subset, OrderAssumption

LEMMA TwoChecks == Cardinality(Checks) = 2
<1>1. IsFiniteSet({"fk"}) /\ Cardinality({"fk"}) = 1
  BY FS_Singleton
<1>2. Cardinality({"fk"} \cup {"delivered"}) = 2
  BY <1>1, FS_AddElement
<1>3. {"fk"} \cup {"delivered"} = Checks
  BY DEF Checks
<1>. QED
  BY <1>2, <1>3

-----------------------------------------------------------------------------
(* The source.                                                             *)

\* The order of an event under way is there, and its row is its last change.
LEMMA KnownOrder ==
    ASSUME TypeOK, LogInv, NEW o \in Orders, \E i \in DOMAIN log : IsOrder(i) /\ log[i].key = o
    PROVE  /\ o \in Keys("orders", Len(log))
           /\ \E i \in DOMAIN log :
                  /\ IsOrder(i) /\ log[i].key = o /\ log[i] = Current("orders", o)
                  /\ \A j \in DOMAIN log : IsOrder(j) /\ log[j].key = o => j <= i
           /\ \A i \in DOMAIN log :
                  IsOrder(i) /\ log[i].key = o => log[i].created = Current("orders", o).created
           /\ Current("orders", o).created \in Days
           /\ Current("orders", o).status \in Statuses
           /\ \E i \in DOMAIN log : log[i].table = "customers" /\ log[i].key = CustomerOf[o]
<1>1. "orders" \in Tables /\ DOMAIN log = 1 .. Len(log) /\ Len(log) \in Nat
  BY DEF Tables, TypeOK
<1>2. o \in Keys("orders", Len(log))
  BY <1>1 DEF Keys, ChangesOf, IsOrder
<1>3. PICK i \in ChangesOf("orders", Len(log)) :
          /\ Current("orders", o) = log[i] /\ log[i].key = o
          /\ \A j \in ChangesOf("orders", Len(log)) : log[j].key = o => j <= i
  BY <1>1, <1>2, CurrentIsLast
<1>4. /\ i \in DOMAIN log /\ IsOrder(i)
      /\ \A j \in DOMAIN log : IsOrder(j) /\ log[j].key = o => j <= i
  BY <1>1, <1>3 DEF ChangesOf, IsOrder
<1>5. log[i] \in Change
  BY <1>4 DEF TypeOK
<1>6. log[i].created \in Days
  BY <1>5 DEF Change
<1>7. \A j \in DOMAIN log : IsOrder(j) /\ log[j].key = o => log[j].created = log[i].created
  BY <1>3, <1>4 DEF LogInv, VersionInv
<1>8. log[i].status \in Statuses
  BY <1>4 DEF LogInv, VersionInv
<1>9. \E j \in DOMAIN log : log[j].table = "customers" /\ log[j].key = CustomerOf[o]
  <2>1. PICK j \in 1 .. i - 1 : log[j].table = "customers" /\ log[j].key = CustomerOf[o]
    BY <1>3, <1>4 DEF LogInv, KeysInv
  <2>2. j \in DOMAIN log
    BY <1>1, <1>4
  <2>. QED
    BY <2>1, <2>2
<1>. QED
  BY <1>2, <1>3, <1>4, <1>6, <1>7, <1>8, <1>9

\* When a change may be committed: the rules of the source.
Allowed(c) ==
    /\ c.table = "customers" => c.key \in Customers
    /\ c.table # "customers" => c.key \in Orders
    /\ c.table = "orders" =>
        /\ c.status \in Statuses
        /\ \E i \in DOMAIN log : log[i].table = "customers" /\ log[i].key = CustomerOf[c.key]
        /\ \A i \in DOMAIN log : IsOrder(i) /\ log[i].key = c.key =>
               log[i].created = c.created /\ c.status # "PLACED"
        /\ c.status = "DELIVERED" => \E i \in DOMAIN log : IsShipment(i) /\ log[i].key = c.key

LEMMA CommitKeepsLog ==
    ASSUME TypeOK, LogInv, NEW c \in Change, Allowed(c), c.updated = today,
           log' = Append(log, c), today' = today
    PROVE  LogInv'
<1>. DEFINE n == Len(log)
<1>1. /\ n \in Nat /\ DOMAIN log = 1 .. n /\ DOMAIN log' = 1 .. n + 1
      /\ log'[n + 1] = c /\ \A i \in 1 .. n : log'[i] = log[i]
  BY DEF TypeOK
<1>2. today \in Int /\ \A i \in 1 .. n : log[i].updated \in Int
  <2>1. \A i \in 1 .. n : log[i] \in Change
    BY DEF TypeOK
  <2>2. today \in Days /\ Days \subseteq Int
    BY DEF TypeOK, Days
  <2>. QED
    BY <2>1, <2>2 DEF Change
<1>3. KeysInv'
  BY <1>1 DEF Allowed, LogInv, KeysInv, IsOrder
<1>4. DeliveryInv'
  BY <1>1 DEF Allowed, LogInv, DeliveryInv, IsOrder, IsShipment
<1>5. VersionInv'
  BY <1>1 DEF Allowed, LogInv, VersionInv, IsOrder
<1>6. TimeInv'
  BY <1>1, <1>2 DEF LogInv, TimeInv
<1>. QED
  BY <1>3, <1>4, <1>5, <1>6 DEF LogInv

\* What the simulator commits is allowed.
Commits ==
    \E c \in Change :
        /\ Allowed(c) /\ c.updated = today
        /\ Len(log) < MaxChanges
        /\ log' = Append(log, c) /\ today' = today

LEMMA CustomerCommits == ASSUME TypeOK, NEW k \in Customers, NewCustomer(k) PROVE Commits
<1>. DEFINE c == [table |-> "customers", key |-> k, status |-> "current",
                  created |-> today, updated |-> today]
<1>1. c \in Change
  BY DEF Change, Tables, TypeOK
<1>2. Allowed(c)
  BY DEF Allowed
<1>. QED
  BY <1>1, <1>2 DEF NewCustomer, Commit, Commits

LEMMA ShipmentCommits ==
    ASSUME TypeOK, NEW o \in Orders, NEW outcome \in Outcomes, SettleShipment(o, outcome)
    PROVE  Commits
<1>. DEFINE c == [table |-> "shipments", key |-> o, status |-> outcome,
                  created |-> today, updated |-> today]
<1>1. c \in Change
  BY DEF Change, Tables, TypeOK
<1>2. Allowed(c)
  BY DEF Allowed
<1>. QED
  BY <1>1, <1>2 DEF SettleShipment, Commit, Commits

LEMMA OrderCommits ==
    ASSUME TypeOK, LogInv, EventInv, NEW o \in Orders, NewOrder(o) \/ CancelOrder(o) \/ UpdateOrder(o)
    PROVE  Commits
<1>. DOMAIN log = 1 .. Len(log) /\ today \in Days
  BY DEF TypeOK
<1>1. CASE NewOrder(o)
  <2>. DEFINE c == [table |-> "orders", key |-> o, status |-> "PLACED",
                    created |-> today, updated |-> today]
  <2>1. c \in Change
    BY DEF Change, Tables, Statuses
  <2>2. Allowed(c)
    BY <1>1 DEF Allowed, NewOrder, Keys, ChangesOf, IsOrder, Statuses
  <2>. QED
    BY <1>1, <2>1, <2>2 DEF NewOrder, Commit, Commits
<1>2. ASSUME NEW s \in Statuses \ {"PLACED"}, Commit("orders", o, s, Current("orders", o).created),
             \E i \in DOMAIN log : IsOrder(i) /\ log[i].key = o,
             s = "DELIVERED" => \E i \in DOMAIN log : IsShipment(i) /\ log[i].key = o
      PROVE  Commits
  <2>. DEFINE created == Current("orders", o).created
              c == [table |-> "orders", key |-> o, status |-> s,
                    created |-> created, updated |-> today]
  <2>1. created \in Days
    BY <1>2, KnownOrder
  <2>2. c \in Change
    BY <2>1 DEF Change, Tables
  <2>3. \A i \in DOMAIN log : IsOrder(i) /\ log[i].key = o => log[i].created = created
    BY <1>2, KnownOrder
  <2>4. \E i \in DOMAIN log : log[i].table = "customers" /\ log[i].key = CustomerOf[o]
    BY <1>2, KnownOrder
  <2>. HIDE DEF created
  <2>5. Allowed(c)
    BY <1>2, <2>3, <2>4 DEF Allowed
  <2>6. log' = Append(log, c) /\ today' = today /\ Len(log) < MaxChanges
    BY <1>2 DEF Commit, created
  <2>. QED
    BY <2>2, <2>5, <2>6 DEF Commits
<1>3. CASE CancelOrder(o)
  <2>1. \E i \in DOMAIN log : IsOrder(i) /\ log[i].key = o
    BY <1>3 DEF CancelOrder, EventInv, KnownInv, CANCELLABLE_STATUSES
  <2>2. Commit("orders", o, "CANCELLED", Current("orders", o).created)
    BY <1>3 DEF CancelOrder
  <2>. QED
    BY <1>2, <2>1, <2>2 DEF Statuses
<1>4. CASE UpdateOrder(o)
  <2>1. due[o] \in {"SHIPPED", "DELIVERED"} /\ Commit("orders", o, due[o], Current("orders", o).created)
    BY <1>4 DEF UpdateOrder
  <2>2. /\ \E i \in DOMAIN log : IsOrder(i) /\ log[i].key = o
        /\ due[o] = "DELIVERED" => \E i \in DOMAIN log : IsShipment(i) /\ log[i].key = o
    BY <2>1 DEF EventInv, KnownInv
  <2>. QED
    BY <1>2, <2>1, <2>2 DEF Statuses
<1>. QED
  BY <1>1, <1>3, <1>4

LEMMA SourceCommits ==
    ASSUME TypeOK, LogInv, EventInv, SourceStep
    PROVE  /\ UNCHANGED <<pos, gold, pc, results, checked, built, failures>>
           /\ \/ log' = log /\ today' = today
              \/ log' = log /\ today < MaxDay /\ today' = today + 1
              \/ Commits
<1>1. UNCHANGED <<pos, gold, pc, results, checked, built, failures>>
  BY DEF SourceStep, NewCustomer, NewOrder, CancelOrder, Dispatch, SettleShipment, UpdateOrder,
         EndEvent, Raise, Restart, NextDay, Commit, gold
<1>2. CASE \E k \in Customers : NewCustomer(k)
  BY <1>1, <1>2, CustomerCommits
<1>3. CASE \E o \in Orders : NewOrder(o) \/ CancelOrder(o) \/ UpdateOrder(o)
  BY <1>1, <1>3, OrderCommits
<1>4. CASE \E o \in Orders : \E outcome \in Outcomes : SettleShipment(o, outcome)
  BY <1>1, <1>4, ShipmentCommits
<1>5. CASE Raise \/ Restart \/ NextDay \/ \E o \in Orders : Dispatch(o) \/ EndEvent(o)
  BY <1>1, <1>5 DEF Raise, Restart, NextDay, Dispatch, EndEvent
<1>. QED
  BY <1>2, <1>3, <1>4, <1>5 DEF SourceStep

-----------------------------------------------------------------------------
(* The simulator's memory.                                                 *)

LEMMA SimulatorTypes ==
    ASSUME TypeOK, LogInv, EventInv, SourceStep
    PROVE  /\ dispatched' \subseteq Orders /\ torn' \subseteq Orders
           /\ open' \in [Orders -> {"none", "PLACED", "SHIPPED"}]
           /\ due' \in [Orders -> Statuses \cup {"none"}]
           /\ stops' \in 0 .. MaxStops
<1>. /\ dispatched \subseteq Orders /\ torn \subseteq Orders
     /\ open \in [Orders -> {"none", "PLACED", "SHIPPED"}]
     /\ due \in [Orders -> Statuses \cup {"none"}]
     /\ stops \in 0 .. MaxStops
  BY DEF TypeOK
<1>1. CASE Raise
  BY <1>1, SizeAssumption DEF Raise
<1>2. CASE Restart
  <2>1. \A o \in Orders : o \in Keys("orders", Len(log)) => Current("orders", o).status \in Statuses
    <3>1. \A o \in Orders : o \in Keys("orders", Len(log)) =>
              \E i \in DOMAIN log : IsOrder(i) /\ log[i].key = o
      BY DEF Keys, ChangesOf, IsOrder, TypeOK
    <3>. QED
      BY <3>1, KnownOrder
  <2>. QED
    BY <1>2, <2>1, SizeAssumption DEF Restart, Statuses, Terminal
<1>3. CASE \E o \in Orders : UpdateOrder(o) \/ EndEvent(o)
  <2>. PICK o \in Orders : UpdateOrder(o) \/ EndEvent(o)
    BY <1>3
  <2>1. Remember(o)
    BY DEF UpdateOrder, EndEvent
  <2>. QED
    BY <2>1 DEF Remember, Terminal, Statuses
<1>4. CASE \/ \E k \in Customers : NewCustomer(k)
           \/ \E o \in Orders : NewOrder(o) \/ CancelOrder(o) \/ Dispatch(o)
           \/ \E o \in Orders : \E outcome \in Outcomes : SettleShipment(o, outcome)
           \/ NextDay
  BY <1>4 DEF NewCustomer, NewOrder, CancelOrder, Dispatch, SettleShipment, NextDay, simulator, Statuses
<1>. QED
  BY <1>1, <1>2, <1>3, <1>4 DEF SourceStep

\* A step that appends a change of another key, or none, and touches nothing the
\* simulator knows of an order, keeps what is known of that order.
LEMMA OthersKnown ==
    ASSUME TypeOK, EventInv, NEW o \in Orders,
           \/ log' = log
           \/ \E c \in Change : log' = Append(log, c) /\ (c.table = "customers" \/ c.key # o),
           o \in dispatched' <=> o \in dispatched,
           o \in torn => o \in torn',
           open'[o] = open[o], due'[o] = due[o]
    PROVE  KnownInv(o)' /\ (o \notin torn' => MemoryInv(o)')
<1>1. CASE log' = log
  BY <1>1 DEF EventInv, KnownInv, MemoryInv, IsOrder, IsShipment
<1>2. ASSUME NEW c \in Change, log' = Append(log, c), c.table = "customers" \/ c.key # o
      PROVE  KnownInv(o)' /\ (o \notin torn' => MemoryInv(o)')
  <2>1. /\ DOMAIN log = 1 .. Len(log) /\ DOMAIN log' = 1 .. Len(log) + 1 /\ Len(log) \in Nat
        /\ \A i \in DOMAIN log : log'[i] = log[i]
        /\ log'[Len(log) + 1] = c
    BY <1>2 DEF TypeOK
  <2>2. \A i \in DOMAIN log' : log'[i].table # "customers" /\ log'[i].key = o =>
            i \in DOMAIN log /\ log'[i] = log[i]
    <3>. SUFFICES ASSUME NEW i \in DOMAIN log', log'[i].table # "customers", log'[i].key = o
                  PROVE  i \in DOMAIN log
      BY <2>1
    <3>1. i # Len(log) + 1
      BY <1>2, <2>1
    <3>. QED
      BY <2>1, <3>1
  <2>3. KnownInv(o)'
    BY <2>1, <2>2 DEF EventInv, KnownInv, IsOrder, IsShipment
  <2>4. ASSUME o \notin torn' PROVE MemoryInv(o)'
    BY <2>1, <2>2, <2>4 DEF EventInv, MemoryInv, IsOrder
  <2>. QED
    BY <2>3, <2>4
<1>. QED
  BY <1>1, <1>2

\* The action's own order, one action at a time.
LEMMA NewOrderKnown ==
    ASSUME TypeOK, EventInv, NEW o \in Orders, NewOrder(o)
    PROVE  KnownInv(o)' /\ (o \notin torn' => MemoryInv(o)')
<1>. DEFINE n == Len(log)
<1>1. /\ n \in Nat /\ DOMAIN log = 1 .. n /\ DOMAIN log' = 1 .. n + 1
      /\ \A i \in 1 .. n : log'[i] = log[i]
      /\ log'[n + 1].table = "orders" /\ log'[n + 1].key = o /\ log'[n + 1].status = "PLACED"
  BY DEF TypeOK, NewOrder, Commit
<1>2. due'[o] = "PLACED" /\ open' = open /\ dispatched' = dispatched /\ torn' = torn
  BY DEF TypeOK, NewOrder
<1>3. \A i \in 1 .. n : ~(IsOrder(i) /\ log[i].key = o)
  BY DEF NewOrder, Keys, ChangesOf, IsOrder
<1>4. o \notin dispatched /\ open[o] = "none"
  BY <1>1, <1>3 DEF EventInv, KnownInv
<1>5. \A i \in 1 .. n + 1 : IsOrder(i)' /\ log'[i].key = o => i = n + 1
  BY <1>1, <1>3 DEF IsOrder
<1>6. \A i \in 1 .. n + 1 : ~(IsShipment(i)' /\ log'[i].key = o)
  BY <1>1, <1>4 DEF EventInv, KnownInv, IsShipment
<1>7. KnownInv(o)'
  BY <1>1, <1>2, <1>4, <1>6 DEF KnownInv, IsOrder
<1>8. MemoryInv(o)'
  BY <1>1, <1>2, <1>4, <1>5 DEF MemoryInv
<1>. QED
  BY <1>7, <1>8

LEMMA CancelOrderKnown ==
    ASSUME TypeOK, EventInv, NEW o \in Orders, CancelOrder(o)
    PROVE  KnownInv(o)' /\ (o \notin torn' => MemoryInv(o)')
<1>. DEFINE n == Len(log)
<1>1. /\ n \in Nat /\ DOMAIN log = 1 .. n /\ DOMAIN log' = 1 .. n + 1
      /\ \A i \in 1 .. n : log'[i] = log[i]
      /\ log'[n + 1].table = "orders" /\ log'[n + 1].key = o /\ log'[n + 1].status = "CANCELLED"
  BY DEF TypeOK, CancelOrder, Commit
<1>2. /\ due[o] = "none" /\ due'[o] = "CANCELLED" /\ open[o] = "PLACED"
      /\ open' = open /\ dispatched' = dispatched /\ torn' = torn
  BY DEF TypeOK, CancelOrder, Idle, CANCELLABLE_STATUSES
<1>3. KnownInv(o)'
  BY <1>1, <1>2 DEF EventInv, KnownInv, IsOrder, IsShipment
<1>4. ASSUME o \notin torn PROVE MemoryInv(o)'
  <2>1. o \notin dispatched /\ \A i \in 1 .. n : IsOrder(i) /\ log[i].key = o => log[i].status # "CANCELLED"
    BY <1>1, <1>2, <1>4 DEF EventInv, MemoryInv
  <2>2. \A i \in 1 .. n + 1 : IsOrder(i)' /\ log'[i].key = o /\ log'[i].status = "CANCELLED" => i = n + 1
    BY <1>1, <2>1 DEF IsOrder
  <2>. QED
    BY <1>1, <1>2, <2>1, <2>2 DEF MemoryInv
<1>. QED
  BY <1>2, <1>3, <1>4

LEMMA DispatchKnown ==
    ASSUME TypeOK, EventInv, NEW o \in Orders, Dispatch(o)
    PROVE  KnownInv(o)' /\ (o \notin torn' => MemoryInv(o)')
<1>1. /\ due[o] = "none" /\ due'[o] = "SHIPPED" /\ open[o] # "none" /\ open' = open
      /\ o \in dispatched' /\ log' = log /\ torn' = torn
  BY DEF TypeOK, Dispatch, Idle
<1>2. KnownInv(o)'
  BY <1>1 DEF EventInv, KnownInv, IsOrder, IsShipment
<1>3. ASSUME o \notin torn PROVE MemoryInv(o)'
  <2>1. \A i \in DOMAIN log : IsOrder(i) /\ log[i].key = o => log[i].status # "CANCELLED"
    BY <1>1, <1>3 DEF EventInv, MemoryInv
  <2>. QED
    BY <1>1, <2>1 DEF MemoryInv, IsOrder
<1>. QED
  BY <1>1, <1>2, <1>3

LEMMA SettleShipmentKnown ==
    ASSUME TypeOK, EventInv, NEW o \in Orders, NEW outcome \in Outcomes, SettleShipment(o, outcome)
    PROVE  KnownInv(o)' /\ (o \notin torn' => MemoryInv(o)')
<1>. DEFINE n == Len(log)
<1>1. /\ n \in Nat /\ DOMAIN log = 1 .. n /\ DOMAIN log' = 1 .. n + 1
      /\ \A i \in 1 .. n : log'[i] = log[i]
      /\ log'[n + 1].table = "shipments" /\ log'[n + 1].key = o
  BY DEF TypeOK, SettleShipment, Commit
<1>2. /\ due[o] = "none" /\ due'[o] \in {"none", "DELIVERED"} /\ open' = open
      /\ o \in dispatched /\ dispatched' = dispatched /\ torn' = torn
  BY DEF TypeOK, SettleShipment, Idle
<1>3. KnownInv(o)'
  BY <1>1, <1>2 DEF EventInv, KnownInv, IsOrder, IsShipment
<1>4. ASSUME o \notin torn PROVE MemoryInv(o)'
  <2>1. \A i \in 1 .. n + 1 : IsOrder(i)' /\ log'[i].key = o => i \in 1 .. n /\ IsOrder(i) /\ log[i].key = o
    BY <1>1 DEF IsOrder
  <2>2. \A i \in 1 .. n : IsOrder(i)' <=> IsOrder(i)
    BY <1>1 DEF IsOrder
  <2>3. MemoryInv(o)
    BY <1>4 DEF EventInv
  <2>. QED
    BY <1>1, <1>2, <2>1, <2>2, <2>3 DEF MemoryInv
<1>. QED
  BY <1>2, <1>3, <1>4

LEMMA UpdateOrderKnown ==
    ASSUME TypeOK, EventInv, NEW o \in Orders, UpdateOrder(o)
    PROVE  KnownInv(o)' /\ (o \notin torn' => MemoryInv(o)')
<1>. DEFINE n == Len(log)
<1>1. /\ n \in Nat /\ DOMAIN log = 1 .. n /\ DOMAIN log' = 1 .. n + 1
      /\ \A i \in 1 .. n : log'[i] = log[i]
      /\ log'[n + 1].table = "orders" /\ log'[n + 1].key = o /\ log'[n + 1].status = due[o]
  BY DEF TypeOK, UpdateOrder, Commit
<1>2. /\ due[o] \in {"SHIPPED", "DELIVERED"} /\ due'[o] = "none" /\ open'[o] \in {"none", "SHIPPED"}
      /\ dispatched' = dispatched /\ torn' = torn
  BY DEF TypeOK, UpdateOrder, Remember, Terminal
<1>3. o \in dispatched
  BY <1>2 DEF EventInv, KnownInv
<1>4. KnownInv(o)'
  BY <1>1, <1>2, <1>3 DEF EventInv, KnownInv, IsOrder, IsShipment
<1>5. ASSUME o \notin torn PROVE MemoryInv(o)'
  <2>1. \A i \in 1 .. n : IsOrder(i) /\ log[i].key = o => log[i].status # "CANCELLED"
    BY <1>1, <1>3, <1>5 DEF EventInv, MemoryInv
  <2>2. \A i \in 1 .. n + 1 : IsOrder(i)' /\ log'[i].key = o => log'[i].status # "CANCELLED"
    BY <1>1, <1>2, <2>1 DEF IsOrder
  <2>3. \E i \in DOMAIN log' : IsOrder(i)' /\ log'[i].key = o /\ log'[i].status # "PLACED"
    BY <1>1, <1>2 DEF IsOrder
  <2>. QED
    BY <1>1, <1>2, <2>2, <2>3 DEF MemoryInv
<1>. QED
  BY <1>2, <1>4, <1>5

LEMMA EndEventKnown ==
    ASSUME TypeOK, EventInv, NEW o \in Orders, EndEvent(o)
    PROVE  KnownInv(o)' /\ (o \notin torn' => MemoryInv(o)')
<1>1. /\ due[o] \in {"PLACED", "CANCELLED"} /\ due'[o] = "none"
      /\ open'[o] = IF due[o] = "CANCELLED" THEN "none" ELSE "PLACED"
      /\ log' = log /\ dispatched' = dispatched /\ torn' = torn
  BY DEF TypeOK, EndEvent, Remember, Terminal
<1>2. KnownInv(o)'
  BY <1>1 DEF EventInv, KnownInv, IsOrder, IsShipment
<1>3. ASSUME o \notin torn PROVE MemoryInv(o)'
  BY <1>1, <1>3 DEF EventInv, MemoryInv, IsOrder
<1>. QED
  BY <1>1, <1>2, <1>3

\* An event that stops half way is about one order, of which only KnownInv is kept.
LEMMA StopKnown ==
    ASSUME TypeOK, LogInv, EventInv, Raise \/ Restart, NEW o \in Orders
    PROVE  KnownInv(o)' /\ (o \notin torn' => MemoryInv(o)')
<1>1. /\ log' = log /\ dispatched' = dispatched /\ due'[o] = "none"
      /\ torn' = torn \cup {k \in Orders : due[k] # "none"}
  BY DEF Raise, Restart
<1>2. IsOrder(1)' \in BOOLEAN /\ DOMAIN log = 1 .. Len(log)
  BY DEF IsOrder, TypeOK
<1>3. CASE Raise
  <2>1. open' = open
    BY <1>3 DEF Raise
  <2>2. KnownInv(o)'
    BY <1>1, <2>1 DEF EventInv, KnownInv, IsOrder, IsShipment
  <2>3. ASSUME o \notin torn' PROVE MemoryInv(o)'
    <3>1. due[o] = "none" /\ MemoryInv(o)
      BY <1>1, <2>3 DEF EventInv
    <3>. QED
      BY <1>1, <2>1, <3>1 DEF MemoryInv, IsOrder
  <2>. QED
    BY <2>2, <2>3
<1>4. CASE Restart
  <2>1. /\ open'[o] # "none" => o \in Keys("orders", Len(log)) /\ open'[o] = Current("orders", o).status
        /\ open'[o] = "none" \/ ~Terminal(open'[o])
    BY <1>4 DEF Restart, Terminal
  <2>2. open'[o] # "none" => \E i \in DOMAIN log : IsOrder(i) /\ log[i].key = o
    BY <1>2, <2>1 DEF Keys, ChangesOf, IsOrder
  <2>3. KnownInv(o)'
    BY <1>1, <2>2 DEF EventInv, KnownInv, IsOrder, IsShipment
  <2>4. ASSUME o \notin torn' PROVE MemoryInv(o)'
    <3>1. due[o] = "none" /\ MemoryInv(o)
      BY <1>1, <2>4 DEF EventInv
    <3>2. CASE open'[o] = "none"
      BY <1>1, <3>1, <3>2 DEF MemoryInv, IsOrder
    <3>3. CASE open'[o] # "none"
      <4>1. PICK i \in DOMAIN log :
                /\ IsOrder(i) /\ log[i].key = o /\ log[i].status = open'[o]
                /\ \A j \in DOMAIN log : IsOrder(j) /\ log[j].key = o => j <= i
        BY <2>1, <2>2, <3>3, KnownOrder
      <4>2. \A j \in DOMAIN log : IsOrder(j) /\ log[j].key = o => log[j].status # "CANCELLED"
        <5>. SUFFICES ASSUME NEW j \in DOMAIN log, IsOrder(j), log[j].key = o, log[j].status = "CANCELLED"
                      PROVE  FALSE
          OBVIOUS
        <5>1. i <= j /\ j <= i
          BY <3>1, <4>1 DEF MemoryInv
        <5>2. log[i].status = "CANCELLED"
          BY <1>2, <5>1
        <5>. QED
          BY <2>1, <3>3, <4>1, <5>2 DEF Terminal
      <4>3. open'[o] = "PLACED" => o \notin dispatched
        <5>. SUFFICES ASSUME open'[o] = "PLACED", o \in dispatched PROVE FALSE
          OBVIOUS
        <5>1. PICK j \in DOMAIN log : IsOrder(j) /\ log[j].key = o /\ log[j].status # "PLACED"
          BY <3>1 DEF MemoryInv
        <5>2. j < i
          BY <1>2, <4>1, <5>1
        <5>. QED
          BY <4>1, <5>1, <5>2 DEF LogInv, VersionInv
      <4>. QED
        BY <1>1, <3>1, <4>2, <4>3 DEF MemoryInv, IsOrder
    <3>. QED
      BY <3>2, <3>3
  <2>. QED
    BY <2>3, <2>4
<1>. QED
  BY <1>3, <1>4

LEMMA EventNext ==
    ASSUME TypeOK, LogInv, EventInv, SourceStep
    PROVE  EventInv'
<1>. SUFFICES ASSUME NEW o \in Orders PROVE KnownInv(o)' /\ (o \notin torn' => MemoryInv(o)')
  BY DEF EventInv
<1>1. ASSUME NEW k \in Customers, NewCustomer(k) PROVE KnownInv(o)' /\ (o \notin torn' => MemoryInv(o)')
  <2>1. PICK c \in Change : log' = Append(log, c) /\ c.table = "customers"
    <3>. DEFINE c == [table |-> "customers", key |-> k, status |-> "current",
                      created |-> today, updated |-> today]
    <3>1. c \in Change
      BY DEF Change, Tables, TypeOK
    <3>. QED
      BY <1>1, <3>1 DEF NewCustomer, Commit
  <2>. QED
    BY <1>1, <2>1, OthersKnown DEF NewCustomer, simulator
<1>2. ASSUME NEW k \in Orders, NewOrder(k) \/ CancelOrder(k) \/ UpdateOrder(k), k # o
      PROVE  KnownInv(o)' /\ (o \notin torn' => MemoryInv(o)')
  <2>1. PICK c \in Change : log' = Append(log, c)
    BY <1>2, OrderCommits DEF Commits
  <2>2. c.key = k
    <3>1. log'[Len(log) + 1].key = k
      BY <1>2 DEF TypeOK, NewOrder, CancelOrder, UpdateOrder, Commit
    <3>. QED
      BY <2>1, <3>1 DEF TypeOK
  <2>. QED
    BY <1>2, <2>1, <2>2, OthersKnown DEF NewOrder, CancelOrder, UpdateOrder, Remember, TypeOK
<1>3. ASSUME NEW k \in Orders, Dispatch(k) \/ EndEvent(k), k # o
      PROVE  KnownInv(o)' /\ (o \notin torn' => MemoryInv(o)')
  BY <1>3, OthersKnown DEF Dispatch, EndEvent, Remember, TypeOK
<1>4. ASSUME NEW k \in Orders, NEW outcome \in Outcomes, SettleShipment(k, outcome), k # o
      PROVE  KnownInv(o)' /\ (o \notin torn' => MemoryInv(o)')
  <2>. DEFINE c == [table |-> "shipments", key |-> k, status |-> outcome,
                    created |-> today, updated |-> today]
  <2>1. c \in Change /\ log' = Append(log, c) /\ c.key # o
    BY <1>4 DEF SettleShipment, Commit, Change, Tables, TypeOK
  <2>. HIDE DEF c
  <2>. QED
    BY <1>4, <2>1, OthersKnown DEF SettleShipment, TypeOK
<1>5. CASE NextDay
  BY <1>5, OthersKnown DEF NextDay, simulator
<1>6. CASE Raise \/ Restart
  BY <1>6, StopKnown
<1>. QED
  BY <1>1, <1>2, <1>3, <1>4, <1>5, <1>6, NewOrderKnown, CancelOrderKnown, DispatchKnown,
     SettleShipmentKnown, UpdateOrderKnown, EndEventKnown DEF SourceStep

-----------------------------------------------------------------------------
(* The invariant is inductive.                                             *)

LEMMA GoldInit == Init => GoldInv
<1>. SUFFICES ASSUME Init PROVE GoldInv
  OBVIOUS
<1>1. TypeOK
  BY TwoChecks, SizeAssumption DEF Init, TypeOK, Days, Steps, Tables
<1>2. LogInv
  BY DEF Init, LogInv, KeysInv, DeliveryInv, VersionInv, TimeInv
<1>3. EventInv
  BY DEF Init, EventInv, KnownInv, MemoryInv
<1>4. GateInv
  BY DEF Init, GateInv, GateHolds
<1>5. DailyInv /\ RecentAreCounted
  BY DEF Init, DailyInv, CountedOnce, RecentAreCounted, Rows, ChangesOf
<1>. QED
  BY <1>1, <1>2, <1>3, <1>4, <1>5 DEF GoldInv

\* The log and the tables may grow under the gate, the builder and the tests.
LEMMA OutsideKeepsBuild ==
    ASSUME GoldInv, Outside, TypeOK'
    PROVE  GateInv' /\ DailyInv' /\ RecentAreCounted'
<1>. TypeOK
  BY DEF GoldInv
<1>. /\ "orders" \in Tables /\ "customers" \in Tables /\ "shipments" \in Tables
     /\ "fk" \in Checks /\ "delivered" \in Checks
  BY DEF Tables, Checks
<1>1. /\ \A t \in Tables : pos[t] \in 0 .. Len(log) /\ pos'[t] \in 0 .. Len(log') /\ pos[t] <= pos'[t]
      /\ \A i \in 1 .. Len(log) : log'[i] = log[i]
      /\ Len(log) \in Nat /\ Len(log') \in Nat
  BY LogGrows DEF TypeOK, Outside
<1>2. \A t \in Tables : Keys(t, pos[t]) \subseteq Keys(t, pos[t])'
  BY <1>1 DEF Keys, ChangesOf
<1>3. Keys("orders", checked["fk"])' = Keys("orders", checked["fk"])
  <2>1. PICK n \in 0 .. Len(log) : n = checked["fk"]
    BY <1>1 DEF TypeOK
  <2>2. Keys("orders", n)' = Keys("orders", n)
    BY PrefixStays
  <2>. QED
    BY <2>1, <2>2 DEF Outside
<1>4. Rows("orders", checked["delivered"])' = Rows("orders", checked["delivered"])
  <2>1. PICK n \in 0 .. Len(log) : n = checked["delivered"]
    BY <1>1 DEF TypeOK
  <2>2. Rows("orders", n)' = Rows("orders", n)
    BY PrefixStays
  <2>. QED
    BY <2>1, <2>2 DEF Outside
<1>5. Rows("orders", built.orders)' = Rows("orders", built.orders)
  <2>1. PICK n \in 0 .. Len(log) : n = built.orders
    BY <1>1 DEF TypeOK
  <2>2. Rows("orders", n)' = Rows("orders", n)
    BY PrefixStays
  <2>. QED
    BY <2>1, <2>2 DEF Outside
<1>6. (FkHolds => FkHolds') /\ (DeliveredHolds => DeliveredHolds')
  BY <1>2, <1>3, <1>4 DEF FkHolds, DeliveredHolds
<1>7. GateInv'
  BY <1>6 DEF GoldInv, GateInv, GateHolds, FkHolds, DeliveredHolds, Outside
<1>8. DailyInv'
  <2>1. \A i \in 1 .. pos["orders"] : i \in 1 .. pos'["orders"] /\ log'[i] = log[i]
    BY <1>1
  <2>. QED
    BY <2>1 DEF GoldInv, DailyInv, CountedOnce, Outside, gold, IsOrder
<1>9. RecentAreCounted'
  BY <1>5 DEF GoldInv, RecentAreCounted, Outside, gold
<1>. QED
  BY <1>7, <1>8, <1>9

LEMMA SourceNext == GoldInv /\ SourceStep => GoldInv'
<1>. SUFFICES ASSUME GoldInv, SourceStep PROVE GoldInv'
  OBVIOUS
<1>. TypeOK /\ LogInv /\ EventInv
  BY DEF GoldInv
<1>1. UNCHANGED <<pos, gold, pc, results, checked, built, failures>>
  BY SourceCommits
<1>2. EventInv'
  BY EventNext
<1>3. CASE log' = log /\ (today' = today \/ (today < MaxDay /\ today' = today + 1))
  <2>1. TypeOK'
    <3>1. today' \in Days /\ today <= today'
      BY <1>3, SizeAssumption DEF TypeOK, Days
    <3>2. built.day \in 0 .. today'
      BY <3>1 DEF TypeOK, Days
    <3>. QED
      BY <1>1, <1>3, <3>1, <3>2, SimulatorTypes DEF TypeOK, gold
  <2>2. Outside
    BY <1>1, <1>3 DEF Outside, TypeOK, Days
  <2>3. LogInv'
    <3>1. today <= today' /\ today \in Nat /\ today' \in Nat /\ log' = log
      BY <1>3 DEF TypeOK, Days
    <3>2. \A i \in DOMAIN log : log[i] \in Change
      BY DEF TypeOK
    <3>3. \A i \in DOMAIN log : log[i].updated \in Nat
      BY <3>2 DEF Change, Days
    <3>4. TimeInv'
      BY <3>1, <3>3 DEF LogInv, TimeInv
    <3>. QED
      BY <3>1, <3>4 DEF LogInv, KeysInv, DeliveryInv, VersionInv, IsOrder, IsShipment
  <2>. QED
    BY <1>2, <2>1, <2>2, <2>3, OutsideKeepsBuild DEF GoldInv
<1>4. CASE Commits
  <2>. PICK c \in Change : /\ Allowed(c) /\ c.updated = today
                           /\ Len(log) < MaxChanges
                           /\ log' = Append(log, c) /\ today' = today
    BY <1>4 DEF Commits
  <2>1. TypeOK'
    <3>1. log' \in Seq(Change) /\ Len(log') = Len(log) + 1 /\ Len(log) \in Nat
      BY DEF TypeOK
    <3>. QED
      BY <1>1, <3>1, SizeAssumption, SimulatorTypes DEF TypeOK, gold
  <2>2. Outside
    BY <1>1 DEF Outside, TypeOK, Days
  <2>3. LogInv'
    BY CommitKeepsLog
  <2>. QED
    BY <1>2, <2>1, <2>2, <2>3, OutsideKeepsBuild DEF GoldInv
<1>. QED
  BY <1>3, <1>4, SourceCommits

\* The Silver queries and `make gold-build` do not write to the source.
LEMMA LogStays ==
    ASSUME LogInv, EventInv, UNCHANGED source
    PROVE  LogInv' /\ EventInv'
<1>1. LogInv'
  BY DEF LogInv, KeysInv, DeliveryInv, VersionInv, TimeInv, IsOrder, IsShipment, source
<1>2. EventInv'
  BY DEF EventInv, KnownInv, MemoryInv, IsOrder, IsShipment, source, simulator
<1>. QED
  BY <1>1, <1>2

LEMMA IngestNext == ASSUME GoldInv, NEW t \in Tables, Ingest(t) PROVE GoldInv'
<1>. TypeOK /\ LogInv /\ EventInv
  BY DEF GoldInv
<1>1. PICK n \in ChangesOf(t, Len(log)) : pos[t] < n /\ pos' = [pos EXCEPT ![t] = n]
  BY DEF Ingest
<1>2. n \in 1 .. Len(log) /\ Len(log) \in Nat
  BY DEF ChangesOf, TypeOK
<1>3. UNCHANGED <<source, gold, pc, results, checked, built, failures>>
  BY DEF Ingest
<1>4. \A u \in Tables : pos[u] \in 0 .. Len(log) /\ pos'[u] \in 0 .. Len(log) /\ pos[u] <= pos'[u]
  BY <1>1, <1>2 DEF TypeOK
<1>5. TypeOK'
  <2>1. pos' \in [Tables -> 0 .. Len(log)] /\ "orders" \in Tables
    BY <1>1, <1>2 DEF TypeOK, Tables
  <2>. QED
    BY <1>3, <1>4, <2>1 DEF TypeOK, source, simulator, gold
<1>6. Outside
  BY <1>3, <1>4 DEF Outside, source, TypeOK, Days
<1>7. LogInv' /\ EventInv'
  BY <1>3, LogStays
<1>. QED
  BY <1>5, <1>6, <1>7, OutsideKeepsBuild DEF GoldInv

LEMMA BuildKeepsDaily ==
    ASSUME DailyInv, RecentAreCounted, UNCHANGED <<source, pos, daily, built>>
    PROVE  DailyInv' /\ RecentAreCounted'
BY DEF DailyInv, CountedOnce, RecentAreCounted, Rows, ChangesOf, IsOrder, source

LEMMA BuildKeepsChecks ==
    ASSUME UNCHANGED <<source, pos, checked>>
    PROVE  (FkHolds => FkHolds') /\ (DeliveredHolds => DeliveredHolds')
BY DEF FkHolds, DeliveredHolds, Keys, Rows, ChangesOf, source

\* A check of CRITICAL severity with threshold 0 passes on nothing or on no violation.
LEMMA PassedIsExact ==
    ASSUME NEW total, NEW violations, IsFiniteSet(total), violations \in SUBSET total,
           NEW r, r = [severity |-> "CRITICAL", mostly_threshold |-> 0,
                       element_count |-> Cardinality(total), violation_count |-> Cardinality(violations)]
    PROVE  r \in CheckResult /\ (Passed(r) => violations = {})
<1>1. IsFiniteSet(violations)
  BY FS_Subset
<1>2. Cardinality(total) \in Nat /\ Cardinality(violations) \in Nat
  BY <1>1, FS_CardinalityType
<1>3. r \in CheckResult
  BY <1>2 DEF CheckResult
<1>4. Passed(r) => Cardinality(total) = 0 \/ Cardinality(violations) = 0
  BY <1>2 DEF Passed
<1>. QED
  BY <1>1, <1>3, <1>4, FS_EmptySet

LEMMA StartNext == GoldInv /\ Start => GoldInv'
<1>. SUFFICES ASSUME GoldInv, Start PROVE GoldInv'
  OBVIOUS
<1>1. TypeOK'
  BY DEF GoldInv, Start, TypeOK, Steps, Checks, Tables, source, simulator, gold
<1>2. GateInv'
  BY DEF GoldInv, Start, GateInv, GateHolds
<1>. QED
  BY <1>1, <1>2, LogStays, BuildKeepsDaily DEF GoldInv, Start, gold

LEMMA CheckForeignKeysNext == GoldInv /\ CheckForeignKeys => GoldInv'
<1>. SUFFICES ASSUME GoldInv, CheckForeignKeys PROVE GoldInv'
  OBVIOUS
<1>. TypeOK /\ LogInv
  BY DEF GoldInv
<1>. DEFINE total == Keys("orders", pos["orders"])
            r == [severity |-> "CRITICAL", mostly_threshold |-> 0,
                  element_count |-> Cardinality(total), violation_count |-> Cardinality(Orphans)]
<1>1. /\ pc = "fk" /\ pc' = "delivered" /\ results' = Append(results, r)
      /\ checked' = [checked EXCEPT !["fk"] = pos["orders"]]
      /\ UNCHANGED <<source, pos, gold, built, failures>>
  BY DEF CheckForeignKeys, RunCheck
<1>2. results = <<>>
  BY <1>1 DEF GoldInv, GateInv
<1>3. IsFiniteSet(total) /\ Orphans \in SUBSET total
  BY FiniteTables DEF Orphans, TypeOK, Tables, LogInv
<1>4. r \in CheckResult /\ (Passed(r) => Orphans = {})
  BY <1>3, PassedIsExact
<1>. HIDE DEF r
<1>5. results' \in Seq(CheckResult) /\ Len(results') = 1 /\ results'[1] = r
  BY <1>1, <1>2, <1>4
<1>6. TypeOK'
  BY <1>1, <1>5, TwoChecks DEF TypeOK, Steps, Checks, Tables, source, simulator, gold
<1>7. FkHolds' <=> Orphans = {}
  <2>1. checked'["fk"] = pos["orders"] /\ pos' = pos /\ log' = log
    BY <1>1 DEF TypeOK, Checks, source
  <2>. QED
    BY <2>1 DEF FkHolds, Orphans, Keys, ChangesOf
<1>8. GateInv'
  BY <1>1, <1>4, <1>5, <1>7 DEF GateInv, GateHolds
<1>. QED
  BY <1>1, <1>6, <1>8, LogStays, BuildKeepsDaily DEF GoldInv, gold

LEMMA CheckDeliveredNext == GoldInv /\ CheckDelivered => GoldInv'
<1>. SUFFICES ASSUME GoldInv, CheckDelivered PROVE GoldInv'
  OBVIOUS
<1>. TypeOK /\ LogInv
  BY DEF GoldInv
<1>. DEFINE r == [severity |-> "CRITICAL", mostly_threshold |-> 0,
                  element_count |-> Cardinality(Delivered), violation_count |-> Cardinality(Undelivered)]
<1>1. /\ pc = "delivered" /\ pc' = "verdict" /\ results' = Append(results, r)
      /\ checked' = [checked EXCEPT !["delivered"] = pos["orders"]]
      /\ UNCHANGED <<source, pos, gold, built, failures>>
  BY DEF CheckDelivered, RunCheck
<1>2. results \in Seq(CheckResult) /\ Len(results) = 1 /\ (Passed(results[1]) => FkHolds)
  BY <1>1 DEF GoldInv, GateInv, TypeOK
<1>3. IsFiniteSet(Delivered) /\ Undelivered \in SUBSET Delivered
  <2>1. IsFiniteSet(Silver("orders")) /\ Delivered \in SUBSET Silver("orders")
    BY FiniteTables DEF Silver, Delivered, TypeOK, Tables, LogInv
  <2>. QED
    BY <2>1, FS_Subset DEF Undelivered
<1>4. r \in CheckResult /\ (Passed(r) => Undelivered = {})
  BY <1>3, PassedIsExact
<1>. HIDE DEF r
<1>5. results' \in Seq(CheckResult) /\ Len(results') = 2 /\ results'[1] = results[1] /\ results'[2] = r
  <2>1. results' = Append(results, r)
    BY <1>1
  <2>2. results \in Seq(CheckResult) /\ Len(results) = 1 /\ r \in CheckResult
    BY <1>2, <1>4
  <2>. HIDE DEF r
  <2>. QED
    BY ONLY <2>1, <2>2
<1>6. TypeOK'
  BY <1>1, <1>5, TwoChecks DEF TypeOK, Steps, Checks, Tables, source, simulator, gold
<1>7. checked'["delivered"] = pos["orders"] /\ checked'["fk"] = checked["fk"] /\ pos' = pos /\ log' = log
  BY <1>1 DEF TypeOK, Checks, source
<1>8. DeliveredHolds' <=> Undelivered = {}
  BY <1>7 DEF DeliveredHolds, Undelivered, Delivered, Silver, Keys, Rows, ChangesOf
<1>9. FkHolds => FkHolds'
  BY <1>7 DEF FkHolds, Keys, ChangesOf
<1>10. GateInv'
  BY <1>1, <1>2, <1>4, <1>5, <1>8, <1>9 DEF GateInv, GateHolds
<1>. QED
  BY <1>1, <1>6, <1>10, LogStays, BuildKeepsDaily DEF GoldInv, gold

LEMMA VerdictNext == GoldInv /\ Verdict => GoldInv'
<1>. SUFFICES ASSUME GoldInv, Verdict PROVE GoldInv'
  OBVIOUS
<1>1. TypeOK'
  BY TwoChecks DEF GoldInv, Verdict, TypeOK, Steps, source, simulator, gold
<1>2. GateInv'
  <2>1. CASE Blocking = {}
    <3>1. DOMAIN results = 1 .. 2
      BY DEF GoldInv, TypeOK, GateInv, Verdict
    <3>2. Passed(results[1]) /\ Passed(results[2])
      BY <2>1, <3>1 DEF Blocking, IsBlocking
    <3>3. FkHolds /\ DeliveredHolds
      BY <3>2 DEF GoldInv, GateInv, Verdict
    <3>. QED
      BY <3>3, BuildKeepsChecks DEF Verdict, GateInv, GateHolds, FkHolds, DeliveredHolds
  <2>2. CASE Blocking # {}
    BY <2>2 DEF Verdict, GateInv, GateHolds
  <2>. QED
    BY <2>1, <2>2
<1>. QED
  BY <1>1, <1>2, LogStays, BuildKeepsDaily DEF GoldInv, Verdict, gold

\* The rows of a date with touched orders are those orders, as Silver shows them.
LEMMA RebuiltDates ==
    ASSUME TypeOK, LogInv, NEW d \in Days, NEW r \in Touched
    PROVE  /\ r \in Rows("orders", pos["orders"]) /\ r \in Change
           /\ \E i \in 1 .. pos["orders"] : i \in DOMAIN log /\ IsOrder(i) /\ r = log[i]
<1>1. r \in Rows("orders", pos["orders"])
  BY DEF Touched, Silver
<1>2. PICK i \in 1 .. pos["orders"] : IsOrder(i) /\ r = log[i]
  BY <1>1 DEF Rows, ChangesOf, IsOrder
<1>3. i \in DOMAIN log
  BY DEF TypeOK, Tables
<1>. QED
  BY <1>1, <1>2, <1>3 DEF TypeOK

LEMMA BuildDailySalesNext == GoldInv /\ BuildDailySales => GoldInv'
<1>. SUFFICES ASSUME GoldInv, BuildDailySales PROVE GoldInv'
  OBVIOUS
<1>. TypeOK /\ LogInv
  BY DEF GoldInv
<1>. DEFINE New(d) == {r \in Touched : r.created = d}
<1>1. /\ pc = "daily" /\ pc' = "fulfil"
      /\ \A d \in Days : \/ New(d) # {} /\ daily'[d] = New(d)
                         \/ New(d) = {} /\ daily'[d] = daily[d]
      /\ DOMAIN daily' = Days
      /\ built' = [orders |-> pos["orders"], day |-> today]
      /\ UNCHANGED <<source, pos, fulfil, results, checked, failures>>
  BY DEF BuildDailySales
<1>2. TypeOK'
  <2>1. \A d \in Days : \A r \in daily'[d] : r \in Change /\ r.created = d
    BY <1>1, RebuiltDates DEF TypeOK
  <2>2. built'.orders \in 0 .. pos["orders"] /\ built'.day \in 0 .. today
    BY <1>1 DEF TypeOK, Tables, Days
  <2>. QED
    BY <1>1, <2>1, <2>2 DEF TypeOK, Steps, source, simulator
<1>3. GateInv'
  BY <1>1, BuildKeepsChecks DEF GoldInv, GateInv, GateHolds, FkHolds, DeliveredHolds
<1>4. \A d \in Days : \A r \in daily'[d] :
         \E i \in 1 .. pos["orders"] : i \in DOMAIN log /\ IsOrder(i) /\ r = log[i]
  <2>1. \A d \in Days : \A r \in daily[d] :
         \E i \in 1 .. pos["orders"] : i \in DOMAIN log /\ IsOrder(i) /\ r = log[i]
    BY DEF GoldInv, DailyInv, TypeOK, Tables
  <2>. QED
    BY <1>1, <2>1, RebuiltDates
<1>5. CountedOnce'
  <2>. SUFFICES ASSUME NEW d \in Days, NEW e \in Days, NEW r \in daily'[d], NEW s \in daily'[e], r.key = s.key
                PROVE  d = e /\ r = s
    BY DEF CountedOnce
  <2>1. r.created = d /\ s.created = e
    BY <1>2 DEF TypeOK
  <2>2. r.created = s.created
    BY <1>4 DEF LogInv, VersionInv
  <2>3. CASE New(d) # {}
    <3>1. r \in Touched /\ s \in Touched
      BY <1>1, <2>1, <2>2, <2>3
    <3>. QED
      BY <2>1, <2>2, <3>1, OneRow, RebuiltDates DEF TypeOK, Tables
  <2>4. CASE New(d) = {}
    BY <1>1, <2>1, <2>2, <2>4 DEF GoldInv, DailyInv, CountedOnce
  <2>. QED
    BY <2>3, <2>4
<1>6. DailyInv'
  BY <1>1, <1>4, <1>5 DEF DailyInv, IsOrder, source
<1>7. RecentAreCounted'
  <2>1. \A r \in Rows("orders", pos["orders"]) : r.updated + Lookback >= today => r \in Touched
    BY DEF Touched, Silver
  <2>2. \A r \in Rows("orders", pos["orders"]) : r.created \in Days
    <3>1. \A r \in Rows("orders", pos["orders"]) : r \in Change
      BY DEF Rows, ChangesOf, TypeOK, Tables
    <3>. QED
      BY <3>1 DEF Change
  <2>3. \A r \in Rows("orders", pos["orders"]) : r.updated + Lookback >= today => r \in daily'[r.created]
    BY <1>1, <2>1, <2>2
  <2>. QED
    BY <1>1, <2>3 DEF RecentAreCounted, Rows, ChangesOf, source
<1>. QED
  BY <1>1, <1>2, <1>3, <1>6, <1>7, LogStays DEF GoldInv

LEMMA OtherBuildNext == GoldInv /\ (BuildFulfillment \/ Test \/ Fail) => GoldInv'
<1>. SUFFICES ASSUME GoldInv, BuildFulfillment \/ Test \/ Fail PROVE GoldInv'
  OBVIOUS
<1>1. UNCHANGED <<source, pos, daily, results, checked, built>>
  BY DEF BuildFulfillment, Test, Fail, gold
<1>2. TypeOK'
  <2>1. DOMAIN fulfil' = Days /\ pc' \in Steps /\ failures' \in 0 .. MaxFailures
    BY SizeAssumption DEF GoldInv, TypeOK, BuildFulfillment, FulfilmentOf, Test, Fail, Steps, gold
  <2>. QED
    BY <1>1, <2>1 DEF GoldInv, TypeOK, source, simulator
<1>3. GateInv'
  BY <1>1, BuildKeepsChecks
  DEF GoldInv, BuildFulfillment, Test, Fail, GateInv, GateHolds, FkHolds, DeliveredHolds
<1>. QED
  BY <1>1, <1>2, <1>3, LogStays, BuildKeepsDaily DEF GoldInv

LEMMA StutterNext == GoldInv /\ UNCHANGED vars => GoldInv'
<1>. SUFFICES ASSUME GoldInv, UNCHANGED vars PROVE GoldInv'
  OBVIOUS
<1>1. TypeOK'
  BY DEF GoldInv, vars, source, simulator, gold, TypeOK
<1>2. GateInv'
  BY BuildKeepsChecks DEF GoldInv, vars, GateInv, GateHolds, FkHolds, DeliveredHolds
<1>. QED
  BY <1>1, <1>2, LogStays, BuildKeepsDaily DEF GoldInv, vars, gold

LEMMA GoldNext == GoldInv /\ [Next]_vars => GoldInv'
BY SourceNext, IngestNext, StartNext, CheckForeignKeysNext, CheckDeliveredNext, VerdictNext,
   BuildDailySalesNext, OtherBuildNext, StutterNext DEF Next, BuildStep

LEMMA GoldInvariant == Spec => []GoldInv
BY GoldInit, GoldNext, PTL DEF Spec

-----------------------------------------------------------------------------
(* Theorems.                                                               *)

\* The types of the log, the Gold tables and the gate's results, and the bounds
\* on them.
THEOREM TypeCorrect == Spec => []TypeOK
<1>1. GoldInv => TypeOK
  BY DEF GoldInv
<1>. QED
  BY <1>1, GoldInvariant, PTL

LEMMA LagOnly == GoldInv => OnlyLagFails
<1>. SUFFICES ASSUME GoldInv PROVE OnlyLagFails
  OBVIOUS
<1>. TypeOK /\ LogInv
  BY DEF GoldInv
<1>1. /\ \A t \in Tables : pos[t] \in 0 .. Len(log)
      /\ "orders" \in Tables /\ "customers" \in Tables /\ "shipments" \in Tables
      /\ DOMAIN log = 1 .. Len(log) /\ Len(log) \in Nat
  BY DEF TypeOK, Tables
<1>2. Orphans # {} => Behind("customers", "orders")
  <2>. SUFFICES ASSUME NEW o \in Orphans PROVE Behind("customers", "orders")
    OBVIOUS
  <2>1. PICK i \in 1 .. pos["orders"] : IsOrder(i) /\ log[i].key = o
    BY DEF Orphans, Keys, ChangesOf, IsOrder
  <2>2. PICK j \in 1 .. i - 1 : log[j].table = "customers" /\ log[j].key = CustomerOf[o]
    BY <1>1, <2>1 DEF LogInv, KeysInv
  <2>3. j \notin 1 .. pos["customers"]
    BY <2>2 DEF Orphans, Keys, ChangesOf
  <2>. QED
    BY <1>1, <2>2, <2>3 DEF Behind, ChangesOf
<1>3. Undelivered # {} => Behind("shipments", "orders")
  <2>. SUFFICES ASSUME NEW r \in Undelivered PROVE Behind("shipments", "orders")
    OBVIOUS
  <2>1. PICK i \in 1 .. pos["orders"] : IsOrder(i) /\ log[i] = r /\ r.status = "DELIVERED"
    BY DEF Undelivered, Delivered, Silver, Rows, ChangesOf, IsOrder
  <2>2. PICK j \in 1 .. i - 1 : IsShipment(j) /\ log[j].key = r.key
    BY <1>1, <2>1 DEF LogInv, DeliveryInv
  <2>3. j \notin 1 .. pos["shipments"]
    BY <2>2 DEF Undelivered, Keys, ChangesOf, IsShipment
  <2>. QED
    BY <1>1, <2>2, <2>3 DEF Behind, ChangesOf, IsShipment
<1>. QED
  BY <1>2, <1>3 DEF OnlyLagFails

\* The gate's foreign key and its check of the delivered orders fail only on lag,
\* whatever the lag of each table and whichever events stopped half way.
THEOREM ChecksFailOnlyOnLag == Spec => []OnlyLagFails
BY LagOnly, GoldInvariant, PTL

LEMMA TornOnly == GoldInv => OnlyTornAreCancelledAndDelivered
<1>. SUFFICES ASSUME GoldInv, NEW r \in CancelledAndDelivered, r.key \notin torn PROVE FALSE
  BY DEF OnlyTornAreCancelledAndDelivered
<1>. TypeOK /\ LogInv /\ EventInv
  BY DEF GoldInv
<1>1. /\ \A t \in Tables : pos[t] \in 0 .. Len(log)
      /\ "orders" \in Tables /\ "shipments" \in Tables
      /\ DOMAIN log = 1 .. Len(log) /\ Len(log) \in Nat
  BY DEF TypeOK, Tables
<1>2. PICK i \in DOMAIN log : IsOrder(i) /\ log[i] = r /\ r.status = "CANCELLED"
  BY <1>1 DEF CancelledAndDelivered, Silver, Rows, ChangesOf, IsOrder
<1>3. PICK j \in DOMAIN log : IsShipment(j) /\ log[j].key = r.key
  BY <1>1 DEF CancelledAndDelivered, Silver, Rows, ChangesOf, IsShipment
<1>4. r.key \in Orders \ torn
  BY <1>2 DEF LogInv, KeysInv, IsOrder
<1>5. r.key \in dispatched
  BY <1>3, <1>4 DEF EventInv, KnownInv
<1>. QED
  BY <1>2, <1>4, <1>5 DEF EventInv, MemoryInv

\* An order that Silver shows cancelled with a delivered shipment, however the two
\* tables lag, is one that an event of the simulator left half done.
THEOREM CancelledTestFindsTorn == Spec => []OnlyTornAreCancelledAndDelivered
BY TornOnly, GoldInvariant, PTL

\* What the gate passed still holds, of the orders it saw, when the builder and
\* the tests read Silver later.
THEOREM VerdictOutlivesGate == Spec => []GateHolds
<1>1. GoldInv => GateHolds
  BY DEF GoldInv, GateInv
<1>. QED
  BY <1>1, GoldInvariant, PTL

\* daily_sales counts each order that changed within the look-back, in the version
\* Silver showed.
THEOREM RecentOrdersCounted == Spec => []RecentAreCounted
<1>1. GoldInv => RecentAreCounted
  BY DEF GoldInv
<1>. QED
  BY <1>1, GoldInvariant, PTL

\* daily_sales counts no order in two versions or on two dates.
THEOREM OrdersCountedOnce == Spec => []CountedOnce
<1>1. GoldInv => CountedOnce
  BY DEF GoldInv, DailyInv
<1>. QED
  BY <1>1, GoldInvariant, PTL

\* A row that leaves daily_sales was replaced by a newer version, or is of an order
\* that has not changed within the look-back.
DropIsOld ==
    \A d \in Days : \A r \in daily[d] \ daily'[d] :
        \/ \E s \in daily'[d] : s.key = r.key
        \/ r.updated + Lookback < today

LEMMA DropsOld == GoldInv /\ [Next]_vars => DropIsOld
<1>. SUFFICES ASSUME GoldInv, [Next]_vars,
                     NEW d \in Days, NEW r \in daily[d], r \notin daily'[d]
              PROVE  \/ \E s \in daily'[d] : s.key = r.key
                     \/ r.updated + Lookback < today
  BY DEF DropIsOld
<1>. TypeOK /\ LogInv
  BY DEF GoldInv
<1>1. BuildDailySales
  BY DEF Next, vars, SourceStep, BuildStep, NewCustomer, NewOrder, CancelOrder, Dispatch,
         SettleShipment, UpdateOrder, EndEvent, Raise, Restart, NextDay, Commit, Ingest, Start, CheckForeignKeys, CheckDelivered, RunCheck,
         Verdict, BuildFulfillment, Test, Fail, gold
<1>2. daily'[d] = {s \in Touched : s.created = d}
  BY <1>1 DEF BuildDailySales
<1>3. PICK i \in 1 .. pos["orders"] : i \in DOMAIN log /\ IsOrder(i) /\ r = log[i]
  BY DEF GoldInv, DailyInv, TypeOK, Tables
<1>4. "orders" \in Tables /\ pos["orders"] \in 0 .. Len(log) /\ r.key \in Keys("orders", pos["orders"])
  BY <1>3 DEF TypeOK, Tables, Keys, ChangesOf, IsOrder
<1>5. PICK j \in ChangesOf("orders", pos["orders"]) :
          /\ log[j].key = r.key /\ log[j] \in Rows("orders", pos["orders"])
          /\ \A m \in ChangesOf("orders", pos["orders"]) : log[m].key = r.key => m <= j
  BY <1>4, LastChange
<1>6. i <= j /\ j \in DOMAIN log /\ IsOrder(j)
  BY <1>3, <1>4, <1>5 DEF ChangesOf, IsOrder, TypeOK
<1>7. log[j].created = d /\ r.updated <= log[j].updated
  BY <1>3, <1>5, <1>6 DEF LogInv, VersionInv, TimeInv, TypeOK
<1>8. CASE log[j] \in Touched
  BY <1>2, <1>5, <1>7, <1>8
<1>9. CASE log[j] \notin Touched
  <2>1. ~(log[j].updated + Lookback >= today)
    BY <1>5, <1>9 DEF Touched, Silver
  <2>2. r.updated \in Nat /\ log[j].updated \in Nat /\ today \in Nat /\ Lookback \in Nat
    <3>1. r \in Change /\ log[j] \in Change
      BY <1>3, <1>6 DEF TypeOK
    <3>. QED
      BY <3>1, SizeAssumption DEF Change, Days, TypeOK
  <2>. QED
    BY <1>7, <2>1, <2>2
<1>. QED
  BY <1>8, <1>9

\* daily_sales drops an order only for a newer version of it, or because the order
\* has not changed within the look-back.
THEOREM OnlyOldDropped == Spec => DropsOnlyOld
<1>1. GoldInv /\ [Next]_vars => [DropIsOld]_vars
  BY DropsOld
<1>. QED
  BY <1>1, GoldInvariant, PTL DEF Spec, DropsOnlyOld, DropIsOld
=============================================================================
