\* The gate, the tests and the tables that are built anew: one order, whose events
\* stop half way twice.
CONSTANTS
    o1 = o1
    o2 = o2
    c1 = c1
    Orders <- MCOneOrder
    Customers <- MCCustomers
    CustomerOf <- MCCustomerOf
    Lookback = 1
    MaxChanges = 6
    MaxDay = 0
    MaxStops = 2
    MaxFailures = 1
SPECIFICATION Spec
INVARIANTS
    OnlyLagFails
    OnlyTornAreCancelledAndDelivered
    GateHolds
PROPERTIES
    GoldCatchesUp
CHECK_DEADLOCK FALSE
