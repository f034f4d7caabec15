\* The simulator with events that stop half way, kills and restarts.
CONSTANTS
    w1 = w1
    w2 = w2
    Warehouses <- MCWarehouses
    MaxOrderId = 2
    Seeded = 1
    MaxItems = 2
    OpenLimit = 1
    MaxStock = 1
    MaxFailures = 1
    MaxCrashes = 1
SPECIFICATION Spec
INVARIANTS
    TypeOK
    DamageIsConfined
    CreationBlockedOnlyByTorn
PROPERTIES
    ImplementsOrderMachine
    StockNeverVanishes
    OpenOrdersMoveOn
CHECK_DEADLOCK FALSE
