\* The builder over days that pass: two orders, incremental runs, a builder that
\* dies.
CONSTANTS
    o1 = o1
    o2 = o2
    c1 = c1
    Orders <- MCOrders
    Customers <- MCCustomers
    CustomerOf <- MCCustomerOf
    Lookback = 1
    MaxChanges = 4
    MaxDay = 2
    MaxStops = 0
    MaxFailures = 1
SYMMETRY MCOrderSymmetry
SPECIFICATION Spec
INVARIANTS
    TypeOK
    RecentAreCounted
    CountedOnce
PROPERTIES
    DropsOnlyOld
CHECK_DEADLOCK FALSE
