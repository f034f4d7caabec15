\* An incremental run of daily_sales and the orders it does not recompute.
CONSTANTS
    o1 = o1
    o2 = o2
    c1 = c1
    Orders <- MCOrders
    Customers <- MCCustomers
    CustomerOf <- MCCustomerOf
    Lookback = 1
    MaxChanges = 4
    MaxDay = 2
    MaxStops = 0
    MaxFailures = 0
SPECIFICATION Spec
PROPERTY UntouchedHistoryStays
CHECK_DEADLOCK FALSE
