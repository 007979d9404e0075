SPECIFICATION Spec
CONSTANTS
    e1 = e1
    e2 = e2
    e3 = e3
    c1 = c1
    c2 = c2
    h1 = h1
    h2 = h2
    h3 = h3
    Events = {e1, e2, e3}
    Conns = {c1}
    Hashes = {h1, h2}
    ConnOf <- OneConn
    HashOf <- TwinFirst
    AmountOf <- UnitPrice
    SubDust = {h2}
    Budget <- BudgetOne
    Daily = {c1}
    MaxFee = 1
    MaxDay = 1
    Faults = {"crash"}
INVARIANTS
    SettledWasPaid
    OneFundedSwap
    BudgetHolds
PROPERTIES
    PaidIsNotRefunded
CHECK_DEADLOCK FALSE
