SPECIFICATION LiveSpec
CONSTANTS
    e1 = e1
    e2 = e2
    e3 = e3
    c1 = c1
    c2 = c2
    h1 = h1
    h2 = h2
    h3 = h3
    Events = {e1, e2, e3}
    Conns = {c1, c2}
    Hashes = {h1, h2, h3}
    ConnOf <- ThirdApart
    HashOf <- OwnHash
    AmountOf <- UnitPrice
    SubDust = {h1, h2}
    Budget <- BudgetOne
    Daily = {}
    MaxFee = 0
    MaxDay = 0
    Faults = {"crash", "error"}
INVARIANTS
    CounterCoversSubDust
PROPERTIES
    SwapRowResolves
CHECK_DEADLOCK FALSE
