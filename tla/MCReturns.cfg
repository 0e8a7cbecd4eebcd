SPECIFICATION HistorySpec
CONSTANTS
    cash = cash
    stock = stock
    Sessions = {s1}
    Assets = {cash}
    CashAssets = {cash}
    Retirable = {}
    Requests <- FlowsOnly
    Dates <- Midnights
    MaxClock = 3
    Free = Free
    Workers = {w1}
    MaxDay = 1
    Punctual = TRUE
    Undefined = Undefined
INVARIANTS
    CashFlowIsNoReturn
CHECK_DEADLOCK FALSE
