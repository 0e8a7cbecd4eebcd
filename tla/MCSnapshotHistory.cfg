SPECIFICATION HistorySpec
CONSTANTS
    cash = cash
    stock = stock
    Sessions = {s1, s2}
    Assets = {cash, stock}
    CashAssets = {cash}
    Retirable = {stock}
    Requests <- FlowsAndTrade
    Dates <- Midnights
    MaxClock = 3
    Free = Free
    Workers = {w1, w2}
    MaxDay = 1
    Punctual = FALSE
    Undefined = Undefined
SYMMETRY Alike
INVARIANTS
    HistoryTypeOK
    OneEodPerDay
    SuccessLeavesEod
    SnapshotsAreCuts
    GainsAreTrades
CHECK_DEADLOCK FALSE
