SPECIFICATION LedgerSpec
CONSTANTS
    cash = cash
    savings = savings
    stock = stock
    Sessions = {s1, s2}
    Assets = {cash, stock}
    CashAssets = {cash}
    Retirable = {}
    Requests <- MixedRequests
    Dates <- OneDay
    MaxClock = 3
    Free = Free
INVARIANTS
    ReplayFollowsLivePath
CHECK_DEADLOCK FALSE
