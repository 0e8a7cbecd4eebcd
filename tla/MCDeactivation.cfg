SPECIFICATION LedgerSpec
CONSTANTS
    cash = cash
    savings = savings
    stock = stock
    Sessions = {s1}
    Assets = {cash, savings}
    CashAssets = {cash, savings}
    Retirable = {savings}
    Requests <- TwoAccounts
    Dates <- OneDay
    MaxClock = 3
    Free = Free
INVARIANTS
    DeactivationKeepsValue
CHECK_DEADLOCK FALSE
