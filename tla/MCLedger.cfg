SPECIFICATION FairLedgerSpec
CONSTANTS
    cash = cash
    savings = savings
    stock = stock
    Sessions = {s1, s2, s3}
    Assets = {cash, stock}
    CashAssets = {cash}
    Retirable = {stock}
    Requests <- MixedRequests
    Dates <- OneDay
    MaxClock = 3
    Free = Free
INVARIANTS
    LedgerTypeOK
    HoldingsAreDerived
    CashFlowHasSnapshot
    ReadStaysTrue
    SnapshotsAreCuts
PROPERTIES
    ImplementsAtomicLedger
    EveryRequestEnds
CHECK_DEADLOCK FALSE
