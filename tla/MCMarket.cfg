SPECIFICATION MarketSpec
CONSTANTS
    stock = stock
    fund = fund
    Assets = {stock, fund}
    Currencies = {"EGP", "USD"}
    Base = "EGP"
    Jobs = {1}
    Users = {u1, u2}
    Configs <- Configs1
    Beginnings <- Beginnings1
    Kinds = {"config", "manual", "delete", "currency", "trade", "watch", "rate"}
    Lags <- Lags1
    QuotedIn <- QuotedIn1
    FxThreshold = 0
    DayTicks = 2
    Moments = {9, 10, 14}
    MaxChanges = 3
SYMMETRY Alike
INVARIANTS
    MarketTypeOK
    LiveMeansFresh
    
    HistoryKeepsItsAsset
    RunCoversAll
PROPERTIES
    StaleStaysStale
    AgeingKeepsValue
CHECK_DEADLOCK FALSE
