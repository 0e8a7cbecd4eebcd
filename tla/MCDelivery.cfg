SPECIFICATION FairNotifySpec
CONSTANTS
    x = x
    y = y
    Sessions = {w1}
    Workers = {w1}
    Rules = {r1}
    Recommendations <- NoAdvice
    FlagSets <- AnyOne
    SharesSeen = {"within", "watched"}
    PricesSeen = {"none", "dip", "fair", "target"}
    Edits = {"telegram", "delete", "switch"}
    Modes = {}
    LostAnswers = TRUE
    MaxRows = 3
    MaxChanges = 3
    MaxCrashes = 1
INVARIANTS
    NotifyTypeOK
    LatchIsMirrored
    SentWasPosted
PROPERTIES
    WantedIsDelivered
CHECK_DEADLOCK FALSE
