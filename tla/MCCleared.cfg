SPECIFICATION FairNotifySpec
CONSTANTS
    x = x
    y = y
    Sessions = {s1, w1}
    Workers = {w1}
    Rules = {r1}
    Recommendations <- NoAdvice
    FlagSets <- OneAlert
    SharesSeen = {"within"}
    PricesSeen = {"fair", "target"}
    Edits = {}
    Modes = {"sync"}
    LostAnswers = FALSE
    MaxRows = 0
    MaxChanges = 2
    MaxCrashes = 0
PROPERTIES
    ClearedIsResolved
CHECK_DEADLOCK FALSE
