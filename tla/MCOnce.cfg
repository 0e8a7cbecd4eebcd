SPECIFICATION NotifySpec
CONSTANTS
    x = x
    y = y
    Sessions = {w1, w2}
    Workers = {w1, w2}
    Rules = {r1}
    Recommendations <- NoAdvice
    FlagSets <- OneAlert
    SharesSeen = {"within"}
    PricesSeen = {"fair", "target"}
    Edits = {}
    Modes = {}
    LostAnswers = FALSE
    MaxRows = 0
    MaxChanges = 2
    MaxCrashes = 0
INVARIANTS
    SentAtMostOnce
CHECK_DEADLOCK FALSE
