SPECIFICATION NotifySpec
CONSTANTS
    x = x
    y = y
    Sessions = {s1}
    Workers = {}
    Rules = {r1}
    Recommendations <- NoAdvice
    FlagSets <- OneAlert
    SharesSeen = {"within"}
    PricesSeen = {"fair", "target"}
    Edits = {}
    Modes = {"sync", "evaluate"}
    LostAnswers = FALSE
    MaxRows = 0
    MaxChanges = 2
    MaxCrashes = 0
INVARIANTS
    EdgesAreNotified
CHECK_DEADLOCK FALSE
