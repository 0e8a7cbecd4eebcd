SPECIFICATION FairNotifySpec
CONSTANTS
    x = x
    y = y
    Sessions = {s1, w1}
    Workers = {w1}
    Rules = {}
    Recommendations <- TwoAdvices
    FlagSets <- OneAlert
    SharesSeen = {"within"}
    PricesSeen = {"fair"}
    Edits = {}
    Modes = {"sync"}
    LostAnswers = FALSE
    MaxRows = 0
    MaxChanges = 2
    MaxCrashes = 0
INVARIANTS
    OneActivePerSource
PROPERTIES
    EverySyncEnds
    RecommendationsConverge
CHECK_DEADLOCK FALSE
