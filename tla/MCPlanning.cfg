SPECIFICATION PlanSpec
CONSTANTS
    s = s
    t = t
    k = k
    e = e
    none = none
    a1 = a1
    a2 = a2
    Assets = {s, t, k, e}
    CashAssets = {k, e}
    ForeignAssets = {t}
    NoAsset = none
    Levels = {5, 8}
    Beginnings <- Beginnings1
    MaxChanges = 2
    Buckets = {1, 2, 3}
    Names = {1, 2, 3, 4}
    Admins = {a1, a2}
    NewRules <- NewRules1
    Requests <- Requests1
SYMMETRY Symmetry
INVARIANTS
    PlanningTypeOK
    RulesStayWellFormed
    BuysStayWithinLimits
    AdviceSettles
    HealthyMeansOnTarget
    AdviceFitsDistribution
    ValidStrategyUsesAllCash
    SplitIsByPriority
    RoundedSumsAgree
    SharesWithinWhole
PROPERTIES
    NoLostUpdate
CHECK_DEADLOCK FALSE
