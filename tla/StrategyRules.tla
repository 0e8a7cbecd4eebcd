--------------------------- MODULE StrategyRules ----------------------------
(***************************************************************************)
(* domain/strategy_validation.py: whether the active allocation rules form  *)
(* a strategy.  A rule is a record as in AllocationEngine; rules is a       *)
(* function from the buckets that have an active one.                       *)
(***************************************************************************)
EXTENDS AllocationEngine, FiniteSetsExt

Limits == {"target", "minimum", "maximum"}

OutOfRange(rule) == \E f \in Limits : rule[f] # Absent /\ rule[f] \notin 0 .. 100
Crossed(rule) == /\ rule.minimum # Absent /\ rule.maximum # Absent
                 /\ rule.minimum > rule.maximum

TargetRows(rules) == {b \in DOMAIN rules : rules[b].target # Absent}
TargetTotal(rules) == MapThenSumSet(LAMBDA b : rules[b].target, TargetRows(rules))

\* validate_strategy of the rules of the buckets that are not excluded.  The
\* tolerance of a hundredth of a percent is 0 between whole percentages.
StrategyStatus_NotOver(rules) == IF TargetTotal(rules) <= 100 THEN "VALID" ELSE "OVERALLOCATED"
StrategyStatus(rules) ==
    IF \E b \in DOMAIN rules : Crossed(rules[b]) THEN "INVALID_MIN_MAX"
    ELSE IF \E b \in DOMAIN rules : OutOfRange(rules[b]) THEN "INVALID_TARGET"
    ELSE IF DOMAIN rules = {} THEN "EMPTY"
    ELSE IF TargetTotal(rules) = 100 THEN "VALID"
    ELSE IF TargetTotal(rules) < 100 THEN "INCOMPLETE"
    ELSE "OVERALLOCATED"
=============================================================================
