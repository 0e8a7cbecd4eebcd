-------------------------- MODULE AllocationEngine --------------------------
(***************************************************************************)
(* The statuses of domain/allocation_engine.py.                             *)
(*                                                                          *)
(* A rule of the strategy is a record of target, minimum, maximum (percent, *)
(* or Absent), allow, priority, active; a bucket without one is evaluated   *)
(* with the record NoRule.  A percentage 100 * value / whole is compared    *)
(* with a limit by cross-multiplication, so nothing is rounded.             *)
(***************************************************************************)
EXTENDS Integers

Absent == -1

NoRule == [target |-> Absent, minimum |-> Absent, maximum |-> Absent,
           allow |-> TRUE, priority |-> 0, active |-> FALSE]

\* The sign, and scaled by the whole the size, of how far value's share of
\* whole lies above percent.  calculate_actual_percent is 0 of an empty whole.
Excess(value, whole, percent) ==
    IF whole = 0 THEN -percent ELSE 100 * value - percent * whole

\* ON_TARGET_TOLERANCE_PERCENT is half a percent.
WithinTolerance(excess, whole) ==
    LET size == IF excess < 0 THEN -excess ELSE excess
    IN  2 * size <= (IF whole = 0 THEN 1 ELSE whole)

TargetStatus(value, whole, target) ==
    LET excess == Excess(value, whole, target)
    IN  IF target = Absent THEN "NO_TARGET"
        ELSE IF WithinTolerance(excess, whole) THEN "ON_TARGET"
        ELSE IF excess > 0 THEN "OVERWEIGHT" ELSE "UNDERWEIGHT"

BreachesMinimum(value, whole, minimum) ==
    minimum # Absent /\ Excess(value, whole, minimum) < 0

\* Reaching the maximum is already a breach of it.
BreachesMaximum(value, whole, maximum) ==
    maximum # Absent /\ Excess(value, whole, maximum) >= 0

\* evaluate_bucket_allocation.  A bucket kept out of the risk allocation has
\* no percentage to compare, so none of the limits applies to it.
EvaluateBucket(value, whole, excluded, rule) ==
    LET breached == ~excluded /\ BreachesMaximum(value, whole, rule.maximum)
    IN  [target_status    |-> IF excluded THEN "NO_TARGET"
                              ELSE TargetStatus(value, whole, rule.target),
         minimum_breached |-> ~excluded /\ BreachesMinimum(value, whole, rule.minimum),
         maximum_breached |-> breached,
         buy_allowed      |-> rule.allow /\ ~breached]
=============================================================================
