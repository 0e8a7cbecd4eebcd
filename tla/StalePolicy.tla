---------------------------- MODULE StalePolicy -----------------------------
(***************************************************************************)
(* domain/stale_policy.py: when a price is too old to be shown as live.     *)
(* Time is counted in ticks from the start of a Monday, DayTicks to a day;  *)
(* hours of a Saturday or Sunday do not age a price.                        *)
(***************************************************************************)
EXTENDS Integers, FiniteSets

CONSTANT DayTicks

ASSUME StaleAssumption == DayTicks \in Nat \ {0}

IsWeekend(tick) == (tick \div DayTicks) % 7 >= 5

\* The end of tick's day, or limit if that is earlier.
DayEnd(tick, limit) ==
    LET midnight == (tick \div DayTicks + 1) * DayTicks
    IN  IF midnight < limit THEN midnight ELSE limit

\* _weekend_seconds_between walks from day to day.
WeekendBetween_WholeDays(start, end) ==
    DayTicks * Cardinality({d \in start \div DayTicks .. end \div DayTicks : d % 7 >= 5})
WeekendBetween(start, end) ==
    LET walk[tick \in start .. end] ==
            IF tick = end THEN 0
            ELSE LET next == DayEnd(tick, end)
                 IN  (IF IsWeekend(tick) THEN next - tick ELSE 0) + walk[next]
    IN  IF end <= start THEN 0 ELSE walk[start]

AtLeastZero(n) == IF n < 0 THEN 0 ELSE n

\* classify_staleness_by_threshold; a price dated ahead of the clock has no age.
AdjustedAge(recorded_at, now) ==
    AtLeastZero(AtLeastZero(now - recorded_at) - WeekendBetween(recorded_at, now))

IsStale(recorded_at, now, threshold) == AdjustedAge(recorded_at, now) > threshold
=============================================================================
