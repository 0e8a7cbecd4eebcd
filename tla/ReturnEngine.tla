---------------------------- MODULE ReturnEngine ----------------------------
(***************************************************************************)
(* The time-weighted return of domain/twr_engine.py, and the points it is   *)
(* fed by services/portfolio_analytics_service.py.                          *)
(*                                                                          *)
(* An observation is a snapshot reduced to [value, invested].  A growth is  *)
(* one plus a return, as a fraction [num, den] that is not reduced; it is   *)
(* Undefined where the code has None.                                       *)
(***************************************************************************)
EXTENDS Integers, Sequences

CONSTANT Undefined

One == [num |-> 1, den |-> 1]

\* a/b = c/d
SameGrowth(g, h) == g.num * h.den = h.num * g.den

\* The flow at a point is what the cumulative capital changed by since the
\* point before.
Flow_WholeCapital(observations, i) == observations[i].invested
Flow(observations, i) ==
    IF i = 1 THEN 0 ELSE observations[i].invested - observations[i - 1].invested

Points(observations) ==
    [i \in DOMAIN observations |->
        [value |-> observations[i].value, flow |-> Flow(observations, i)]]

\* The value just before the flow of the point landed.
PreFlowValue(point) == point.value - point.flow

\* Growth over the period that ends at point i > 1, from the previous point's
\* value.  From nothing only nothing grows.
PeriodGrowth(points, i) ==
    LET baseline == points[i - 1].value
        ending   == PreFlowValue(points[i])
    IN  IF baseline # 0 THEN [num |-> ending, den |-> baseline]
        ELSE IF ending = 0 THEN One ELSE Undefined

\* The chain of these growths at each point.  An undefined period makes every
\* later point undefined.
CumulativeGrowth(points) ==
    LET chain[i \in DOMAIN points] ==
            IF i = 1 THEN One
            ELSE LET before == chain[i - 1]
                     period == PeriodGrowth(points, i)
                 IN  IF Undefined \in {before, period} THEN Undefined
                     ELSE [num |-> before.num * period.num, den |-> before.den * period.den]
    IN  chain
=============================================================================
