-------------------------- MODULE InflowAllocator ---------------------------
(***************************************************************************)
(* How new cash is spread over the buckets: domain/inflow_allocator.py, and *)
(* the rounding of services/inflow_service.py.                              *)
(*                                                                          *)
(* A candidate is a record of value, target, maximum, allow, priority, name *)
(* and excluded (it is the protected emergency bucket).  Amounts are whole  *)
(* hundredths of the unit values are counted in, so that a percentage of a  *)
(* value is a whole number of them.                                         *)
(***************************************************************************)
EXTENDS AllocationEngine, SequencesExt

Smaller(x, y) == IF x <= y THEN x ELSE y
Larger(x, y)  == IF x >= y THEN x ELSE y

Gap(c, whole) == c.target * whole - 100 * c.value

\* What may be added before the maximum; without one nothing but the gap
\* limits a purchase.
Headroom_None(c, whole) == Gap(c, whole)
Headroom(c, whole) ==
    IF c.maximum = Absent THEN Gap(c, whole) ELSE c.maximum * whole - 100 * c.value

\* capacity_and_status
CapacityStatus(c, whole) ==
    IF c.excluded THEN "EMERGENCY_EXCLUDED"
    ELSE IF whole <= 0 THEN "NO_CAPACITY"
    ELSE IF c.target = Absent THEN "NO_TARGET"
    ELSE IF ~c.allow THEN "BUY_DISABLED"
    ELSE IF Gap(c, whole) = 0 THEN "AT_TARGET"
    ELSE IF Gap(c, whole) < 0 THEN "OVER_TARGET"
    ELSE IF Headroom(c, whole) < Gap(c, whole) THEN "MAXIMUM_LIMIT"
    ELSE "TARGET_GAP"

Capacity(c, whole) ==
    IF CapacityStatus(c, whole) \in {"TARGET_GAP", "MAXIMUM_LIMIT"}
    THEN Larger(0, Smaller(Gap(c, whole), Headroom(c, whole)))
    ELSE 0

\* The order cash is handed out in: priority, then name.
Ahead_ByName(c, d) == c.name < d.name
Ahead(c, d) == \/ c.priority < d.priority
               \/ c.priority = d.priority /\ c.name < d.name

\* Bucket b gets what it can take of what is left.
Hand(C, whole, b, sofar) ==
    LET amount == Smaller(Capacity(C[b], whole), sofar.left)
    IN  [left |-> sofar.left - amount, to |-> [sofar.to EXCEPT ![b] = amount]]

\* The bucket of S that comes last.
LastOf(C, S) == CHOOSE b \in S : \A e \in S : ~Ahead(C[b], C[e])

Open(C, whole) == {b \in DOMAIN C : Capacity(C[b], whole) > 0}

\* calculate_inflow_allocation over the candidates C, a function from bucket
\* to candidate: what each bucket gets of cash.
Handed(C, whole, cash) ==
    MapThenFoldSet(LAMBDA b, sofar : Hand(C, whole, b, sofar),
                   [left |-> cash, to |-> [b \in DOMAIN C |-> 0]],
                   LAMBDA b : b, LAMBDA S : LastOf(C, S), Open(C, whole))

\* ROUND_HALF_UP of a non-negative amount to a whole unit.
Rounded(amount) == (amount + 50) \div 100

\* _round_allocated_amounts: each amount is the growth of the rounded running
\* total, in the order the cash was handed out.
RoundedRunning_Each(C, to) == [b \in DOMAIN C |-> Rounded(to[b])]
RoundedRunning(C, to) ==
    LET UpTo(b)   == {e \in DOMAIN C : e = b \/ Ahead(C[e], C[b])}
        Before(b) == UpTo(b) \ {b}
        Running(S) == Rounded(MapThenSumSet(LAMBDA e : to[e], S))
    IN  [b \in DOMAIN C |-> IF to[b] = 0 THEN 0 ELSE Running(UpTo(b)) - Running(Before(b))]
=============================================================================
