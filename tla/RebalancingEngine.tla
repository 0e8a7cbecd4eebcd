------------------------- MODULE RebalancingEngine --------------------------
(***************************************************************************)
(* domain/rebalancing_engine.py: what to reduce, what to buy with the cash  *)
(* there is, and what to leave alone.  A candidate has the fields of        *)
(* InflowAllocator and target_status, maximum_breached of AllocationEngine. *)
(***************************************************************************)
EXTENDS InflowAllocator

RebalancingActions == {"BUY", "REDUCE", "HOLD", "NO_CAPACITY", "NO_TARGET"}

\* _reduction_recommendation, in hundredths: down to the maximum.
RequiredReduction(c, whole) == Larger(100 * c.value - c.maximum * whole, 0)

\* The action of _buy_side_recommendation for a bucket handed amount.
BuySideAction(c, whole, amount) ==
    LET status == CapacityStatus(c, whole)
    IN  IF amount > 0 THEN "BUY"
        ELSE IF c.excluded THEN "HOLD"
        ELSE IF c.target = Absent THEN "NO_TARGET"
        ELSE IF ~c.allow THEN "HOLD"
        ELSE IF status \in {"AT_TARGET", "OVER_TARGET"} THEN "HOLD"
        ELSE "NO_CAPACITY"

\* Buckets in breach are taken out first and never compete for the cash.
Buyable_All(C) == DOMAIN C
Buyable(C) == {b \in DOMAIN C : ~C[b].maximum_breached}

\* calculate_rebalancing: a recommendation for each bucket.
Rebalancing(C, whole, cash) ==
    LET buyable == [b \in Buyable(C) |-> C[b]]
        handed  == Handed(buyable, whole, 100 * cash).to
    IN  [b \in DOMAIN C |->
            IF b \in DOMAIN buyable
            THEN [action |-> BuySideAction(C[b], whole, handed[b]),
                  amount |-> handed[b], status |-> C[b].target_status]
            ELSE [action |-> "REDUCE",
                  amount |-> RequiredReduction(C[b], whole), status |-> "MAXIMUM_BREACHED"]]
=============================================================================
