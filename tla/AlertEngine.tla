---------------------------- MODULE AlertEngine -----------------------------
(***************************************************************************)
(* The checks of domain/alert_engine.py and what services/alert_service.py  *)
(* makes of them for one rule.                                              *)
(*                                                                          *)
(* A rule is a record                                                       *)
(*     exists    it has not been deleted                                    *)
(*     listed    its watchlist entry is enabled and its asset active        *)
(*     enabled   the rule's own switch                                      *)
(*     flags     which of its alerts are on                                 *)
(*     telegram  its Telegram opt-in                                        *)
(*     latch     last_triggered_at is set                                   *)
(* Numbers are compared with a rule's thresholds and nothing else, so a     *)
(* price and a bucket's share are levels relative to these.                 *)
(***************************************************************************)
EXTENDS SequencesExt

AllocationKinds == {"ALLOCATION_BREACH", "REBALANCE_SUGGESTED"}
PriceKinds      == {"PRICE_TARGET", "DIP_BUY"}
Kinds           == AllocationKinds \cup PriceKinds

Flags == {"allocation", "price_target", "dip_buy"}

Rule == [exists : BOOLEAN, listed : BOOLEAN, enabled : BOOLEAN, flags : SUBSET Flags,
         telegram : BOOLEAN, latch : BOOLEAN]

\* The asset has no bucket; its bucket is the excluded emergency one; the
\* bucket is below both limits, over the rule's own limit only, over the
\* strategy's only, over both.
Shares == {"none", "excluded", "within", "watched", "overweight", "breached"}

\* Nobody ever recorded a price; a price down at the dip level, between the
\* two thresholds, up at the target.
Prices == {"none", "dip", "fair", "target"}

\* Levels at which a check has an input at all, and at which its condition is
\* met.
Defined(kind, share, price) ==
    CASE kind = "ALLOCATION_BREACH"   -> share \notin {"none", "excluded"}
      [] kind = "REBALANCE_SUGGESTED" -> share # "none"
      [] kind \in PriceKinds          -> price # "none"

Met(kind, share, price) ==
    CASE kind = "ALLOCATION_BREACH"   -> share \in {"watched", "breached"}
      [] kind = "REBALANCE_SUGGESTED" -> share \in {"overweight", "breached"}
      [] kind = "PRICE_TARGET"        -> price = "target"
      [] kind = "DIP_BUY"             -> price = "dip"

\* The checks a rule has performed, in order.
Checks(rule) ==
    (IF "allocation" \in rule.flags THEN <<"ALLOCATION_BREACH", "REBALANCE_SUGGESTED">> ELSE <<>>)
    \o (IF "price_target" \in rule.flags THEN <<"PRICE_TARGET">> ELSE <<>>)
    \o (IF "dip_buy" \in rule.flags THEN <<"DIP_BUY">> ELSE <<>>)

Evaluated(rule) == rule.exists /\ rule.listed /\ rule.enabled

\* A check fires when its condition is met and the rule was not latched, and
\* clears when it is seen unmet and the rule was.
Fires(kind, rule, share, price)  == Met(kind, share, price) /\ ~rule.latch
Clears_Never(kind, rule, share, price) == FALSE
Clears(kind, rule, share, price) ==
    Defined(kind, share, price) /\ ~Met(kind, share, price) /\ rule.latch

\* The rule's one latch follows whether any of its checks is met.
LatchAfter(rule, share, price) == \E kind \in ToSet(Checks(rule)) : Met(kind, share, price)
=============================================================================
