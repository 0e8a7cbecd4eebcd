----------------------------- MODULE Valuation ------------------------------
(***************************************************************************)
(* What a portfolio is worth: services/portfolio_shared.py and              *)
(* domain/portfolio_engine.py.                                              *)
(*                                                                          *)
(* A holding is a record                                                    *)
(*     held     its quantity is not 0                                       *)
(*     worth    quantity * the latest price, in the base currency           *)
(*     book     quantity * average cost, in the asset's own currency        *)
(*     quote    the latest price's status                                   *)
(*     foreign  the asset's currency is not the portfolio's                 *)
(* and a position, made from it, a record                                   *)
(*     value      Unpriced when the holding cannot be valued                *)
(*     live       the value is one at a current market price                *)
(*     bucket, cash, emergency                                              *)
(* Money is a whole number of the smallest unit an answer shows.            *)
(***************************************************************************)
EXTENDS Integers, FiniteSetsExt

Unpriced == -1

Quotes == {"CURRENT", "LAST_KNOWN", "UNAVAILABLE"}

Usable_LiveOnly(quote) == quote = "CURRENT"
Usable(quote) == quote \in {"CURRENT", "LAST_KNOWN"}

\* resolve_valuation_price: the price, then the average cost if it is in the
\* right currency, then nothing.
CostStandsIn(h) == ~h.foreign /\ h.book > 0

\* A quantity of 0 is worth 0 whatever the price.
ValueOf(h) ==
    IF ~h.held THEN 0
    ELSE IF Usable(h.quote) THEN h.worth
    ELSE IF CostStandsIn(h) THEN h.book
    ELSE Unpriced

Position(h, bucket, cash, emergency) ==
    [value |-> ValueOf(h), live |-> h.quote = "CURRENT",
     bucket |-> bucket, cash |-> cash, emergency |-> emergency]

\* The value of the priced positions of P whose assets are in S.
ValueIn(P, S) == MapThenSumSet(LAMBDA a : P[a].value, {a \in S : P[a].value # Unpriced})

UnpricedIn(P) == {a \in DOMAIN P : P[a].value = Unpriced}

\* calculate_portfolio_totals
Cash_WithEmergency(P) == ValueIn(P, {a \in DOMAIN P : P[a].cash})
Cash(P) == ValueIn(P, {a \in DOMAIN P : P[a].cash /\ ~P[a].emergency})
Investable(P) == ValueIn(P, {a \in DOMAIN P : ~P[a].emergency})
Total(P) == ValueIn(P, DOMAIN P)
Denominator_Investable(P, emergency_excluded) == Investable(P)
Denominator(P, emergency_excluded) == IF emergency_excluded THEN Investable(P) ELSE Total(P)
IsComplete(P) == UnpricedIn(P) = {}

\* calculate_holding_pnl, and what get_portfolio_summary shows of it: only a
\* live price makes a profit or a loss.  The book value is in the asset's own
\* currency, the value is in the portfolio's.
ShownProfit(h, p) == IF p.live THEN p.value - h.book ELSE 0

\* calculate_portfolio_pnl_totals, of the holdings H valued as P
ProfitIn(H, P, S) == MapThenSumSet(LAMBDA a : ShownProfit(H[a], P[a]), S)
TotalProfit(H, P) == ProfitIn(H, P, DOMAIN P)

\* calculate_bucket_value
BucketValue(P, b) == ValueIn(P, {a \in DOMAIN P : P[a].bucket = b})
=============================================================================
