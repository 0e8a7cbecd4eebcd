----------------------- MODULE RecommendationEngine -------------------------
(***************************************************************************)
(* domain/recommendation_engine.py: the cards shown to the user, made from  *)
(* the answer of RebalancingEngine and nothing else.                        *)
(***************************************************************************)
EXTENDS RebalancingEngine

RecommendationTypes == <<"BREACH_RESOLUTION", "RESTRICTED_ACTION", "CASH_DEPLOYMENT",
                         "REBALANCING_OPPORTUNITY", "PORTFOLIO_HEALTHY">>

Tier(type) == CHOOSE i \in DOMAIN RecommendationTypes : RecommendationTypes[i] = type

\* _one_recommendation, for candidate c and the recommendation r made of it;
\* "none" where no card is made.
CardType_OnlyWithCash(c, r) ==
    IF r.action = "REDUCE" THEN "BREACH_RESOLUTION"
    ELSE IF c.excluded \/ r.action \in {"NO_TARGET", "NO_CAPACITY"} THEN "none"
    ELSE IF r.action = "BUY" THEN "CASH_DEPLOYMENT"
    ELSE IF r.status = "OVERWEIGHT" THEN "REBALANCING_OPPORTUNITY"
    ELSE "none"
CardType(c, r) ==
    IF r.action = "REDUCE" THEN "BREACH_RESOLUTION"
    ELSE IF c.excluded \/ r.action = "NO_TARGET" THEN "none"
    ELSE IF r.action = "BUY" THEN "CASH_DEPLOYMENT"
    ELSE IF r.action = "NO_CAPACITY" THEN "RESTRICTED_ACTION"
    ELSE IF r.status = "ON_TARGET" THEN "none"
    ELSE IF ~c.allow THEN "RESTRICTED_ACTION"
    ELSE IF r.status = "OVERWEIGHT" THEN "REBALANCING_OPPORTUNITY"
    ELSE "none"

\* The card of bucket b; its amount is the one rebalancing gave.
Card(C, R, b) == [type |-> CardType(C[b], R[b]), bucket |-> b, amount |-> R[b].amount]

Healthy == [type |-> "PORTFOLIO_HEALTHY", bucket |-> Absent, amount |-> 0]

\* The elements of S, in the order in which they come before one another.
Sorted(S, Before(_, _)) ==
    [i \in 1 .. Cardinality(S) |-> CHOOSE x \in S : Cardinality({y \in S : Before(y, x)}) = i - 1]

\* build_recommendations: tier, then the bucket's priority, then its name.
Recommendations(C, R) ==
    LET cards == {Card(C, R, b) : b \in {e \in DOMAIN C : CardType(C[e], R[e]) # "none"}}
        First(x, y) == \/ Tier(x.type) < Tier(y.type)
                       \/ Tier(x.type) = Tier(y.type) /\ Ahead(C[x.bucket], C[y.bucket])
    IN  IF cards = {} THEN <<Healthy>> ELSE Sorted(cards, First)
=============================================================================
