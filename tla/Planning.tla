------------------------------ MODULE Planning ------------------------------
(***************************************************************************)
(* A user who asks for rebalancing advice and follows it, while prices and  *)
(* the strategy move: services/rebalancing_service.py and                   *)
(* services/recommendation_service.py over the engines, composed with       *)
(* StrategyAdmin and the settings of assets and of the portfolio.           *)
(*                                                                          *)
(* An answer is put together by several statements, and each sees what is   *)
(* committed when it runs; ReadConfig, ReadPositions, ReadBuckets and       *)
(* Answer are its parts.  Quantities read before a price moves and the      *)
(* price read after it are one ReadPositions: worth is their product and    *)
(* moves freely.                                                            *)
(***************************************************************************)
EXTENDS StrategyAdmin, Valuation, RecommendationEngine

CONSTANTS
    Assets, CashAssets, ForeignAssets, NoAsset,
    Levels,         \* what a holding may be worth
    Beginnings,     \* initial [worth, home, config, bucket, rule]
    MaxChanges      \* bound: how often the world changes

VARIABLES
    holding,    \* per asset [worth, book, quote]
    listed,     \* the active assets
    home,       \* the strategy bucket of each asset, or Absent
    config,     \* [emergency, excluded] of the portfolio
    reading,    \* the request being answered: what it has read so far
    advice,     \* the last answer, and what is left of it to follow
    quiet,      \* since advice was asked for, nothing happened but following it
    rounds,     \* answers in a row followed to the end in a quiet world
    changes

worldVars == <<holding, listed, home, config>>
askVars   == <<reading, advice, rounds>>
planVars  == <<adminVars, worldVars, askVars, quiet, changes>>

ASSUME PlanningAssumption ==
    /\ CashAssets \subseteq Assets /\ ForeignAssets \subseteq Assets
    /\ NoAsset \notin Assets
    /\ IsFiniteSet(Assets)
    /\ Levels \subseteq Nat
    /\ \A start \in Beginnings :
           /\ start.worth \in [Assets -> Nat]
           /\ start.home \in [Assets -> Buckets \cup {Absent}]
           /\ start.config \in [emergency : Assets \cup {NoAsset}, excluded : BOOLEAN]
           /\ DOMAIN start.bucket \subseteq Buckets /\ DOMAIN start.rule \subseteq DOMAIN start.bucket
           /\ \A b \in DOMAIN start.bucket : start.bucket[b] \in [name : Names, active : BOOLEAN]
           /\ \A b, e \in DOMAIN start.bucket : start.bucket[b].name = start.bucket[e].name => b = e
           /\ \A b \in DOMAIN start.rule : /\ start.rule[b] \in Rules
                                          /\ ~Crossed(start.rule[b]) /\ ~OutOfRange(start.rule[b])
    /\ MaxChanges \in Nat

NotAsked == [at |-> "config"]
NoAdvice == [candidates |-> <<>>, strategy |-> "EMPTY", whole |-> 0, cash |-> 0, answer |-> <<>>, left |-> <<>>, round |-> 0]

PlanInit ==
    \E start \in Beginnings :
        /\ holding = [a \in Assets |-> [worth |-> start.worth[a], book |-> start.worth[a],
                                        quote |-> "CURRENT"]]
        /\ listed = Assets
        /\ home = start.home
        /\ config = start.config
        /\ bucket = start.bucket
        /\ rule = start.rule
        /\ patch = [s \in Admins |-> Idle]
        /\ reading = NotAsked
        /\ advice = NoAdvice
        /\ quiet = FALSE
        /\ rounds = 0
        /\ changes = 0

----------------------------------------------------------------------------
(* The world                                                                *)

\* The bound: a PATCH costs one, anything else two.
Change == /\ changes + 2 <= MaxChanges
          /\ changes' = changes + 2
          /\ quiet' = FALSE

\* A price is recorded, goes stale or cannot be converted.
MarketMoves(a, worth, quote) ==
    /\ holding[a].worth > 0 /\ worth > 0
    /\ holding' = [holding EXCEPT ![a].worth = worth, ![a].quote = quote]
    /\ Change
    /\ UNCHANGED <<adminVars, listed, home, config, askVars>>

\* update_asset, activate_asset and deactivate_asset
AssignBucket(a, b) ==
    /\ home' = [home EXCEPT ![a] = b]
    /\ Change
    /\ UNCHANGED <<adminVars, holding, listed, config, askVars>>

SwitchAsset(a) ==
    /\ listed' = IF a \in listed THEN listed \ {a} ELSE listed \cup {a}
    /\ Change
    /\ UNCHANGED <<adminVars, holding, home, config, askVars>>

\* update_config
UpdateConfig(emergency, excluded) ==
    /\ config' = [emergency |-> emergency, excluded |-> excluded]
    /\ config' # config
    /\ Change
    /\ UNCHANGED <<adminVars, holding, listed, home, askVars>>

EditStrategy ==
    /\ \/ \E b \in Buckets, n \in Names : CreateBucket(b, n) \/ RenameBucket(b, n)
       \/ \E b \in Buckets : SwitchBucket(b)
       \/ \E b \in Buckets, new \in NewRules : CreateTarget(b, new)
    /\ Change
    /\ UNCHANGED <<worldVars, askVars>>

BeginPatch ==
    /\ changes < MaxChanges
    /\ changes' = changes + 1
    /\ \E s \in Admins, b \in Buckets, request \in Requests : ReadTarget(s, b, request)
    /\ UNCHANGED <<worldVars, askVars, quiet>>

EndPatch ==
    /\ \E s \in Admins : CommitTarget(s)
    /\ quiet' = FALSE
    /\ UNCHANGED <<worldVars, askVars, changes>>

----------------------------------------------------------------------------
(* An answer                                                                *)

\* build_positions
Positions(cfg) ==
    [a \in listed |->
        Position([held |-> holding[a].worth > 0, worth |-> holding[a].worth,
                  book |-> holding[a].book, quote |-> holding[a].quote,
                  foreign |-> a \in ForeignAssets],
                 home[a], a \in CashAssets, a = cfg.emergency)]

\* find_emergency_bucket_id looks for the emergency asset among the positions.
EmergencyBucket(cfg, P) == IF cfg.emergency \in DOMAIN P THEN P[cfg.emergency].bucket ELSE Absent
Excluded(cfg, P, b) == cfg.excluded /\ b = EmergencyBucket(cfg, P)

\* get_portfolio_allocation: the statuses of bucket b, under its rule r.
Distribution(cfg, P, b, r) ==
    EvaluateBucket(BucketValue(P, b), Denominator(P, cfg.excluded), Excluded(cfg, P, b), r)

\* load_rebalancing_result: what the engines are told of bucket b.
Candidate(cfg, P, b, name, r) ==
    LET status == Distribution(cfg, P, b, r)
    IN  [value |-> BucketValue(P, b), target |-> r.target, maximum |-> r.maximum, allow |-> r.allow,
         priority |-> r.priority, name |-> name, excluded |-> Excluded(cfg, P, b),
         target_status |-> status.target_status, maximum_breached |-> status.maximum_breached,
         buy_allowed |-> status.buy_allowed]

Candidates(cfg, P, names, rules) ==
    [b \in DOMAIN names |->
        Candidate(cfg, P, b, names[b], IF b \in DOMAIN rules THEN rules[b] ELSE NoRule)]

\* get_strategy_validation: the rules of the buckets that take part.
StrategySeen(cfg, P, rules) ==
    StrategyStatus([b \in {e \in DOMAIN rules : ~Excluded(cfg, P, e)} |-> rules[b]])

\* get_inflow_allocation: how new cash would be spread, as it is shown.
InflowAnswer(C, whole, cash) ==
    LET handed    == Handed(C, whole, 100 * cash)
        allocated == Rounded(100 * cash - handed.left)
    IN  [allocated |-> allocated, unallocated |-> cash - allocated,
         amounts |-> RoundedRunning(C, handed.to)]

Tradable(a) == a \in listed /\ holding[a].quote = "CURRENT"
Payers == {k \in CashAssets : Tradable(k) /\ k # config.emergency}
Targets(b) == {a \in Assets \ CashAssets : Tradable(a) /\ home[a] = b}

Spendable == {k \in Payers : holding[k].worth > 0}
Sellable(b) == {a \in Targets(b) : holding[a].worth > 0}

\* Nothing is left of the last answer that the user could still do.
FollowedToTheEnd ==
    \A b \in DOMAIN advice.left :
        advice.left[b] > 0 =>
            IF advice.answer[b].action = "REDUCE"
            THEN Sellable(b) = {} \/ Payers = {}
            ELSE Spendable = {} \/ Targets(b) = {}

ReadConfig ==
    /\ reading = NotAsked
    /\ reading' = [at |-> "positions", config |-> config]
    /\ rounds' = IF quiet /\ FollowedToTheEnd THEN Smaller(rounds + 1, 2) ELSE 0
    /\ quiet' = TRUE
    /\ UNCHANGED <<adminVars, worldVars, advice, changes>>

ReadPositions ==
    /\ reading.at = "positions"
    /\ reading' = [at |-> "buckets", config |-> reading.config, positions |-> Positions(reading.config)]
    /\ UNCHANGED <<adminVars, worldVars, advice, quiet, rounds, changes>>

ReadBuckets ==
    /\ reading.at = "buckets"
    /\ reading' = [at |-> "targets", config |-> reading.config, positions |-> reading.positions,
                   names |-> [b \in ActiveBuckets |-> bucket[b].name]]
    /\ UNCHANGED <<adminVars, worldVars, advice, quiet, rounds, changes>>

\* get_rebalancing_recommendations; an amount is rounded when it is shown.
\* strategy is what the strategy page says of the same rules.
Answer ==
    /\ reading.at = "targets"
    /\ LET P     == reading.positions
           whole == Denominator(P, reading.config.excluded)
           rules == RulesOf(DOMAIN reading.names, rule)
           C     == Candidates(reading.config, P, reading.names, rules)
           R     == Rebalancing(C, whole, Cash(P))
       IN  advice' = [candidates |-> C, strategy |-> StrategySeen(reading.config, P, rules),
                      whole |-> whole, cash |-> Cash(P), answer |-> R,
                      left |-> [b \in DOMAIN R |-> Rounded(R[b].amount)], round |-> rounds]
    /\ reading' = NotAsked
    /\ UNCHANGED <<adminVars, worldVars, quiet, rounds, changes>>

----------------------------------------------------------------------------
(* The user                                                                 *)

\* The last answer was put together in, and has been followed in, one world.
Fresh == quiet /\ reading = NotAsked

Asked(b, action) ==
    /\ Fresh
    /\ b \in DOMAIN advice.left
    /\ advice.left[b] > 0
    /\ (advice.answer[b].action = "REDUCE") = (action = "REDUCE")

\* Asset a is bought with cash from k, as far as the cash goes.
Buy(b, a, k) ==
    LET x == Smaller(advice.left[b], holding[k].worth)
    IN  /\ Asked(b, "BUY")
        /\ a \in Targets(b) /\ k \in Spendable
        /\ holding' = [holding EXCEPT ![a].worth = @ + x, ![a].book = @ + x,
                                      ![k].worth = @ - x, ![k].book = Larger(0, @ - x)]
        /\ advice' = [advice EXCEPT !.left[b] = @ - x]
        /\ UNCHANGED <<adminVars, listed, home, config, reading, quiet, rounds, changes>>

\* Asset a is sold as far as it goes; its average cost stays.
Sell(b, a, k) ==
    LET x == Smaller(advice.left[b], holding[a].worth)
    IN  /\ Asked(b, "REDUCE")
        /\ a \in Sellable(b) /\ k \in Payers
        /\ holding' = [holding EXCEPT ![a].worth = @ - x,
                                      ![a].book = (@ * (holding[a].worth - x)) \div holding[a].worth,
                                      ![k].worth = @ + x, ![k].book = @ + x]
        /\ advice' = [advice EXCEPT !.left[b] = @ - x]
        /\ UNCHANGED <<adminVars, listed, home, config, reading, quiet, rounds, changes>>

PlanNext ==
    \/ \E a \in Assets, worth \in Levels, quote \in Quotes : MarketMoves(a, worth, quote)
    \/ \E a \in Assets, b \in Buckets \cup {Absent} : AssignBucket(a, b)
    \/ \E a \in Assets : SwitchAsset(a)
    \/ \E e \in Assets \cup {NoAsset}, x \in BOOLEAN : UpdateConfig(e, x)
    \/ EditStrategy
    \/ BeginPatch
    \/ EndPatch
    \/ ReadConfig
    \/ ReadPositions
    \/ ReadBuckets
    \/ Answer
    \/ \E b \in Buckets, a \in Assets, k \in CashAssets : Buy(b, a, k)
    \/ \E b \in Buckets, a \in Assets, k \in CashAssets : Sell(b, a, k)

PlanSpec == PlanInit /\ [][PlanNext]_planVars

----------------------------------------------------------------------------
(* What the advice is good for                                              *)

PlanningTypeOK ==
    /\ AdminTypeOK
    /\ \A a \in Assets : holding[a] \in [worth : Nat, book : Nat, quote : Quotes]
    /\ listed \subseteq Assets
    /\ home \in [Assets -> Buckets \cup {Absent}]
    /\ config \in [emergency : Assets \cup {NoAsset}, excluded : BOOLEAN]
    /\ reading.at \in {"config", "positions", "buckets", "targets"}
    /\ DOMAIN advice.answer = DOMAIN advice.candidates
    /\ \A b \in DOMAIN advice.answer : /\ advice.answer[b].action \in RebalancingActions
                                       /\ advice.answer[b].amount \in Nat
                                       /\ advice.left[b] \in Nat
    /\ quiet \in BOOLEAN /\ rounds \in 0 .. 2 /\ changes \in 0 .. MaxChanges

\* Buying what was advised, in any order and as far as the cash goes, takes no
\* bucket past its target or past its maximum, but for half a unit of
\* rounding: the reason the allocator caps each amount by both.  (A bucket in
\* which the user's own cash lies also grows by what is sold elsewhere.)
BuysStayWithinLimits ==
    Fresh => \A b \in DOMAIN advice.answer :
        LET c == advice.candidates[b]
            v == 100 * BucketValue(Positions(config), b)
        IN  /\ advice.answer[b].action = "BUY"
            /\ advice.left[b] < Rounded(advice.answer[b].amount)
            /\ \A k \in Payers : home[k] # b
            => /\ v <= c.target * advice.whole + 50
               /\ c.maximum # Absent => v <= c.maximum * advice.whole + 50

\* All the cash that is counted as available can be spent, and lies in no bucket
\* that has a target or a maximum.
CashApart ==
    \A k \in CashAssets \ {config.emergency} :
        /\ Tradable(k)
        /\ home[k] \in DOMAIN advice.candidates =>
              advice.candidates[home[k]].target = Absent /\ advice.candidates[home[k]].maximum = Absent

\* In a quiet world the advice comes to an end: after two answers followed to
\* the end the next one asks for no more than what rounding has made of the
\* ones before: half a unit of a bucket that is over its maximum, and less than
\* half a unit for each bucket there is of one that is bought into, as the
\* halves that several buckets were paid too much may lack in one.  The second
\* answer is needed for the cash that the first one's reductions free.
AdviceSettles ==
    Fresh /\ advice.round = 2 /\ CashApart =>
        \A b \in DOMAIN advice.answer :
            LET amount == advice.answer[b].amount
            IN  IF advice.answer[b].action = "REDUCE"
                THEN Sellable(b) # {} /\ Payers # {} => amount <= 50
                ELSE Targets(b) # {} =>
                        amount <= 50 \/ amount < 50 * Cardinality(DOMAIN advice.answer)

\* PORTFOLIO_HEALTHY is shown only if every bucket that has a target and takes
\* part is within the tolerance of it, and none is at its maximum: no state of
\* a bucket in trouble falls through the decision tables of both engines.
HealthyMeansOnTarget ==
    advice # NoAdvice /\ Recommendations(advice.candidates, advice.answer)[1] = Healthy =>
        \A b \in DOMAIN advice.candidates :
            LET c == advice.candidates[b]
            IN  ~c.excluded => /\ c.target # Absent => c.target_status = "ON_TARGET"
                               /\ ~c.maximum_breached

\* The rebalancing page never contradicts the allocation page: a purchase only
\* where that page says buying is allowed, REDUCE exactly where it shows the
\* maximum breached, nothing for the protected bucket; also when the strategy
\* changed between the statements that read it.
AdviceFitsDistribution ==
    \A b \in DOMAIN advice.answer :
        LET c == advice.candidates[b]
            r == advice.answer[b]
        IN  /\ r.action = "BUY" => c.buy_allowed /\ ~c.excluded
            /\ (r.action = "REDUCE") = c.maximum_breached
            /\ c.excluded => r.amount = 0

\* If the targets add up to 100, no bucket is closed to buying or has a maximum
\* below its target, and no cash lies in a bucket of its own, then the advice
\* leaves no cash unused: validate_strategy's VALID is worth that much.
ValidStrategyUsesAllCash ==
    LET C    == advice.candidates
        open == {b \in DOMAIN C : ~C[b].excluded /\ C[b].target # Absent}
    IN  /\ advice.strategy = "VALID"
        /\ \A b \in open : C[b].allow /\ (C[b].maximum # Absent => C[b].target <= C[b].maximum)
        /\ Fresh /\ \A k \in CashAssets : home[k] \notin open
        => MapThenSumSet(LAMBDA b : IF advice.answer[b].action = "BUY" THEN advice.answer[b].amount ELSE 0,
                         DOMAIN C) = 100 * advice.cash

\* The cash goes to the buckets in the order of priority: a bucket is given
\* what it can take unless all that is left is less, and what comes before it
\* does not depend on what comes after.  Stated without the order of the loop.
SplitIsByPriority ==
    LET C == [b \in Buyable(advice.candidates) |-> advice.candidates[b]]
        Before(b) == {e \in DOMAIN C : C[e].priority < C[b].priority
                        \/ (C[e].priority = C[b].priority /\ C[e].name < C[b].name)}
        Wanted(S) == MapThenSumSet(LAMBDA e : Capacity(C[e], advice.whole), S)
    IN  \A b \in DOMAIN C :
            advice.answer[b].amount =
                Larger(0, Smaller(Capacity(C[b], advice.whole),
                                  100 * advice.cash - Wanted(Before(b))))

\* The amounts a split of new cash shows add up to the total it shows, and none
\* is negative, though each is rounded.  (Rebalancing rounds each of its
\* amounts by itself: there the sum may differ.)
RoundedSumsAgree ==
    \A cash \in {advice.cash, 1, 10} :
        LET C     == advice.candidates
            shown == InflowAnswer(C, advice.whole, cash)
        IN  /\ MapThenSumSet(LAMBDA b : shown.amounts[b], DOMAIN C) = shown.allocated
            /\ shown.unallocated >= 0
            /\ \A b \in DOMAIN C : shown.amounts[b] >= 0

\* The shares of the buckets that take part are shares of one whole: together
\* they never exceed 100 %, whatever asset is the emergency one, in whichever
\* bucket, counted or not.
SharesWithinWhole ==
    LET C == advice.candidates
    IN  MapThenSumSet(LAMBDA b : IF C[b].excluded THEN 0 ELSE C[b].value, DOMAIN C) <= advice.whole
=============================================================================
