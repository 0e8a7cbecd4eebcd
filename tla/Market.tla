------------------------------- MODULE Market -------------------------------
(***************************************************************************)
(* Prices: how they are fetched, entered, kept and shown, and the assets    *)
(* they belong to.  services/price_orchestrator.py and                      *)
(* workers/price_refresh.py (jobs), services/price_service.py, the price    *)
(* configuration, and the parts of services/asset_service.py that look      *)
(* before they write.                                                       *)
(*                                                                          *)
(* A refresh reads the configurations of its assets once, asks the          *)
(* providers one by one, keeps what it stores in its own transaction and    *)
(* commits at the end; users enter prices, lock them, change and delete     *)
(* assets meanwhile.                                                        *)
(***************************************************************************)
EXTENDS StalePolicy, Valuation

CONSTANTS
    Assets, Currencies, Base,   \* Base is the portfolio's currency
    Jobs,                       \* refreshes: runs of the worker and single requests
    Users,                      \* sessions of users that read before they write
    Configs,                    \* price configurations users may post, see Settings
    Beginnings,                 \* initial configurations of the assets
    Kinds,                      \* the kinds of user request explored
    Lags,                       \* how far behind the clock a provider's quote is dated
    QuotedIn,                   \* the currency the providers quote each asset in
    FxThreshold,                \* FX_DEFAULT_STALE_THRESHOLD_MINUTES
    Moments,                    \* bound: the times at which something happens
    MaxChanges                  \* bound: prices recorded and other changes, requests included

VARIABLES
    now,
    currency,   \* the currency of each asset there is
    traded,     \* assets with transactions or a holding
    watched,    \* assets with a watchlist entry
    setting,    \* the price configuration of each asset that has one
    prices,     \* committed observations
    rates,      \* committed exchange rates into Base
    job, user,  \* requests under way
    witness,    \* per job, what its results must respect: [manual, the manual
                \* prices there were when it began, and those of an asset there
                \* were when it turned to that asset; unlocked, the assets that
                \* have been without a lock at some moment since it began]
    changes

assetVars  == <<currency, traded, watched>>
priceVars  == <<setting, prices, rates>>
marketVars == <<now, assetVars, priceVars, job, user, witness, changes>>

\* primary, secondary: a provider and its symbol are set.
Settings == [primary : BOOLEAN, secondary : BOOLEAN, auto : BOOLEAN, lock : BOOLEAN, threshold : Nat]

ASSUME MarketAssumption ==
    /\ Base \in Currencies /\ QuotedIn \in [Assets -> Currencies]
    /\ Configs \subseteq Settings /\ Lags \subseteq Int
    /\ \A s \in Beginnings : DOMAIN s \subseteq Assets /\ s \in [DOMAIN s -> Settings]
    /\ IsFiniteSet(Moments) /\ Moments \subseteq Nat /\ Moments # {}
    /\ \A c \in Configs : c.auto => c.primary   \* upsert_price_config refuses the others
    /\ FxThreshold \in Nat /\ MaxChanges \in Nat

DefaultThreshold == 2

NoConfig == [primary |-> FALSE, secondary |-> FALSE, auto |-> FALSE, lock |-> FALSE,
             threshold |-> DefaultThreshold]
NoJob    == [at |-> "idle"]
NoWish   == [kind |-> "idle"]
NoWitness == [manual |-> {}, unlocked |-> {}]

Exists(a) == a \in DOMAIN currency
SettingOf(a) == IF a \in DOMAIN setting THEN setting[a] ELSE NoConfig
Providers(c) == (IF c.primary THEN 1 ELSE 0) + (IF c.secondary THEN 1 ELSE 0)
Automated == {a \in DOMAIN setting : setting[a].auto}
Unlocked(S) == {a \in DOMAIN S : ~S[a].lock}

MarketInit ==
    /\ now = Min(Moments)
    /\ currency = QuotedIn
    /\ traded = {} /\ watched = {}
    /\ setting \in Beginnings
    /\ prices = {} /\ rates = {}
    /\ job = [j \in Jobs |-> NoJob]
    /\ user = [u \in Users |-> NoWish]
    /\ witness = [j \in Jobs |-> NoWitness]
    /\ changes = 0

Tick ==
    /\ \E t \in Moments : t > now
    /\ now' = Min({t \in Moments : t > now})
    /\ UNCHANGED <<assetVars, priceVars, job, user, witness, changes>>

\* The bound counts a price, a configuration, a rate or a trade as one and the
\* rest as two, a request that reads before it writes when it reads.
Change(n) == changes + n <= MaxChanges /\ changes' = changes + n

----------------------------------------------------------------------------
(* A refresh                                                                *)

\* run_price_refresh reads every automated configuration, refresh_asset_price
\* that of one asset.
StartJob(j, todo) ==
    /\ job[j] = NoJob
    /\ todo # {}
    /\ job' = [job EXCEPT ![j] = [at |-> "next", todo |-> todo, done |-> {}, pending |-> {},
                                  config |-> [a \in todo |-> setting[a]]]]
    /\ witness' = [witness EXCEPT ![j] = [manual |-> {o \in prices : o.manual},
                                          unlocked |-> Unlocked(setting)]]
    /\ UNCHANGED <<now, assetVars, priceVars, user, changes>>

Starts == \E j \in Jobs : StartJob(j, Automated) \/ \E a \in Automated : StartJob(j, {a})

\* What is left to do after asset a, whatever came of it.
Rest_StopOnFailure(todo, a, outcome) == IF outcome = "failed" THEN {} ELSE todo \ {a}
Rest(todo, a, outcome) == todo \ {a}

\* An asset's refresh ends, with what it added to the transaction.
Ended(j, a, outcome, stored) ==
    [at |-> "next", todo |-> Rest(job[j].todo, a, outcome), config |-> job[j].config,
     done |-> job[j].done \cup {[asset |-> a, outcome |-> outcome]},
     pending |-> job[j].pending \cup stored]

\* refresh_one_asset: the first provider of the asset's chain is asked.
Fetch(j, a) ==
    /\ job[j].at = "next" /\ a \in job[j].todo
    /\ Providers(job[j].config[a]) > 0
    /\ job' = [job EXCEPT ![j] =
                  [at |-> "fetch", todo |-> job[j].todo, config |-> job[j].config,
                   done |-> job[j].done, pending |-> job[j].pending,
                   asset |-> a, tries |-> Providers(job[j].config[a])]]
    /\ witness' = [witness EXCEPT ![j].manual = @ \cup {o \in prices : o.asset = a /\ o.manual}]
    /\ UNCHANGED <<now, assetVars, priceVars, user, changes>>

\* The chain is empty: an automated configuration may have lost its providers
\* to another request, see WriteConfig.
NobodyToAsk(j, a) ==
    /\ job[j].at = "next" /\ a \in job[j].todo
    /\ Providers(job[j].config[a]) = 0
    /\ job' = [job EXCEPT ![j] = Ended(j, a, "failed", {})]
    /\ UNCHANGED <<now, assetVars, priceVars, user, witness, changes>>

\* ProviderError: the next one is tried, if there is one.
ProviderFails(j) ==
    /\ job[j].at = "fetch"
    /\ job' = [job EXCEPT ![j] =
                  IF job[j].tries = 1 THEN Ended(j, job[j].asset, "failed", {})
                  ELSE [job[j] EXCEPT !.tries = @ - 1]]
    /\ UNCHANGED <<now, assetVars, priceVars, user, witness, changes>>

Observation(a, at, manual, cur) == [asset |-> a, at |-> at, manual |-> manual, currency |-> cur]

ManualTimes(a, seen) == {o.at : o \in {p \in seen : p.asset = a /\ p.manual}}

\* may_automated_observation_supersede_manual
MaySupersede_SameTime(lock, manual, at) == ~lock /\ \A m \in manual : at >= m
MaySupersede(lock, manual, at) == ~lock /\ \A m \in manual : at > m

\* get_price of a provider: a quote dated by its source, lag behind the clock,
\* in the currency of its market and not in the one the user gave the asset.
Quote(a, lag) == Observation(a, now - lag, FALSE, QuotedIn[a])

\* A provider answers; the manual prices are read,
\* and the observation is inserted unless one of them takes precedence.
Answers(j, lag) ==
    LET a     == job[j].asset
        quote == Quote(a, lag)
    IN  /\ job[j].at = "fetch"
        /\ Exists(a)
        /\ IF MaySupersede(job[j].config[a].lock, ManualTimes(a, prices), quote.at)
           THEN /\ Change(1)
                /\ job' = [job EXCEPT ![j] = Ended(j, a, "stored", {quote})]
           ELSE /\ job' = [job EXCEPT ![j] = Ended(j, a, "protected", {})]
                /\ UNCHANGED changes
        /\ UNCHANGED <<now, assetVars, priceVars, user, witness>>

CommitJob(j) ==
    /\ job[j].at = "next" /\ job[j].todo = {}
    /\ prices' = prices \cup job[j].pending
    /\ job' = [job EXCEPT ![j] = NoJob]
    /\ witness' = [witness EXCEPT ![j] = NoWitness]
    /\ UNCHANGED <<now, assetVars, setting, rates, user, changes>>

\* An error other than a ProviderError, such as a timestamp without a time
\* zone, an insert for an asset deleted meanwhile, or a lost connection, ends
\* the whole run and everything it stored.
FailJob(j) ==
    /\ job[j] # NoJob
    /\ Change(2)
    /\ job' = [job EXCEPT ![j] = NoJob]
    /\ witness' = [witness EXCEPT ![j] = NoWitness]
    /\ UNCHANGED <<now, assetVars, priceVars, user>>

----------------------------------------------------------------------------
(* Users                                                                    *)

\* A row that another open transaction refers to cannot be deleted yet.
Referred_Never(a) == FALSE
Referred(a) == \E j \in Jobs : job[j] # NoJob /\ \E o \in job[j].pending : o.asset = a

HasPrices(a) == \E o \in prices : o.asset = a

\* asset_has_historical_data, asset_has_transaction_or_price_history
Deletable(a) == a \notin traded \cup watched /\ ~HasPrices(a)
Repricable(a) == a \notin traded /\ ~HasPrices(a)

Wish(u, wish) == user[u] = NoWish /\ user' = [user EXCEPT ![u] = wish]

\* The first half of delete_asset and update_asset: the asset is read and the
\* request checked, without a lock.
Check(u, a, c) ==
    /\ Exists(a)
    /\ \/ /\ "delete" \in Kinds /\ c = currency[a] /\ Deletable(a)
          /\ Wish(u, [kind |-> "delete", asset |-> a])
       \/ /\ "currency" \in Kinds /\ c # currency[a] /\ Repricable(a)
          /\ Wish(u, [kind |-> "currency", asset |-> a, currency |-> c])
    /\ Change(2)
    /\ UNCHANGED <<now, assetVars, priceVars, job, witness>>

\* The first half of upsert_price_config: the row is read without a lock, and
\* the columns in which the request differs from it are the ones that the ORM
\* is going to write; without a row, a new one.
ReadConfig(u, a, new) ==
    /\ "config" \in Kinds
    /\ Exists(a) /\ Change(1)
    /\ \/ /\ a \in DOMAIN setting
          /\ Wish(u, [kind |-> "update", asset |-> a, config |-> new,
                      columns |-> {f \in DOMAIN new : new[f] # setting[a][f]}])
       \/ /\ a \notin DOMAIN setting
          /\ Wish(u, [kind |-> "insert", asset |-> a, config |-> new, columns |-> DOMAIN new])
    /\ UNCHANGED <<now, assetVars, priceVars, job, witness>>

Done(u) == user' = [user EXCEPT ![u] = NoWish]

\* The row as an update leaves it.
Updated(row, wish) == [f \in DOMAIN row |-> IF f \in wish.columns THEN wish.config[f] ELSE row[f]]

\* The second half.  Two requests, each of them valid, may leave what neither
\* asked for.  A row inserted by another one, or deleted with its asset, is an
\* error, and nothing is written.
WriteConfig(u) ==
    LET a == user[u].asset
    IN  /\ \/ /\ user[u].kind = "update" /\ a \in DOMAIN setting
              /\ setting' = [setting EXCEPT ![a] = Updated(@, user[u])]
           \/ /\ user[u].kind = "insert" /\ Exists(a) /\ a \notin DOMAIN setting
              /\ setting' = [b \in DOMAIN setting \cup {a} |->
                                IF b = a THEN user[u].config ELSE setting[b]]
           \/ /\ \/ user[u].kind = "update" /\ a \notin DOMAIN setting
                 \/ user[u].kind = "insert" /\ (~Exists(a) \/ a \in DOMAIN setting)
              /\ UNCHANGED setting
        /\ witness' = [j \in Jobs |-> IF job[j] = NoJob THEN NoWitness
                                      ELSE [witness[j] EXCEPT !.unlocked = @ \cup Unlocked(setting')]]
        /\ Done(u)
        /\ UNCHANGED <<now, assetVars, prices, rates, job, changes>>

\* record_manual_price takes the time itself and looks at no other price.
RecordManual(a) ==
    /\ "manual" \in Kinds
    /\ Exists(a) /\ Change(1)
    /\ prices' = prices \cup {Observation(a, now, TRUE, currency[a])}
    /\ UNCHANGED <<now, assetVars, setting, rates, job, user, witness>>

\* ON DELETE RESTRICT of holdings, transactions, watchlist and snapshot items;
\* prices and the price configuration go with the asset.
Restricts_Nothing(a) == FALSE
Restricts(a) == a \in traded \cup watched

DeleteAsset(u) ==
    LET a == user[u].asset
    IN  /\ user[u].kind = "delete"
        /\ ~Referred(a)
        /\ IF Restricts(a) THEN UNCHANGED <<currency, prices, setting>>
           ELSE /\ currency' = [b \in DOMAIN currency \ {a} |-> currency[b]]
                /\ setting' = [b \in DOMAIN setting \ {a} |-> setting[b]]
                /\ prices' = {o \in prices : o.asset # a}
        /\ Done(u)
        /\ UNCHANGED <<now, traded, watched, rates, job, witness, changes>>

ChangeCurrency(u) ==
    /\ user[u].kind = "currency"
    /\ currency' = [b \in DOMAIN currency |-> IF b = user[u].asset THEN user[u].currency ELSE currency[b]]
    /\ Done(u)
    /\ UNCHANGED <<now, traded, watched, priceVars, job, witness, changes>>

\* A transaction is recorded, or the asset put on the watchlist.
Use(a) ==
    /\ Exists(a)
    /\ \/ "trade" \in Kinds /\ Change(1) /\ traded' = traded \cup {a} /\ UNCHANGED watched
       \/ "watch" \in Kinds /\ Change(2) /\ watched' = watched \cup {a} /\ UNCHANGED traded
    /\ UNCHANGED <<now, currency, priceVars, job, user, witness>>

RecordRate(c) ==
    /\ "rate" \in Kinds
    /\ c # Base
    /\ Change(1)
    /\ rates' = rates \cup {[currency |-> c, at |-> now]}
    /\ UNCHANGED <<now, assetVars, setting, prices, job, user, witness>>

MarketNext ==
    \/ Tick
    \/ Starts
    \/ \E j \in Jobs, a \in Assets : Fetch(j, a) \/ NobodyToAsk(j, a)
    \/ \E j \in Jobs : ProviderFails(j)
    \/ \E j \in Jobs, lag \in Lags : Answers(j, lag)
    \/ \E j \in Jobs : CommitJob(j)
    \/ \E j \in Jobs : FailJob(j)
    \/ \E u \in Users, a \in Assets, new \in Configs : ReadConfig(u, a, new)
    \/ \E u \in Users : WriteConfig(u)
    \/ \E u \in Users, a \in Assets, c \in Currencies : Check(u, a, c)
    \/ \E a \in Assets : RecordManual(a)
    \/ \E u \in Users : DeleteAsset(u)
    \/ \E u \in Users : ChangeCurrency(u)
    \/ \E a \in Assets : Use(a)
    \/ \E c \in Currencies : RecordRate(c)

MarketSpec == MarketInit /\ [][MarketNext]_marketVars

----------------------------------------------------------------------------
(* What is shown: the batch reads of price_service and the valuation of the *)
(* holdings                                                                 *)

\* get_latest_prices_for_assets: one of these, whichever comes first.
LatestOf(a) == {o \in prices : o.asset = a /\ \A p \in prices : p.asset = a => p.at <= o.at}

LatestRate(c) == LET T == {r.at : r \in {x \in rates : x.currency = c}}
                 IN  IF T = {} THEN -1 ELSE Max(T)

\* _price_result_from_observation
NativeStale(a, o) == IsStale(o.at, now, SettingOf(a).threshold)

\* _apply_fx_conversion, with the rate of the asset's currency
FxIsStale_Never(c) == FALSE
FxIsStale(c) == IsStale(LatestRate(c), now, FxThreshold)

StatusOf(a, o) ==
    LET foreign == o.currency # Base
    IN  IF foreign /\ LatestRate(currency[a]) = -1 THEN "UNAVAILABLE"
        ELSE IF \/ NativeStale(a, o)
                \/ foreign /\ FxIsStale(currency[a])
             THEN "LAST_KNOWN" ELSE "CURRENT"

\* A holding of one share, bought at 1; a price is 2, a rate 3.  Of prices of
\* one instant the query returns any; the model keeps to the same one as long
\* as the prices do not change.
Worth(o) == IF o.currency = Base THEN 2 ELSE 6

Holding(a) ==
    [held |-> TRUE, book |-> 1, foreign |-> currency[a] # Base,
     worth |-> IF HasPrices(a) THEN Worth(CHOOSE o \in LatestOf(a) : TRUE) ELSE 0,
     quote |-> IF HasPrices(a) THEN StatusOf(a, CHOOSE o \in LatestOf(a) : TRUE) ELSE "UNAVAILABLE"]

\* load_priced_positions
Held     == [a \in traded |-> Holding(a)]
Holdings == [a \in traded |-> Position(Held[a], 0, FALSE, FALSE)]

----------------------------------------------------------------------------
(* Properties                                                               *)

MarketTypeOK ==
    /\ now \in Moments
    /\ \A a \in DOMAIN currency : currency[a] \in Currencies
    /\ DOMAIN setting \subseteq DOMAIN currency
    /\ \A o \in prices : Exists(o.asset) /\ o.at \in Int /\ o.currency \in Currencies
    /\ \A j \in Jobs : job[j].at \in {"idle", "next", "fetch"}
    /\ \A u \in Users : user[u].kind \in {"idle", "delete", "currency", "insert", "update"}
    /\ changes \in 0 .. MaxChanges

\* The ticks of working days between two times, counted one by one.
WorkingTicks(start, end) == Cardinality({t \in start .. end - 1 : ~IsWeekend(t)})

\* A price is shown as live exactly when no more than its threshold of working
\* time has passed since it was recorded, and the same holds of the exchange
\* rate it was converted with: whatever days it was recorded on and is read on.
LiveMeansFresh ==
    \A a \in DOMAIN currency : \A o \in LatestOf(a) :
        StatusOf(a, o) = "CURRENT" <=>
            /\ WorkingTicks(o.at, now) <= SettingOf(a).threshold
            /\ o.currency # Base =>
                  \E r \in rates : r.currency = currency[a] /\ WorkingTicks(r.at, now) <= FxThreshold

\* A price shown as old is not shown as live again because time passes: only
\* a new price or rate, or another setting, can do that.  Counting weekends
\* out of the age must not make it fall.
StaleStaysStale ==
    [][UNCHANGED <<currency, priceVars>> =>
          \A a \in DOMAIN currency : \A o \in LatestOf(a) :
              StatusOf(a, o) # "CURRENT" => StatusOf(a, o)' # "CURRENT"]_marketVars

\* Time alone changes no valuation: a holding keeps its value when its price or
\* rate turns old, and a portfolio that could be valued still can.  Its profit
\* is shown as it was, or no longer, and the total is of those still shown.
AgeingKeepsValue ==
    [][UNCHANGED <<assetVars, priceVars>> =>
          /\ Total(Holdings)' = Total(Holdings)
          /\ IsComplete(Holdings)' = IsComplete(Holdings)
          /\ \E live \in SUBSET traded :
                /\ \A a \in traded : ShownProfit(Held[a], Holdings[a])' =
                                        IF a \in live THEN ShownProfit(Held[a], Holdings[a]) ELSE 0
                /\ TotalProfit(Held, Holdings)' = ProfitIn(Held, Holdings, live)]_marketVars

\* A refresh stores no price for an asset that was locked all the time it ran,
\* and none that is not newer than every manual price there was when it began,
\* or of that asset when its turn came, though it reads the locks once and the
\* manual prices one by one.
ManualHolds ==
    \A j \in Jobs : job[j] # NoJob =>
        \A o \in job[j].pending :
            /\ o.asset \in witness[j].unlocked
            /\ \A m \in witness[j].manual : m.asset = o.asset => o.at > m.at

\* An asset with transactions or on a watchlist is never lost, also when they
\* came after the check that lets it be deleted.
HistoryKeepsItsAsset == traded \cup watched \subseteq DOMAIN currency

\* "One asset's provider failure never stops the rest of the batch" (a comment
\* of refresh_all_automated_assets): what a refresh commits has an outcome for
\* each of its assets, and a new price exactly for those that say so.
RunCoversAll ==
    \A j \in Jobs : job[j] # NoJob /\ job[j].at = "next" /\ job[j].todo = {} =>
        /\ {d.asset : d \in job[j].done} = DOMAIN job[j].config
        /\ {o.asset : o \in job[j].pending} = {d.asset : d \in {e \in job[j].done : e.outcome = "stored"}}
=============================================================================
