# A verification of Thndr

Thndr is a personal portfolio tracker: a FastAPI service over PostgreSQL (`src/backend`), three workers started
by an external scheduler, and web and mobile front ends. These modules model the parts of the backend whose
correctness depends on what happens *between* two SQL statements, and the algorithms that read what those parts
store: transactions, snapshots and returns; alerts, notifications and their delivery; prices; and the strategy with
the advice derived from it. TLC checks them on small instances; TLAPS proves nearly
all of their safety properties for every value of the constants: any number of sessions, assets, buckets, rules, requests
and days. Paths below are relative to `src/backend/app/` unless they name a
document in `src/`.

    tlc -workers 2 -config MCLedger.cfg MCLedger      # one of the runs below
    tlapm LedgerProofs.tla                            # proofs; also BalanceProofs, HistoryProofs, MarketProofs,
                                                  # NotifyProofs, PlanningProofs, SettlingProofs, SumFacts

`PROJECT.json` holds the tables: components, runs, which source lines each definition stands for, the hazards each
property is for, the disagreements between code and documents, and the theorems. Operators named
`Definition_Variant` are faulty variants of a definition, as a plausible bug would have it (a dropped guard, a read
one statement too early). Nothing uses them: put in the place of `Definition`, each makes a property fail, which is
how one knows the property can.

## 1. Inventory

### What everything stands on

A request is one async SQLAlchemy session on one PostgreSQL connection in READ COMMITTED, with
`expire_on_commit=False` (`core/database.py`) and autoflush. So every statement sees what is committed when it
starts; only row locks and unique indexes make two requests wait for each other; what is added or changed in memory
is sent with the next statement; a failed request is rolled back as a whole, except for what it has committed on
the way; and an object read earlier in a session keeps its old columns when it is read again. The tests run on
SQLite, one request at a time, where `FOR UPDATE` does nothing: none of this is reachable from them.

### The components

| component | state it keeps | operations | hard behaviour |
|---|---|---|---|
| **Transactions** (`transaction_service`, `transaction_engine`) | `holdings`, `transactions` | POST /transactions | overlapping requests on one holding, first purchase of an asset, atomicity with the snapshot, lost connections |
| **Snapshots** (`snapshot_service`, `workers/snapshot_eod`) | `portfolio_snapshots` | a snapshot inside a cash flow's transaction; the end-of-day run | reads at two moments, overlapping runs, midnight, the replay's own order of transactions |
| **Portfolio analytics** (`portfolio_analytics_service`, `twr_engine`) | none | GET performance | flows derived from cumulative capital; undefined periods |
| **Alert evaluation** (`alert_service`, `alert_engine`) | `alert_rules.last_triggered_at` | POST /alerts/evaluate, and inside every sync; rule edits | edge detection on one latch for all checks of a rule, committed on its own |
| **Notifications** (`notification_service`, `notification_engine`) | `notifications` | the sync inside GET /portfolio/notifications; read marks | check-then-insert, unlocked resolution, deadlocks between syncs |
| **Telegram worker** (`workers/alert_notify`, `telegram_dispatcher`) | `telegram_sent_at` | a run: sync, then send and mark | lost answers, kills, overlapping runs, stale opt-ins |
| **Prices** (`price_service`, `price_orchestrator`, `manual_precedence`, `stale_policy`, `workers/price_refresh`) | `asset_prices`, `asset_price_configs`, `fx_rates` | refresh of all assets or of one, manual price, configuration with lock, exchange rate, batch and single reads | a lock read once for a whole batch, a manual price that arrives meanwhile, one failure in a batch, ages counted without weekends |
| **Valuation and P/L** (`portfolio_shared`, `portfolio_service`, `portfolio_engine`, `pnl_engine`) | none | GET summary, holdings | which price, or cost, values a holding; what counts when a price is old, foreign or missing; the emergency asset |
| **Allocation, rebalancing, inflow, recommendations** (`domain/*_engine`, `inflow_allocator`, their services) | none | GET and POST previews | boundaries and tolerances, order and caps of the split, rounding, advice followed and asked for again, answers put together from several reads |
| **Administration** (`strategy_admin_service`, `asset_service`, `portfolio_config_service`) | buckets, targets, assets, config | create, update, switch, delete | overlapping PATCHes, check-then-write with and without a constraint behind it |
| **Watchlist** (`watchlist_service`) | `watchlist` | add, edit, remove | keeps its asset from being deleted |
| **Authentication, providers' HTTP, routes, scripts, front ends** | users, none | | outside the modelled core, see section 6 |

How they interact: everything is through the database, there are no messages and no shared memory. A DEPOSIT or
WITHDRAWAL calls the snapshot builder in its own database transaction. The snapshot builder and the allocation read
holdings and prices. Alert evaluation reads the allocation and prices; a sync calls alert evaluation and then the
recommendation service, which calls rebalancing; the Telegram worker calls the sync. Deactivating an asset changes
what all of the valuations list; deleting one takes its prices and its price configuration along and is refused by
foreign keys while anything else refers to it.

### What makes each component correct

* *Transactions*: holdings are what transactions add up to; a request acts on a quantity that is still right when it
  writes; the committed history is one that requests executed one after the other could have produced; every cash
  flow has its snapshot and every request ends.
* *Snapshots*: a snapshot shows moments of the committed history; one end-of-day snapshot per day; a run that
  reports success leaves one of a day it was under way on.
* *Analytics*: a period gains what its trades put in, and cash flows alone are no return.
* *Alerts and notifications*: a triggered rule has a notification and one that is not has none; one active
  notification per source; every sync ends; the center converges to what is current.
* *Telegram*: sent means posted; everything wanted is delivered; at most once.
* *Prices*: a refresh stores nothing for an asset that stays locked and nothing that is not newer than the manual prices
  it could have known; one asset's failure leaves the others'; what is shown as live is fresh in working time; time
  alone changes no value.
* *Engines*: no bucket is bought past its target or maximum; cash is handed out by priority and all of it, where the
  strategy is valid; the pages agree on every boundary; following the advice comes to an end.
* *Administration*: two overlapping PATCHes lose nothing and store no rule that either validation would refuse; an asset
  with history is never lost.

## 2. Modules

    TransactionRules ── AtomicLedger               what POST /transactions promises
          │                  ▲ implements
          └──────────── Ledger                     the write path, statement by statement
                             │
         ReturnEngine ── SnapshotHistory           + the end-of-day worker, days, and the return
    AlertEngine ── Notifications ── AlertNotify    checks; evaluate and sync; the Telegram worker
    StalePolicy ─┐
    Valuation ───┴─ Market                         prices: refreshes beside users; what is shown
        │
        └──────────────────────────────┐
    AllocationEngine ── StrategyRules ── StrategyAdmin ── Planning
           │                                               │  advice, its reads, and a user who follows it
           └─ InflowAllocator ── RebalancingEngine ── RecommendationEngine
    MCLedger, MCSnapshotHistory, MCAlertNotify, MCMarket, MCPlanning     instances for TLC

    SumFacts                                       sums over finite sets; under all proofs that add up
    Ledger ── LedgerProofs ── BalanceProofs ─┐     locks, refinement; holdings and cuts as sums
    SnapshotHistory ─────────────────────────┴─ HistoryProofs
    AlertNotify ── NotifyProofs        Market ── MarketProofs        Planning ── PlanningProofs ── SettlingProofs

### TransactionRules

The decisions of `domain/transaction_engine.py` on quantities (`Accepts`, `Signed`), the order in which every
history is read (`Before`) and the replay of `replay_cumulative_realized_pnl` reduced to whether it raises
`OversellError`. Quantities are whole units. Prices, fees, average cost and realised P/L take part in no decision of
the write path and are left out.

### Ledger

`POST /transactions` for one portfolio. `Begin` opens the database transaction, which fixes `created_at`;
`LockHolding` is `SELECT ... FOR UPDATE` and the rules applied in memory; `Flush` writes holding and transaction,
invisible to others, and waits for, then fails on, an uncommitted insert of the same key; `ReadHoldings` and
`ReadTransactions` are the two statements a cash flow's snapshot is built from; `Commit`, `Disconnect`. `lockOf`
stands for row locks and uncommitted unique index entries alike: both make another session wait for the same end of
transaction. After the commit the answer may still be lost. `SetActive` is an administrator's switch of an asset. Every
asset is worth one unit of the base currency throughout, so that whatever shows as a return is not the market's doing.

### AtomicLedger

The specification: transactions take effect one at a time, each accepted against the balance the previous one left.
`Ledger` implements it with its committed `quantity` and `history`
(`Atomic == INSTANCE AtomicLedger WITH quantity <- quantity, history <- history`).

### SnapshotHistory and ReturnEngine

The end-of-day worker beside the write path, with days and midnights. A run asks the clock once what day it is (`today`,
`StartEod`) and looks for a snapshot of that day (`CheckEod`), reads holdings, reads transactions, asks the clock again for
the stamp (`StampEod`), and inserts and commits under the partial unique index of the day of the stamp (`SaveEod`); midnight
may fall between any two of these. `outcome` has how a run ended and the days it began and ended on. `Timeline` and
`Observations` are what the analytics service reads: the `ORDER BY` of the query gives each snapshot its `Place`, which
is one more than the number of those before it. `ReturnEngine` turns them into flows, points and chained growth, as
fractions.

### AlertEngine, Notifications, AlertNotify

`AlertEngine` has the four checks wired to rules and the latch. A share or a price is a *level* relative to the
thresholds a check compares it with, which is all the checks use. `Notifications` is a sync: three reads of
`evaluate_alerts`, its own commit of the latches (`SaveLatch`), then lookups and writes of one notification at a time,
and the commit. Writes go to the database with the next statement, so that `Lookup` and `Write` are two actions.
`Blockers` says for whom PostgreSQL makes a write wait (an uncommitted entry of the unique index, or a locked row),
`Refused` is the unique violation nobody catches, `DeadlockVictim` PostgreSQL's deadlock detection: one session of
a minimal circle is killed and the one that waited for it gets what it waited for. `POST /alerts/evaluate` is a session
of mode "evaluate", which ends at `SaveLatch`. `AlertNotify` composes it with the worker, whose sync is a session of
mode "deliver", followed by `LoadPending`, `AskConsent`, `Accepted` or `Refusal`, and `MarkSent`. The portfolio's
opt-in is read when the run starts; a rule's may be as old as the sync (`RuleAsSeen`), because the session may still
have the object. `copies` counts the messages in the chat, which the code cannot see.

What a check, a list of recommendations or a queue leaves out is `Those` of a sequence, in order and mapped.

The world (`shareOf`, `priceOf`, `recommended`) changes by itself: the engines behind it are pure functions of tables
which trades, prices and settings change at any moment.

### StalePolicy, Valuation, Market

`StalePolicy` is `stale_policy.py` in ticks, `DayTicks` to a day: `WeekendBetween` walks from midnight to midnight as
`_weekend_seconds_between` does and leaves Saturdays and Sundays out of the age. `Valuation` is `portfolio_shared.py` and
the totals of `portfolio_engine.py` (`ProfitIn` is the profit of some of the positions): a holding becomes a position through `ValueOf` (latest price, else the average
cost if it is in the right currency, else nothing), and positions add up to cash, total, investable, denominator,
buckets and profit.

`Market` is the state machine. A refresh is a record in `job`: `StartJob` reads the configurations of its assets once
(all automated ones, or the one requested), `Fetch` takes an asset, `ProviderFails` goes on to the next provider of its
chain and counts the asset as failed after the last, `Answers` reads the manual prices there are *now* and applies
`MaySupersede` with the lock read *then*, `CommitJob` makes what is pending visible, and `FailJob` is every error but a
`ProviderError`. `Lags` dates a quote up to a tick ahead of the clock, as sources do. Users enter prices (`RecordManual`),
record rates and trades and watchlist entries; a deletion and a change of currency are `Check` and,
any time later, `DeleteAsset` or `ChangeCurrency`, since the code looks without a lock. The PUT of a configuration is
`ReadConfig` and `WriteConfig` for the same reason: the ORM writes the columns in which the request differs from the row
it read (`Updated`), so that two overlapping requests, each of which passed the check that an automated configuration has
a provider, may leave one that has none. `NobodyToAsk` is what a refresh makes of it. A provider and its symbol are one
flag, since `_validate_provider` has them set together; overlapping PUTs that leave one without the other would read as no
provider, too. `Restricts` is the foreign
keys that refuse a deletion, `Referred` the row lock that a price not yet committed holds on its asset.
`witness` is a history variable: what a refresh's results have to respect. It has no counterpart in the code and no
guard reads it. `StatusOf` and `Holdings` are the batch read behind the pages.

### AllocationEngine, InflowAllocator, RebalancingEngine, RecommendationEngine

The four pure engines, one module each. Percentages are compared by cross-multiplication, amounts are whole hundredths
of a unit, so that nothing is rounded but where the code rounds (`Rounded`, `RoundedRunning`). Buckets have their share
(`EvaluateBucket`), their room (`Capacity`, with the status it is explained by), what they get of the cash (`Handed`, in
the order `Ahead`, which is the loop over a priority queue as a fold over the set of buckets), an action and an amount (`Rebalancing`), and a card (`Recommendations`).

### StrategyRules, StrategyAdmin, Planning

`StrategyRules` is `validate_strategy`. `StrategyAdmin` has buckets and rules with their constraints. A PATCH is
`ReadTarget` (read without a lock, merge, validate) and `CommitTarget`: the ORM writes only the columns whose value
changed (`Written`), into whatever row is there by now, and the CHECK constraints judge the result (`Refused`).

`Planning` composes it with positions and a user. `ReadConfig`, `ReadPositions`, `ReadBuckets` and `Answer` are the
statements `load_rebalancing_result` is built from; a price, an assignment, a setting or a rule may change between any two.
`Buy` and `Sell` are the user's steps along the last answer. `quiet` says that nothing else has happened since the
answer was asked for, `rounds` how many answers in a row were followed to the end; both are history variables.

## 3. What the runs show

| run | instance | states | what it shows |
|---|---|---|---|
| `ledger` | 3 sessions, 1 stock, 1 cash account, 5 request bodies | 0.27 million | see below: all properties hold |
| `snapshots` | 2 sessions, 2 worker runs, 2 days, backdating | 1.7 million | all hold |
| `delivery` | 1 worker, 1 rule with one of three alerts | 0.2 million | all hold |
| `inbox` | 1 user, 1 worker, 2 recommendations | 0.4 million | all hold |
| `planning` | 4 assets, 3 buckets, 2 administrators, 16 beginnings | 0.33 million | all hold |
| `market` | 2 assets in two currencies, 1 refresh, 2 users, a weekend | 0.32 million | all hold |
| `replay` | 2 sessions | violated | accepted live, not replayable |
| `returns` | 1 session, 1 worker | violated | a deposit alone shows as a return |
| `deactivation` | 1 session, 2 cash accounts | violated | capital counts what the value leaves out |
| `edges` | 1 session | violated | an alert without a notification |
| `cleared` | 1 user, 1 worker | violated | a notification that is never resolved |
| `once` | 2 worker runs | violated | a message sent twice |

**ledger** (`MCLedger.cfg`). `HoldingsAreDerived`: no update lost or counted twice, nothing oversold. `ReadStaysTrue`: from lock to commit nobody moves the holding. `CashFlowHasSnapshot`:
exactly one, counting its own movement. `SnapshotsAreCuts`: whatever commits during its two reads, a snapshot shows the
holdings of one moment and the capital of a later one, never the reverse. `ImplementsAtomicLedger`: refinement.
`EveryRequestEnds`: no request waits for ever. Three sessions are what it takes for one to wait while another commits
and a third is between the two; `MaxClock = 3` gives each one request, or one session three. The request bodies include a
sale that is covered only after a purchase, a withdrawal after a deposit, and a deposit on a stock, which is refused.

**snapshots** (`MCSnapshotHistory.cfg`). `OneEodPerDay` and `SuccessLeavesEod` with two runs that both find no snapshot,
and a midnight anywhere between check, stamp and save. Success is a snapshot of a day the run was under way on, and of no
particular one: a run that looks for yesterday's after midnight reports it as present, one that stamps before midnight and
commits after it has created yesterday's, one that stamps after midnight today's. `SnapshotsAreCuts` again, now for snapshots that hold no lock; `GainsAreTrades`:
for two consecutive consistent snapshots, value and flow cancel exactly, whatever was backdated or counted several at
once. Sessions, and runs, are alike (`SYMMETRY`); nothing temporal is checked here.

**delivery** (`MCDelivery.cfg`). `LatchIsMirrored`: latch and active notification agree, under edits, price moves and
rules deleted in the middle of a sync. It is stated for syncs that do not overlap, for runs that are not killed, and for a
rule with a single check whose input is never undefined once it was defined: outside of these the code does lose step
(`edges`, `cleared`, and the limitation `alert_engine.py:32-41` discloses), and the property says exactly how far it
goes. `SentWasPosted` and `WantedIsDelivered`, with answers that are lost and a run that dies anywhere.

**inbox** (`MCInbox.cfg`). Two syncs, two recommendations that come and go. `OneActivePerSource` rests on the partial
unique index; `EverySyncEnds` includes the circle in which each resolves the notification the other needs;
`RecommendationsConverge`: since recommendations are compared with the table afresh each time, whatever a failed or
overlapping sync left behind is repaired by the next one. Alerts, which are edges, have no such repair.

**planning** (`MCPlanning.cfg`). `AdviceSettles` is the property of the whole: in a world that stands still, two answers
followed to the end, in any order and with any split over assets, leave nothing to ask for but what rounding makes of
them: of a bucket over its maximum half a unit, to any other less than half a unit for each bucket there is (of the three of this
instance: one unit at most, as it is shown).
It says precisely where that holds: all cash that is counted can be spent and lies in no bucket with limits
of its own. `BuysStayWithinLimits` is why it does. `SplitIsByPriority` states the loop of the allocator without a loop;
`RoundedSumsAgree` the rounding of the inflow page. `AdviceFitsDistribution` and `HealthyMeansOnTarget` relate the
pages, also when the strategy changed between the statements an answer is built from; `ValidStrategyUsesAllCash`
gives `VALID` its meaning. `RulesStayWellFormed` and `NoLostUpdate` are about overlapping PATCHes. `SharesWithinWhole`
has the emergency asset in and out of the denominator, in a bucket of its own and, by reassignment, with others. The
beginnings have a strategy that adds up to 100 and one with a maximum below a target; with a stock held or not, with or without cash, the
emergency asset excluded or not; bucket names run against bucket ids, and the priorities of one strategy tie. `MaxChanges = 2` is one
change of the world or two PATCHes: enough for a change between any two reads of an answer, and for two PATCHes of one row.

**market** (`MCMarket.cfg`). A stock quoted in the base currency and a fund quoted in another, looked at on
Friday afternoon, on Saturday and on Monday morning, so that prices are recorded and read on either side of, and
inside, a weekend. `LiveMeansFresh` compares the walk of `_weekend_seconds_between` with a count of working ticks, for the price and for
the rate it is converted with; `StaleStaysStale`: the age never falls; `AgeingKeepsValue`: a price that turns old changes
no value, no completeness, and of the profit only its own part. `ManualHolds` is what is true of the precedence of
manual prices, with the lock and the prices read at different moments; `RunCoversAll` quotes the comment it checks;
`HistoryKeepsItsAsset` rests on foreign keys and not on the check before the deletion. Either the fund begins locked and the
stock with two providers, or the fund has no configuration and the stock a provider that is not asked, from where two PUTs
can collide, as two inserts or as two updates. `MaxChanges = 3`, where a price, a configuration, a rate or a trade costs one and the
rest two, and a request that reads before it writes counts when it reads, is enough for a manual price during a refresh
that stores two, for a trade between the check of a deletion and the deletion, and for two overlapping PUTs. The users are
alike (`SYMMETRY`); the temporal properties of this run are action properties.

### Disagreements between the code and what it says of itself

Each of these runs checks one property, which TLC refutes; `PROJECT.json` quotes the documents.

* `replay`: the live path decides in lock order, the replay goes by (transaction_date, created_at), and created_at is
  the start of the database transaction. An accepted SELL may precede its BUY; every later snapshot then dies of
  an `OversellError`.
* `returns`: the end-of-day run reads holdings and then transactions without a lock. A deposit in between is capital
  without value, and its whole amount shows as a loss, then as a gain.
* `deactivation`: a savings account gets a deposit, and the snapshot of the deposit values it. It is deactivated while a
  deposit to another account is under way; that deposit's snapshot has no item for it and still counts what was put into it.
* `edges`: `evaluate_alerts` commits the latch before any notification exists. Whoever calls `POST /alerts/evaluate`
  first, or dies right after that commit, takes the edge with it.
* `cleared`: a sync that sees a condition clear does not see the notification another has inserted and not committed.
* `once`: two runs of the worker list the same notification before either marks it.

Read while modelling, and not stated as runs because no property of the modelled state is refuted by them, or because the
documents disclose them:

* Unrealised profit subtracts a cost in the asset's currency from a value in the portfolio's (`portfolio_service.py:69`).
  `ShownProfit` does the same.
* The batch read converts with the rate of the asset's currency, the single read with that of the observation's
  (`price_service.py:206`); a provider's currency is never compared with the asset's.
* A lock set during a refresh does not hold for it (`price_orchestrator.py:118`), and a manual price entered in the very
  instant of an observation ties with it when the latest is picked.
  FINANCIAL_RULES.md:797-798 has precedence never left to a race between refresh and manual entry.
* A price recorded between the check of a deletion and the deletion is deleted with its asset, although
  FINANCIAL_RULES.md:849-858 counts prices as history that blocks the deletion.
* An error that is no `ProviderError`, such as a time stamp without a zone compared with that of a manual price
  (`mubasher_provider.py:148`), rolls back the whole batch, which `providers/base.py:36-39` says one provider cannot do.
* Two overlapping PUTs of a price configuration may leave automated fetching on without a provider, which
  `upsert_price_config` refuses to either of them.
* A purchase up to the maximum is a breach of it the next time (reaching is breaching, `allocation_engine.py`), and half a
  unit, rounded up in a sale and in a purchase, may go back and forth, for several buckets at a time: hence the half unit for each in
  `AdviceSettles`.
* Rebalancing rounds each amount by itself: purchases may add up to a unit more than the cash. The inflow page does not.
* Weekends are Saturday and Sunday, whatever the exchange an asset is traded at.

### Bounds

(of the older runs; those of `planning` and `market` are above.) `MaxClock` bounds the database transactions that take a stamp, `MaxDay` the days, `MaxChanges` the changes of prices,
advice, rules and opt-ins, `MaxCrashes` the sessions that die; `MaxRows` only says for which notifications the
worker's fairness is stated (a portfolio of the delivery instance cannot have more with three changes), and `copies`
stops counting at two. `Sessions` and `Workers` bound what overlaps. None is in the code. Each is as large as the shortest
scenario of its properties asks for: every faulty variant is caught, and every disagreement found, within them.

`CHECK_DEADLOCK FALSE` is in every configuration because a bounded instance stops when its changes, stamps or moments are used
up and everybody is idle; that nobody is stuck before is what `EveryRequestEnds` and `EverySyncEnds` say. In `Market` nobody waits but
a deletion for a refresh that has stored a price, and a refresh can always fail or go on.

### Fairness

`Market` and `Planning` state none: their properties are about what is shown and stored, not about what must come. A refresh
is bound to end by its providers' timeouts, which are not modelled, and nobody owes it to the portfolio to follow advice.

* `Ledger`: weak fairness of a request's own steps. A request that has begun is executed, and lock waiters are served in
  turn by PostgreSQL. `Begin`, `Disconnect` and `SetActive` are never owed.
* `AlertNotify`: weak fairness of a request's steps, of the steps of a worker run, and of starting a run, which is what
  the external scheduler of DEPLOYMENT.md does as long as the portfolio is opted in. Strong fairness of `Accepted`:
  Telegram, tried again and again, takes a message in the end, though it may refuse it or lose its answer any number of
  times before. Nobody is bound to open the notification center, to change anything or to die.

## 4. What is proved

Every theorem is about the specification a run checks, for every value of the constants that satisfies the named
assumptions of its modules. All properties of passing runs that are not liveness are proved; `LatchIsMirrored` under two
hypotheses that are part of its theorem.

### What the assumptions ask for, and why the code justifies it

* `LedgerAssumption`, `PlanningAssumption`, `AdminAssumption`, `NotificationsAssumption`: assets, buckets and alert rules
  are rows of a table, hence finite sets. Sums and orders need that.
* `NotificationsAssumption` has no recommendation twice: `_recommendation_id` (`recommendation_engine.py:126`) is made of
  the action and the bucket, and a bucket has one card.
* `AdminAssumption`: what a POST or PATCH sends has passed the schema (`schemas/strategy.py:112-172`), so that merged into
  any row it is a row, if not yet a valid rule; what a POST sends is one `validate_strategy` does not reject.
* `PlanningAssumption` types the beginnings; no two buckets have one name, which is a unique constraint.
* `MarketAssumption`: a request body (`Configs`) that asks for automated fetching names a provider; `upsert_price_config`
  refuses the others. Nothing is assumed of the rows that come of it, nor of the configurations at the beginning.
* `StaleAssumption`: a day has at least one tick.

### Sums

The code adds up transactions, positions, capacities and amounts, and the model does so with `MapThenSumSet`, a recursive
function of subsets. What that returns is a matter of induction over data, and the library's induction theorems have
an operator for a parameter, which these provers cannot instantiate. `SumFacts` gets by without one:

* `Amount(v, S)` is the sum in closed form: the units that the positive values of `v` consist of are a set of pairs
  (`Units`), and so are those of the negative ones; the sum is the difference of their cardinalities. Whatever one needs
  of sums (adding an element, changing a value, splitting a set in two or by a key, comparing, scaling) is then a fact
  about cardinalities.
* `LeastSubset`: among the counterexamples in a finite set there is one without a smaller one. With it `SumExists` and
  `SumUnique` show once that a recursive function on subsets exists and is `Amount`, and each operator of the model needs only the
  observation that it is such a function.

The same pattern, "the recursive function that the definition chooses is the closed form, or there would be a least
argument where it is not", deals with `FlattenSeq` (`FlattenFacts`), with the allocator's fold (`HandsOutFacts`) and with the
walk over weekends (`WeekendCounted`). `Those`, `Sorted`, `Place` and the fold over a set in `Handed` are written the way they
are because `SelectSeq`, `SortSeq` and `SetToSortSeq` hide their definitions from the prover behind a local recursion or an
override; each says what the code's comprehension, `sorted` or `ORDER BY` returns.

### The write path

`LedgerProofs` and `BalanceProofs`:

1. `TypeCorrect`: `[]LedgerTypeOK`. Inductive as it stands. The part with content is that `result` and
   `quantity` stay natural, which rests on `Accepts`.
2. `ReadsStayTrue`: `[]ReadStaysTrue`, inductive with the type invariant. It says for each session that has decided what
   protects its decision: a lock on the row it found; nothing, until it has inserted the row it did not find, and
   then the uncommitted insert. `OthersKeep` and `ReleaseOwn` reduce every step of another session to: it writes only
   where it holds the lock, and lets go only of its own.
3. `LedgerRefinesAtomic`: `LedgerSpec => Atomic!AtomicSpec`. `ReadStaysTrue` gives that the quantity a commit replaces is
   the one its transaction started from (`CommitEffect`), so that a commit is `Record` of its row; by `OnlyCommitWrites`
   everything else stutters.
4. `CashFlowsHaveSnapshots`: `[]CashFlowHasSnapshot`. Strengthened by `StampsDiffer` (time stamps of
   open transactions and of stored snapshots' sources differ) and `OwnShown` (a snapshot under construction shows
   the session's own flush), of which uniqueness and content are consequences at the commit.
5. `HoldingsDerived`: `[]HoldingsAreDerived`, from `CommitEffect` again, by a sum over all committed transactions of an asset. History is
   summed up as a *set* of rows, so that a row must not be the same as an earlier one: `RowsStamped` says that `created`
   tells them apart, among themselves and from those of requests under way.
6. `SnapshotsCut`: `[]SnapshotsAreCuts`. A session between its reads has seen the holdings of one moment (`CutsGathered`), which
   remains a moment of the history since that only grows (`HistoryGrows`); by 5 the holdings it reads are the sums of some `First(n)`.

### Snapshots and returns

`HistoryProofs` carries 2, 5 and 6 over to `SnapshotHistory` (`PathBesideRuns`, `HistorySnapshotsCut`): a run reads the write path
and writes only snapshots of its own kind (`WorkerBeside`, `PathBeside`). `WorkersGather` is what `CutsGathered` is for sessions.

* `HistoryTypeCorrect`; `EodIsUnique`, from the index of the day of the stamp, whatever day it is at the commit.
* `SuccessIsTrue`: `[]SuccessLeavesEod`, for any number of midnights in a run. `RunsInTime` is what it needs beside that a
  snapshot stays (`SnapshotsGrow`): the day a run under way looks for is no later than the present one, and the day of its
  stamp lies between the two. So the day of the snapshot it has seen, or has made, lies between the days it began and ended on.
* `GainsComeFromTrades`: `[]GainsAreTrades`. The inductive part is `StampsApart`: every snapshot has a stamp of its own, which no
  request and no run under way has. Hence the order the analytics service reads snapshots in is total, and every place of it
  is filled (`PlacesFilled`: a finite strict total order has a member for each number). A consistent
  snapshot's value is then summed twice, by asset (`SplitByAsset`: that is its items) and by kind of transaction
  (`SplitByKind`: that is its capital and its trades), and what is left of the difference of two is trades.

### Prices

`MarketProofs`. `ManualHolds` is not inductive: an answer is judged by the lock the refresh *read* and by the manual
prices there *are*, the property speaks of locks during the run and of the manual prices there *were*. `MarketInv` adds
what connects them:

* `Shape`, the types of the state;
* `KnowledgeHolds`: an asset whose lock was read as open is among those that were unlocked at some moment of the run, and
  a manual price there was at the start is still there, or its asset is gone, which no answer gets past (`Exists`);
* `AccountIsKept`: assets with an outcome and assets left to do partition the batch, and prices pending are the outcomes
  "stored". `RunCoversAll` is this for a batch with nothing left to do.

`EndedKeepsAccount` is the lemma on the end of an asset's turn, `NextKnowledge` and `NextManual` have a step per action. From
these follow `ManualPrecedence` and `RunsCoverAll`. `HistoryIsSafe` is inductive as it stands: that is the point of it, the
foreign keys suffice and the check is a courtesy. `MarketTypeCorrect` adds that prices belong to assets and changes are counted.

What is shown rests on one fact about `StalePolicy`: for any two moments, the walk from midnight to midnight that
`_weekend_seconds_between` does returns the number of weekend ticks between them (`WeekendCounted`, by splitting at the
first midnight), so that the age is the number of working ticks (`AgeIsWorkingTime`). Then

* `LiveIsFresh`: `[]LiveMeansFresh`, with `Rated` (no rate is dated ahead of the clock);
* `StaleIsForGood`: `StaleStaysStale`, since a number of working ticks only grows (`WorkingTimeGrows`);
* `AgeingIsHarmless`: `AgeingKeepsValue`. `Few` (prices and trades are finite) gives every asset with prices a latest one, which a
  tick does not change; the totals are sums of the same values, and `ProfitIn` splits by who still has a current quote.

### Notifications

`NotifyProofs`, about `NotifySpec` with any number of sessions, workers, changes and crashes.

* `NotifyTypeCorrect` and `SentIsPosted` come from one invariant, `Delivery`: `Shape` has the types together with what makes them
  inductive (what a session wrote or has yet to write are rows and sources that exist; a worker is busy with
  messages exactly as long as its queue has some); `Marked` says that a worker about to mark a row has its message in the
  chat. An overlapping run may take a row over in between, but nobody takes a message back.
* `ActiveIsUnique`: `[]OneActivePerSource`. Not inductive, as an insert is checked long before it is committed.
  `Reserved` says what protects it meanwhile: the source of an uncommitted insert has no active notification and no second
  insert. `UniqueFlushed` is the case of the write, where `Blockers` and `Refused` are what PostgreSQL does for it, also for
  a session that is woken up by a deadlock's victim.

* `LatchesAreMirrored`: `InTurn /\ SingleChecks => (NotifySpec => []LatchIsMirrored)`. Both hypotheses are needed, and the
  instance of the run `delivery` satisfies both. `InTurn`: there is one session, and every sync goes on to notifications. With
  two the property is wrong, as with edges and their clearing in the runs `edges` and `cleared`: one session saves a latch
  on whose notification another has not decided yet. `SingleChecks`: of the checks a rule's flags ask for, one at most can ever be met,
  flags are not edited, and the rule's asset has a bucket. A latch is one for all checks of a rule and a notification is one check's,
  so that otherwise the latch stays while one check's notification takes the other's place, or should.
  The property says nothing of the time during a sync. `Undisturbed` does: as long as nobody has died, each session is
  `InOrder`. Before a sync has verdicts and after its commit, latches agree with what is active (`Mirrored`). From the verdicts on, every source is
  `Pledged`: as long as there is a task about it, the task says what the latch says and nothing has been done; once there is none,
  the notification that the commit would leave (`Coming`) is there if and only if the latch asks for it (`InHand`). That needs that a check without
  a verdict has nothing to say (`VerdictFacts`, with `Triggered`: a latch set by a check of the price implies that there is a price), that a source
  has one task (`AlertTodo`), that what was read of a rule is still so when latches are saved (`StillKnown`), and that an insert was looked up (`LookedUp`).
  A sync that fails after `SaveLatch` would break it; with one session nothing but a kill makes it fail there.

### Strategy and advice

`PlanningProofs` begins with the strategy. `StrategySteps` reduces every step of the composed system to the few that touch rules or PATCHes.
`RowsAreChecked` is inductive because the database judges the row a PATCH ends up in, whatever it was merged from; then
`validate_strategy` blames no rule (`RulesAreWellFormed`). `NoUpdateIsLost` rests on `WrittenWasSent`: a column an UPDATE
changes is one whose value the merge changed, and the merge changes only what was sent.

It has one invariant for the advice, `PlanningInv` (theorem `PlanningInvariant`):

* `AdminTypeOK`, `StrategyInv`, `WorldOK`: the state that users and administrators change;
* `ReadingOK`: what a request has read so far is well-formed and, in a quiet world, still so;
* `AdviceOK`: the advice is what the engines answered to *some* well-formed reading (`AnswerTo`), what is left of it is no
  more than was advised (`LeftOK`), and in a quiet world a bucket bought into holds no more than the answer saw plus what was
  advised less what is left (`StillSo`).

`AnswerTo` is what makes six properties lemmas about pure functions: whatever changed between the reads, the
answer is one to a reading that *could* have been, and the lemma holds of all of those. `LastIsHanded` and
`HandsOutFacts` give the allocator's loop in closed form (`Shared`, `Given`): a bucket is given the smaller of what it can take and what those
ahead of it leave. The theorems:

* `AdviceIsConsistent`, `HealthyIsHealthy`: decision tables, and that the first card of the order is made whenever anything asks for one;
* `SharesAreOfOneWhole`: the buckets' values are the positions' values grouped, so that they add up to no more than the whole;
* `SplitFollowsPriority`, `RoundedAmountsAddUp`: from the closed form, the latter by telescoping the rounded running totals;
* `ValidMeansAllIsUsed`: with targets that add up to 100 what is lacking to the targets is at least the cash (`LackIsRoom`), so
  that all of it is handed out;
* `BuysAreWithinLimits`: from `StillSo`, `Capacity` and the half unit of `Rounded`. Proving it showed that the property must
  leave out the buckets the user's own cash lies in, for these grow by what is sold elsewhere as well;
* `PlanningTypeCorrect`.

### Why followed advice settles

`SettlingProofs` proves `AdviceSettles` (`FollowedAdviceSettles`). Its first half is about the engine alone, as it has no state. Let C be
the candidates of one answer, h its amounts, x the units of them that have been followed, and E the candidates of the next answer.

* `AnswerAdvised` gives the answer without the loop: a bucket over its maximum must give `RequiredReduction`, and another is
  given its `Capacity` or what the demand of those ahead of it leaves, and in all no more than the cash.
* `CarriedFacts`: E's buckets have C's values but for x, so that a capacity has shrunk by what was bought, and a bucket that is over its maximum
  now was so before and not sold to the end, or was bought to it and is over by half a unit at most, and by exactly half only
  if it was given all it could take (`AfterBuying`, `AfterSelling`).
* `OneRound`: after an answer followed to the end (`ToTheEnd`: nothing that is left can be done) all is `Calm`. What is for sale is over its
  maximum by half a unit at most; and a bucket that can still take more than that either comes behind every bucket that is exactly half a unit over
  (`NothingAfter`), or there is no cash, and then it lacks less than half a unit for each bucket there is (`AllIsSpent`).
* `TwoRounds`: after another one all is `Settled`. A sale of the second round is of one unit, for an excess of exactly half of one: the
  other half its bucket asks for again, ahead of the bucket b in question, so that each sale leaves b with half a unit at most (`LeftForOne`).

The second half says that in a quiet world this is what happens. `SettlingInv` holds together with `PlanningInv` (`SettlingInvariant`):
`Standing` is what makes it inductive. The candidates of the advice are those of the buckets and rules there are (`AsNow`); the whole
is what it was, and cash and buckets have changed by what has been followed (`Accounts`); after one answer followed, all is calm, after two,
settled. `RoundsOK` ties the counter to the advice. `TradeKeepsStanding` is a purchase or sale: worth moves from one position to another and the
sums with it (`Shifted`, `ValueMoves`), the whole does not. `AnswerStands` is the next answer, where `RoundFollowed` puts what the world has become into the terms
of the first half. Where cash lies in a bucket with limits (not `CashApart`) `Accounts` still holds, of the other buckets, and nothing is claimed of the amounts.

The proof corrected the property. It used to say "no more than a unit, in a bucket with something to trade", as TLC confirms for three buckets. The
sum of the halves in `AllIsSpent` could not be brought under one unit, and a trial instance of four buckets showed TLC why: with 5 in cash, three buckets of 7
whose target and maximum are 7.5, and a fourth far below its target and behind them, each of the three may be bought up to 8, half a unit too
much, and is then in breach and sold back to 7; the fourth is offered 1.5, shown as 2, of cash the three have used up when its turn comes. So the advice may
go round in circles for ever, within the bound that is proved. The run `planning` has three buckets and never needs more than the half unit of the first
disjunct of its last line; with one more stock it would (TLC finds such a state, but does not finish in useful time), and there the theorem takes over.
The property had also claimed something of a bucket whose last tradable unit has been sold, where a breach may stay for want of anything to sell: now a sale
is spoken of only where there is something for sale.

## 5. What is only model-checked

* Everything temporal under fairness, which the prover does not treat: `EveryRequestEnds`, `EverySyncEnds`,
  `RecommendationsConverge`, `WantedIsDelivered`.
* `ReturnEngine` is run by TLC only, for `CashFlowIsNoReturn`, which the code violates.

## 6. What is not modelled, and why

* Amounts of money beyond whole units, average cost and realised P/L of transactions, and their rounding: no decision of
  the write path depends on them. In `Market` a price is 2 and a rate 3: which of them counts is modelled, not how much.
* Percentages of profit, the comparison of the portfolio with an earlier snapshot (`snapshot_comparison.py`), texts and
  severities of recommendations, layout: formatting of modelled values.
* `read_at`, message texts, response layout, logging: no property is about them.
* Creating assets, portfolios and alert rules: they exist from the start. A change of the base currency, and the second
  portfolio two overlapping requests may create for one user: nothing prevents either, see the hazards.
* Several portfolios: every query is scoped to one, and sessions of two share no row that is written, but for a worker
  run that serves one portfolio after the other.
* Authentication, the providers' HTTP and scraping, health, configuration, seed and migration scripts, front ends:
  libraries, pure I/O, or run by hand with nothing else going on.

## 7. Plan

1. Two portfolios in one worker run, for the failure of one that keeps the others from being served.
2. Creation of alert rules and their merged PATCH, joined to `Notifications`.
