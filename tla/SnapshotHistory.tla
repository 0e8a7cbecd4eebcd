-------------------------- MODULE SnapshotHistory ---------------------------
(***************************************************************************)
(* The history of portfolio values: the write path of module Ledger, the    *)
(* end-of-day worker (workers/snapshot_eod.py) and what the analytics       *)
(* service makes of the snapshots both of them store.                       *)
(*                                                                          *)
(* Time: day d has two instants, Midnight(d), which is what the date field  *)
(* of the transaction form posts, and Evening(d), when a worker stamps a    *)
(* snapshot.  A worker run is one portfolio's turn; the runs of other       *)
(* portfolios neither read nor write anything here.                         *)
(***************************************************************************)
EXTENDS Ledger

CONSTANTS
    Workers,     \* runs of the worker that may overlap
    MaxDay,      \* bound: the last day
    Punctual,    \* users declare today's date; otherwise any of Dates
    Undefined    \* no return

ASSUME HistoryAssumption ==
    /\ MaxDay \in Nat
    /\ Punctual \in BOOLEAN

VARIABLES
    day,         \* the UTC day it is
    stage,       \* the statement a worker is about to execute
    began,       \* the stamp of the worker's database transaction
    today,       \* the day the run takes it to be
    eodItems,    \* the quantities it read
    eodCounted,  \* the transactions it read
    snapshotAt,  \* the instant it has stamped its snapshot with
    outcome      \* how its last run ended, and the days it began and ended on

workerVars  == <<stage, began, today, eodItems, eodCounted, snapshotAt, outcome>>
historyVars == <<ledgerVars, day, workerVars>>

Returns == INSTANCE ReturnEngine

Midnight(d) == 2 * d
Evening(d)  == 2 * d + 1
DayOf(at)   == at \div 2

Stages == {"idle", "check", "holdings", "transactions", "stamp", "save"}
Ends   == {"none", "created", "present", "failed", "died"}

HistoryInit ==
    /\ LedgerInit
    /\ day = 0
    /\ stage = [w \in Workers |-> "idle"]
    /\ began = [w \in Workers |-> 0]
    /\ today = [w \in Workers |-> 0]
    /\ eodItems = [w \in Workers |-> NoItems]
    /\ eodCounted = [w \in Workers |-> {}]
    /\ snapshotAt = [w \in Workers |-> 0]
    /\ outcome = [w \in Workers |-> [how |-> "none", from |-> 0, on |-> 0]]

-----------------------------------------------------------------------------
(* One run of the worker for the portfolio. *)

EodOf(d) == {sn \in snapshots : sn.trigger = "EOD" /\ DayOf(sn.at) = d}

Finish(w, how) ==
    /\ stage' = [stage EXCEPT ![w] = "idle"]
    /\ began' = [began EXCEPT ![w] = 0]
    /\ today' = [today EXCEPT ![w] = 0]
    /\ eodItems' = [eodItems EXCEPT ![w] = NoItems]
    /\ eodCounted' = [eodCounted EXCEPT ![w] = {}]
    /\ snapshotAt' = [snapshotAt EXCEPT ![w] = 0]
    /\ outcome' = [outcome EXCEPT ![w] = [how |-> how, from |-> today[w], on |-> day]]

\* Reading the portfolio starts the database transaction; then the run asks the
\* clock, once, what day it is.
StartEod(w) ==
    /\ stage[w] = "idle"
    /\ clock < MaxClock
    /\ clock' = clock + 1
    /\ stage' = [stage EXCEPT ![w] = "check"]
    /\ began' = [began EXCEPT ![w] = clock']
    /\ today' = [today EXCEPT ![w] = day]
    /\ UNCHANGED <<dbVars, lockOf, sessionVars, day, eodItems, eodCounted, snapshotAt, outcome>>

\* A snapshot of that day ends the run, whatever day it is by now.
CheckEod(w) ==
    /\ stage[w] = "check"
    /\ \/ /\ EodOf(today[w]) # {}
          /\ Finish(w, "present")
       \/ /\ EodOf(today[w]) = {}
          /\ stage' = [stage EXCEPT ![w] = "holdings"]
          /\ UNCHANGED <<began, today, eodItems, eodCounted, snapshotAt, outcome>>
    /\ UNCHANGED <<ledgerVars, day>>

EodReadHoldings(w) ==
    /\ stage[w] = "holdings"
    /\ eodItems' = [eodItems EXCEPT ![w] = Valued(quantity)]
    /\ stage' = [stage EXCEPT ![w] = "transactions"]
    /\ UNCHANGED <<ledgerVars, day, began, today, eodCounted, snapshotAt, outcome>>

\* What the second statement of the run sees.
EodSees_AsOfBegin(w) == {t \in Committed : t.created < began[w]}
EodSees(w) == Committed

\* An OversellError of the replay fails the portfolio's turn.
EodReadTransactions(w) ==
    LET seen == EodSees(w) IN
    /\ stage[w] = "transactions"
    /\ \/ /\ ReplayOversells(seen)
          /\ Finish(w, "failed")
       \/ /\ ~ReplayOversells(seen)
          /\ eodCounted' = [eodCounted EXCEPT ![w] = seen]
          /\ stage' = [stage EXCEPT ![w] = "stamp"]
          /\ UNCHANGED <<began, today, eodItems, snapshotAt, outcome>>
    /\ UNCHANGED <<ledgerVars, day>>

\* The clock is asked again: the snapshot is of the day it is now, which need
\* not be the day the run looked for.
StampEod(w) ==
    /\ stage[w] = "stamp"
    /\ snapshotAt' = [snapshotAt EXCEPT ![w] = Evening(day)]
    /\ stage' = [stage EXCEPT ![w] = "save"]
    /\ UNCHANGED <<ledgerVars, day, began, today, eodItems, eodCounted, outcome>>

EodSnapshot(w) ==
    Snapshot(snapshotAt[w], "EOD", 0, began[w], eodItems[w], eodCounted[w])

\* uq_portfolio_snapshot_eod_per_day refuses a second snapshot of the day of
\* the stamp.
EodTaken_NoIndex(w) == FALSE
EodTaken_AnyDay(w) == \E sn \in snapshots : sn.trigger = "EOD"
EodTaken(w) == EodOf(DayOf(snapshotAt[w])) # {}

\* INSERT and COMMIT.  An insert waits for an uncommitted one of the same day
\* to be decided, and so do all the ones behind it: they are in effect one.
SaveEod(w) ==
    /\ stage[w] = "save"
    /\ \/ /\ EodTaken(w)
          /\ Finish(w, "present")
          /\ UNCHANGED snapshots
       \/ /\ ~EodTaken(w)
          /\ snapshots' = snapshots \cup {EodSnapshot(w)}
          /\ Finish(w, "created")
    /\ UNCHANGED <<rows, quantity, history, active, clock, lockOf, sessionVars, day>>

\* The process, or its connection, dies.
WorkerDies(w) ==
    /\ stage[w] # "idle"
    /\ Finish(w, "died")
    /\ UNCHANGED <<ledgerVars, day>>

NextDay ==
    /\ day < MaxDay
    /\ day' = day + 1
    /\ UNCHANGED <<ledgerVars, workerVars>>

\* A session posts a request dated as its user declares it.
PostRequest(s) ==
    /\ Begin(s)
    /\ Punctual => req'[s].date = Midnight(day)

HistoryNext ==
    \/ \E s \in Sessions : /\ PostRequest(s) \/ Step(s) \/ Disconnect(s)
                           /\ UNCHANGED <<day, workerVars>>
    \/ \E a \in Retirable : SetActive(a) /\ UNCHANGED <<day, workerVars>>
    \/ \E w \in Workers : \/ StartEod(w)
                          \/ CheckEod(w)
                          \/ EodReadHoldings(w)
                          \/ EodReadTransactions(w)
                          \/ StampEod(w)
                          \/ SaveEod(w)
                          \/ WorkerDies(w)
    \/ NextDay

HistorySpec == HistoryInit /\ [][HistoryNext]_historyVars

-----------------------------------------------------------------------------
(* What the analytics service reads. *)

\* list_snapshots_ordered: by (snapshot_at, created_at).
Earlier(sn, other) == \/ sn.at < other.at
                      \/ sn.at = other.at /\ sn.created < other.created

\* No two have the same stamp, so that each has a place of its own.
Place(sn) == Cardinality({other \in snapshots : Earlier(other, sn)}) + 1

Timeline == [i \in 1 .. Cardinality(snapshots) |-> CHOOSE sn \in snapshots : Place(sn) = i]

ValueOf(sn) == MapThenSumSet(LAMBDA a : sn.items[a], DOMAIN sn.items)

Observations == [i \in DOMAIN Timeline |->
                    [value |-> ValueOf(Timeline[i]), invested |-> Timeline[i].invested]]

-----------------------------------------------------------------------------
(* Properties. *)

\* Every variable has its type, those of the write path included.
HistoryTypeOK ==
    /\ LedgerTypeOK
    /\ day \in 0 .. MaxDay
    /\ stage \in [Workers -> Stages]
    /\ began \in [Workers -> 0 .. MaxClock]
    /\ today \in [Workers -> 0 .. MaxDay]
    /\ DOMAIN eodItems = Workers
    /\ \A w \in Workers : \E listed \in SUBSET Assets : eodItems[w] \in [listed -> Nat]
    /\ eodCounted \in [Workers -> SUBSET Recorded]
    /\ snapshotAt \in [Workers -> 0 .. Evening(MaxDay)]
    /\ outcome \in [Workers -> [how : Ends, from : 0 .. MaxDay, on : 0 .. MaxDay]]

\* However many runs overlap, and wherever midnight falls between their check,
\* their stamp and their save, a day has at most one end-of-day snapshot.
OneEodPerDay ==
    \A sn, other \in snapshots :
        sn.trigger = "EOD" /\ other.trigger = "EOD" /\ DayOf(sn.at) = DayOf(other.at) => sn = other

\* A run that reports success, also by finding the work done or by losing the
\* race for it, leaves a snapshot of a day it was under way on.  More is not
\* true: with a midnight in between it may be of the day the run began on or of
\* the one it ended on, and the other day may go without.
SuccessLeavesEod ==
    \A w \in Workers : outcome[w].how \in {"created", "present"} =>
        \E d \in outcome[w].from .. outcome[w].on : EodOf(d) # {}

\* A snapshot that values exactly the transactions it counts.
Consistent(sn) == \A a \in DOMAIN sn.items : sn.items[a] = Net(sn.counted, a)

\* What the trades a snapshot counts have put into the listed assets.
TradesIn(sn) == MapThenSumSet(Signed, {t \in sn.counted : IsTrade(t)})

ListsAll(sn) == DOMAIN sn.items = Assets

\* Between two snapshots, each of them consistent, the gain a period shows is
\* what its trades put in: deposits and withdrawals take no part in it, however
\* many of them there are and in whatever order they committed.
GainsAreTrades ==
    LET points == Returns!Points(Observations)
    IN  \A i \in DOMAIN Timeline \ {1} :
           LET last == Timeline[i - 1]
               now  == Timeline[i]
           IN  Consistent(last) /\ ListsAll(last) /\ Consistent(now) /\ ListsAll(now)
                  => Returns!PreFlowValue(points[i]) - points[i - 1].value = TradesIn(now) - TradesIn(last)

\* A deposit or withdrawal contributes exactly 0% to the return.
CashFlowIsNoReturn ==
    LET growth == Returns!CumulativeGrowth(Returns!Points(Observations))
    IN  \A i \in DOMAIN growth :
           growth[i] # Undefined /\ Returns!SameGrowth(growth[i], Returns!One)
=============================================================================
