---------------------------- MODULE HistoryProofs ---------------------------
(***************************************************************************)
(* What holds of the snapshots that requests and end-of-day runs store side *)
(* by side, for any number of both, of days and of midnights in between.    *)
(* A step is one of the write path, which LedgerProofs and BalanceProofs    *)
(* know, or one of a run, which adds end-of-day snapshots and draws stamps  *)
(* from the clock and leaves everything else of the write path alone.       *)
(***************************************************************************)
EXTENDS SnapshotHistory, BalanceProofs

-----------------------------------------------------------------------------
(* The two kinds of steps. *)

LedgerSide == [LedgerNext]_ledgerVars /\ UNCHANGED workerVars /\ day' \in {day, day + 1}

WorkerSide(w) == \/ StartEod(w) \/ CheckEod(w) \/ EodReadHoldings(w) \/ EodReadTransactions(w)
                 \/ StampEod(w) \/ SaveEod(w)  \/ WorkerDies(w)

\* Every step is of one of the two kinds, and days stay within their bound.
LEMMA TwoSides ==
    ASSUME day \in Int, [HistoryNext]_historyVars
    PROVE  \/ LedgerSide /\ (day' = day + 1 => day < MaxDay)
           \/ \E w \in Workers : WorkerSide(w)
<1>1. CASE NextDay
  BY <1>1 DEF NextDay, LedgerSide, ledgerVars
<1>2. CASE \E s \in Sessions : (PostRequest(s) \/ Step(s) \/ Disconnect(s)) /\ UNCHANGED <<day, workerVars>>
  <2>1. PICK s \in Sessions : Begin(s) \/ Step(s) \/ Disconnect(s)
    BY <1>2 DEF PostRequest
  <2>2. LedgerNext
    BY <2>1 DEF LedgerNext
  <2> QED
    BY <1>2, <2>2 DEF LedgerSide, workerVars
<1>3. CASE \E a \in Retirable : SetActive(a) /\ UNCHANGED <<day, workerVars>>
  <2>1. LedgerNext
    BY <1>3 DEF LedgerNext
  <2> QED
    BY <1>3, <2>1 DEF LedgerSide, workerVars
<1>4. CASE UNCHANGED historyVars
  BY <1>4 DEF historyVars, workerVars, LedgerSide
<1> QED
  BY <1>1, <1>2, <1>3, <1>4 DEF HistoryNext, WorkerSide

\* What a run does to the variables of the write path.
Beside(w) ==
    /\ UNCHANGED <<rows, quantity, history, active, lockOf, sessionVars, day>>
    /\ clock' = clock \/ (clock < MaxClock /\ clock' = clock + 1)
    /\ \/ snapshots' = snapshots
       \/ /\ stage[w] = "save" /\ EodOf(DayOf(snapshotAt[w])) = {}
          /\ snapshots' = snapshots \cup {EodSnapshot(w)}

\* A run leaves the write path alone.
LEMMA WorkerBeside ==
    ASSUME NEW w \in Workers, WorkerSide(w)
    PROVE  Beside(w)
<1> USE DEF Beside, ledgerVars, dbVars
<1>1. CASE StartEod(w)
  BY <1>1 DEF StartEod
<1>2. CASE CheckEod(w)
  BY <1>2 DEF CheckEod
<1>3. CASE EodReadHoldings(w)
  BY <1>3 DEF EodReadHoldings
<1>4. CASE EodReadTransactions(w)
  BY <1>4 DEF EodReadTransactions
<1>5. CASE StampEod(w)
  BY <1>5 DEF StampEod
<1>6. CASE SaveEod(w)
  BY <1>6 DEF SaveEod, EodTaken
<1>7. CASE WorkerDies(w)
  BY <1>7 DEF WorkerDies
<1> QED
  BY <1>1, <1>2, <1>3, <1>4, <1>5, <1>6, <1>7 DEF WorkerSide

-----------------------------------------------------------------------------
(* Types. *)

\* The variables of the runs.
WorkersTyped ==
    /\ day \in 0 .. MaxDay
    /\ stage \in [Workers -> Stages]
    /\ began \in [Workers -> 0 .. MaxClock]
    /\ today \in [Workers -> 0 .. MaxDay]
    /\ DOMAIN eodItems = Workers
    /\ \A w \in Workers : \E listed \in SUBSET Assets : eodItems[w] \in [listed -> Nat]
    /\ eodCounted \in [Workers -> SUBSET Recorded]
    /\ snapshotAt \in [Workers -> 0 .. Evening(MaxDay)]
    /\ outcome \in [Workers -> [how : Ends, from : 0 .. MaxDay, on : 0 .. MaxDay]]

\* A run that ends leaves the variables of the runs typed.
LEMMA FinishType ==
    ASSUME WorkersTyped, NEW w \in Workers, NEW how \in Ends, Finish(w, how), day' = day
    PROVE  WorkersTyped'
<1>1. DOMAIN eodItems' = Workers
      /\ \A v \in Workers : eodItems'[v] = IF v = w THEN NoItems ELSE eodItems[v]
  BY DEF Finish, WorkersTyped
<1>2. \A v \in Workers : \E listed \in SUBSET Assets : eodItems'[v] \in [listed -> Nat]
  BY <1>1, NoItemsType DEF WorkersTyped
<1>3. stage' \in [Workers -> Stages] /\ began' \in [Workers -> 0 .. MaxClock]
  BY LedgerAssumption DEF Finish, WorkersTyped, Stages
<1>4. eodCounted' \in [Workers -> SUBSET Recorded] /\ today' \in [Workers -> 0 .. MaxDay]
  BY HistoryAssumption DEF Finish, WorkersTyped
<1>5. outcome' \in [Workers -> [how : Ends, from : 0 .. MaxDay, on : 0 .. MaxDay]]
  <2>1. [how |-> how, from |-> today[w], on |-> day] \in [how : Ends, from : 0 .. MaxDay, on : 0 .. MaxDay]
    BY DEF WorkersTyped
  <2> QED
    BY <2>1 DEF Finish, WorkersTyped
<1>6. snapshotAt' \in [Workers -> 0 .. Evening(MaxDay)]
  <2>1. 0 \in 0 .. Evening(MaxDay)
    BY HistoryAssumption DEF Evening
  <2> QED
    BY <2>1 DEF Finish, WorkersTyped
<1> QED
  BY <1>1, <1>2, <1>3, <1>4, <1>5, <1>6 DEF WorkersTyped

\* No step of a run breaks a type.
LEMMA WorkerTypeStep ==
    ASSUME LedgerTypeOK, WorkersTyped, NEW w \in Workers, WorkerSide(w)
    PROVE  LedgerTypeOK' /\ WorkersTyped'
<1> USE DEF ledgerVars, dbVars, sessionVars
<1>1. LedgerTypeOK'
  <2>1. Beside(w)
    BY WorkerBeside
  <2>2. clock' \in 0 .. MaxClock
    BY <2>1, LedgerAssumption DEF Beside, LedgerTypeOK
  <2>3. UNCHANGED <<rows, quantity, history, active, lockOf,
                    pc, req, found, result, items, visible, reply>>
    BY <2>1 DEF Beside
  <2> QED
    BY <2>2, <2>3 DEF LedgerTypeOK
<1> SUFFICES WorkersTyped'
  BY <1>1
<1>2. ASSUME NEW how \in Ends, Finish(w, how), day' = day PROVE WorkersTyped'
  BY <1>2, FinishType
<1>0. "present" \in Ends /\ "failed" \in Ends /\ "created" \in Ends /\ "died" \in Ends
  BY DEF Ends
<1>3. CASE CheckEod(w)
  <2>1. CASE EodOf(today[w]) # {}
    BY <1>0, <1>2, <1>3, <2>1 DEF CheckEod
  <2>2. CASE EodOf(today[w]) = {}
    BY <1>3, <2>2 DEF CheckEod, WorkersTyped, Stages
  <2> QED
    BY <2>1, <2>2
<1>4. CASE EodReadHoldings(w)
  <2>1. active \in SUBSET Assets /\ Valued(quantity) \in [active -> Nat]
    BY DEF Valued, LedgerTypeOK
  <2>2. /\ DOMAIN eodItems' = Workers
        /\ \A v \in Workers : \E listed \in SUBSET Assets : eodItems'[v] \in [listed -> Nat]
    BY <1>4, <2>1 DEF EodReadHoldings, WorkersTyped
  <2> QED
    BY <1>4, <2>2 DEF EodReadHoldings, WorkersTyped, Stages
<1>5. CASE EodReadTransactions(w)
  <2>1. CASE ReplayOversells(EodSees(w))
    BY <1>0, <1>2, <1>5, <2>1 DEF EodReadTransactions
  <2>2. CASE ~ReplayOversells(EodSees(w))
    <3>1. EodSees(w) \subseteq Recorded
      BY CommittedType DEF EodSees
    <3> QED
      BY <1>5, <2>2, <3>1 DEF EodReadTransactions, WorkersTyped, Stages
  <2> QED
    BY <2>1, <2>2
<1>6. CASE SaveEod(w) \/ WorkerDies(w)
  BY <1>0, <1>2, <1>6 DEF SaveEod, WorkerDies
<1>7. CASE StartEod(w)
  <2>1. clock' \in 0 .. MaxClock
    BY <1>1 DEF LedgerTypeOK
  <2> QED
    BY <1>7, <2>1 DEF StartEod, WorkersTyped, Stages
<1>8. CASE StampEod(w)
  <2>1. Evening(day) \in 0 .. Evening(MaxDay)
    BY HistoryAssumption DEF Evening, WorkersTyped
  <2> QED
    BY <1>8, <2>1 DEF StampEod, WorkersTyped, Stages
<1> QED
  BY <1>3, <1>4, <1>5, <1>6, <1>7, <1>8 DEF WorkerSide

\* Whatever requests and runs overlap, every variable of both keeps its type.
THEOREM HistoryTypeCorrect == HistorySpec => []HistoryTypeOK
<1>1. HistoryTypeOK <=> LedgerTypeOK /\ WorkersTyped
  BY DEF HistoryTypeOK, WorkersTyped
<1>2. HistoryInit => HistoryTypeOK
  <2> SUFFICES ASSUME HistoryInit PROVE LedgerTypeOK /\ WorkersTyped
    BY <1>1
  <2>1. LedgerTypeOK
    BY LedgerInitTyped DEF HistoryInit
  <2>2. [how |-> "none", from |-> 0, on |-> 0] \in [how : Ends, from : 0 .. MaxDay, on : 0 .. MaxDay]
    BY HistoryAssumption DEF Ends
  <2>3. 0 \in 0 .. MaxClock /\ 0 \in 0 .. MaxDay /\ 0 \in 0 .. Evening(MaxDay)
    BY LedgerAssumption, HistoryAssumption DEF Evening
  <2> QED
    BY <2>1, <2>2, <2>3, NoItemsType DEF HistoryInit, WorkersTyped, Stages
<1>3. HistoryTypeOK /\ [HistoryNext]_historyVars => HistoryTypeOK'
  <2> SUFFICES ASSUME LedgerTypeOK, WorkersTyped, [HistoryNext]_historyVars
               PROVE  LedgerTypeOK' /\ WorkersTyped'
    BY <1>1 DEF HistoryTypeOK, WorkersTyped
  <2>1. CASE LedgerSide /\ (day' = day + 1 => day < MaxDay)
    <3>1. LedgerTypeOK'
      BY <2>1, TypeStep DEF LedgerSide
    <3>2. day' \in 0 .. MaxDay
      BY <2>1, HistoryAssumption DEF LedgerSide, WorkersTyped
    <3> QED
      BY <2>1, <3>1, <3>2 DEF LedgerSide, WorkersTyped, workerVars
  <2> QED
    <3>1. day \in Int
      BY HistoryAssumption DEF WorkersTyped
    <3> QED
      BY <2>1, <3>1, TwoSides, WorkerTypeStep
<1> QED
  BY <1>2, <1>3, PTL DEF HistorySpec

-----------------------------------------------------------------------------
(* One end-of-day snapshot a day. *)

\* Midnight and evening are instants of their day.
LEMMA EveningIsToday == ASSUME NEW d \in Nat PROVE DayOf(Evening(d)) = d
<1> QED
  BY DEF DayOf, Evening

\* A snapshot is never taken back, a request stores none but those of
\* transactions, and a run stores one only of a day that has none.
LEMMA SnapshotsGrow ==
    ASSUME day \in Nat, [HistoryNext]_historyVars
    PROVE  \/ snapshots' = snapshots
           \/ \E new : new.trigger = "TRANSACTION" /\ snapshots' = snapshots \cup {new}
           \/ \E new : /\ new.trigger = "EOD" /\ EodOf(DayOf(new.at)) = {}
                       /\ snapshots' = snapshots \cup {new}
<1>1. CASE LedgerSide
  <2>1. CASE ~\E s \in Sessions : Commit(s)
    BY <1>1, <2>1, OnlyCommitWrites DEF LedgerSide
  <2>2. ASSUME NEW s \in Sessions, Commit(s)
        PROVE  \/ snapshots' = snapshots
               \/ \E new : new.trigger = "TRANSACTION" /\ snapshots' = snapshots \cup {new}
    <3>1. snapshots' \in {snapshots, snapshots \cup {SnapshotOf(s)}}
      BY <2>2 DEF Commit
    <3>2. SnapshotOf(s).trigger = "TRANSACTION"
      BY DEF SnapshotOf, Snapshot
    <3> QED
      BY <3>1, <3>2
  <2> QED
    BY <2>1, <2>2
<1>2. ASSUME NEW w \in Workers, WorkerSide(w)
      PROVE  \/ snapshots' = snapshots
             \/ \E new : /\ new.trigger = "EOD" /\ EodOf(DayOf(new.at)) = {}
                         /\ snapshots' = snapshots \cup {new}
  <2>1. \/ snapshots' = snapshots
        \/ EodOf(DayOf(snapshotAt[w])) = {} /\ snapshots' = snapshots \cup {EodSnapshot(w)}
    BY <1>2, WorkerBeside DEF Beside
  <2>2. EodSnapshot(w).trigger = "EOD" /\ EodSnapshot(w).at = snapshotAt[w]
    BY DEF EodSnapshot, Snapshot
  <2> QED
    BY <2>1, <2>2
<1> QED
  BY <1>1, <1>2, TwoSides

\* However many runs overlap, and wherever midnight falls between the check of
\* one, its stamp and its save, no day has a second end-of-day snapshot
\* (uq_portfolio_snapshot_eod_per_day).
THEOREM EodIsUnique == HistorySpec => []OneEodPerDay
<1>1. HistoryInit => OneEodPerDay
  BY DEF HistoryInit, LedgerInit, OneEodPerDay
<1>2. HistoryTypeOK /\ OneEodPerDay /\ [HistoryNext]_historyVars => OneEodPerDay'
  <2> SUFFICES ASSUME HistoryTypeOK, OneEodPerDay, [HistoryNext]_historyVars PROVE OneEodPerDay'
    OBVIOUS
  <2>1. day \in Nat
    BY HistoryAssumption DEF HistoryTypeOK
  <2>2. CASE snapshots' = snapshots
    BY <2>2 DEF OneEodPerDay
  <2>3. ASSUME NEW new, new.trigger = "TRANSACTION", snapshots' = snapshots \cup {new}
        PROVE  OneEodPerDay'
    BY <2>3 DEF OneEodPerDay
  <2>4. ASSUME NEW new, new.trigger = "EOD", EodOf(DayOf(new.at)) = {},
               snapshots' = snapshots \cup {new}
        PROVE  OneEodPerDay'
    <3>1. \A sn \in snapshots : sn.trigger = "EOD" => DayOf(sn.at) # DayOf(new.at)
      BY <2>4 DEF EodOf
    <3> QED
      BY <2>4, <3>1 DEF OneEodPerDay
  <2> QED
    BY <2>1, <2>2, <2>3, <2>4, SnapshotsGrow
<1> QED
  BY <1>1, <1>2, HistoryTypeCorrect, PTL DEF HistorySpec

\* A run under way began on a day that is past or is today, and what it has
\* stamped is of a day since then.
RunsInTime ==
    \A w \in Workers :
        /\ stage[w] # "idle" => today[w] <= day
        /\ stage[w] = "save" => DayOf(snapshotAt[w]) \in today[w] .. day

\* Whatever happens.
LEMMA RunsInTimeStep ==
    ASSUME WorkersTyped, RunsInTime, [HistoryNext]_historyVars
    PROVE  RunsInTime'
<1>1. day \in Nat /\ \A w \in Workers : today[w] \in Nat
  BY HistoryAssumption DEF WorkersTyped
<1>2. CASE LedgerSide
  BY <1>1, <1>2 DEF LedgerSide, workerVars, RunsInTime, DayOf
<1>3. ASSUME NEW w \in Workers, WorkerSide(w) PROVE RunsInTime'
  <2> USE DEF WorkersTyped
  <2>1. day' = day
    BY <1>3, WorkerBeside DEF Beside
  <2>2. ASSUME NEW how, Finish(w, how) PROVE RunsInTime'
    BY <2>1, <2>2 DEF Finish, RunsInTime
  <2>3. CASE StartEod(w)
    BY <1>1, <2>1, <2>3 DEF StartEod, RunsInTime
  <2>4. CASE StampEod(w)
    BY <1>1, <2>1, <2>4, EveningIsToday DEF StampEod, RunsInTime
  <2>5. ASSUME \A v \in Workers : stage'[v] = stage[v] \/ (stage[v] # "idle" /\ stage'[v] # "save"),
               today' = today, snapshotAt' = snapshotAt
        PROVE  RunsInTime'
    BY <2>1, <2>5 DEF RunsInTime
  <2>6. CASE CheckEod(w)
    BY <2>2, <2>5, <2>6 DEF CheckEod
  <2>7. CASE EodReadHoldings(w)
    BY <2>5, <2>7 DEF EodReadHoldings
  <2>8. CASE EodReadTransactions(w)
    BY <2>2, <2>5, <2>8 DEF EodReadTransactions
  <2>9. CASE SaveEod(w) \/ WorkerDies(w)
    BY <2>2, <2>9 DEF SaveEod, WorkerDies
  <2> QED
    BY <1>3, <2>3, <2>4, <2>6, <2>7, <2>8, <2>9 DEF WorkerSide
<1> QED
  BY <1>1, <1>2, <1>3, TwoSides

\* A run that says created or present, also because another one has overtaken
\* it, leaves a snapshot of a day between the one it began on and the one it
\* ended on, wherever between its check, its stamp and its save a midnight
\* passes (workers/snapshot_eod.py, create_eod_snapshot_if_missing).
THEOREM SuccessIsTrue == HistorySpec => []SuccessLeavesEod
<1>1. HistoryInit => SuccessLeavesEod /\ RunsInTime
  BY DEF HistoryInit, SuccessLeavesEod, RunsInTime
<1>2. HistoryTypeOK /\ SuccessLeavesEod /\ RunsInTime /\ [HistoryNext]_historyVars
         => SuccessLeavesEod' /\ RunsInTime'
  <2> SUFFICES ASSUME WorkersTyped, SuccessLeavesEod, RunsInTime, [HistoryNext]_historyVars
               PROVE  SuccessLeavesEod' /\ RunsInTime'
    BY DEF HistoryTypeOK, WorkersTyped
  <2>1. day \in Nat /\ outcome \in [Workers -> [how : Ends, from : 0 .. MaxDay, on : 0 .. MaxDay]]
        /\ \A v \in Workers : today[v] \in Nat
    BY HistoryAssumption DEF WorkersTyped
  <2>2. snapshots \subseteq snapshots'
    BY <2>1, SnapshotsGrow
  <2>3. \A d : EodOf(d) # {} => EodOf(d)' # {}
    BY <2>2 DEF EodOf
  <2>4. ASSUME NEW v \in Workers, outcome'[v] = outcome[v], outcome'[v].how \in {"created", "present"}
        PROVE  (\E d \in outcome[v].from .. outcome[v].on : EodOf(d) # {})'
    <3>1. PICK d \in outcome[v].from .. outcome[v].on : EodOf(d) # {}
      BY <2>4 DEF SuccessLeavesEod
    <3>2. d \in outcome'[v].from .. outcome'[v].on
      BY <2>4, <3>1
    <3> QED
      BY <2>3, <3>1, <3>2
  <2>5. CASE UNCHANGED outcome
    BY <2>4, <2>5, RunsInTimeStep DEF SuccessLeavesEod
  <2>6. ASSUME NEW w \in Workers, NEW how, Finish(w, how),
               how \in {"created", "present"} => \E d \in today[w] .. day : EodOf(d)' # {}
        PROVE  SuccessLeavesEod'
    <3>1. outcome' = [outcome EXCEPT ![w] = [how |-> how, from |-> today[w], on |-> day]]
      BY <2>6 DEF Finish
    <3> SUFFICES ASSUME NEW v \in Workers, outcome'[v].how \in {"created", "present"}
                 PROVE  (\E d \in outcome[v].from .. outcome[v].on : EodOf(d) # {})'
      BY DEF SuccessLeavesEod
    <3>2. CASE v = w
      <4>1. outcome'[v].how = how /\ outcome'[v].from = today[w] /\ outcome'[v].on = day
        BY <2>1, <3>1, <3>2
      <4> QED
        BY <2>6, <4>1
    <3>3. CASE v # w
      BY <2>1, <2>4, <3>1, <3>3
    <3> QED
      BY <3>2, <3>3
  <2>7. ASSUME NEW w \in Workers, WorkerSide(w) PROVE SuccessLeavesEod'
    <3>1. CASE CheckEod(w)
      <4>1. CASE EodOf(today[w]) # {}
        <5>1. today[w] \in today[w] .. day
          BY <2>1, <3>1 DEF CheckEod, RunsInTime
        <5> QED
          BY <2>3, <2>6, <3>1, <4>1, <5>1 DEF CheckEod
      <4>2. CASE EodOf(today[w]) = {}
        BY <2>5, <3>1, <4>2 DEF CheckEod
      <4> QED
        BY <4>1, <4>2
    <3>2. CASE StartEod(w) \/ EodReadHoldings(w) \/ StampEod(w)
      BY <2>5, <3>2 DEF StartEod, EodReadHoldings, StampEod
    <3>3. CASE EodReadTransactions(w)
      BY <2>5, <2>6, <3>3 DEF EodReadTransactions
    <3>4. CASE SaveEod(w)
      <4>1. PICK d : d = DayOf(snapshotAt[w])
        OBVIOUS
      <4>2. d \in today[w] .. day
        BY <3>4, <4>1 DEF SaveEod, RunsInTime
      <4>3. EodOf(d)' # {}
        <5>1. CASE EodOf(d) # {}
          BY <2>3, <5>1
        <5>2. CASE EodOf(d) = {}
          <6>1. EodSnapshot(w).trigger = "EOD" /\ DayOf(EodSnapshot(w).at) = d
            BY <4>1 DEF EodSnapshot, Snapshot
          <6>2. EodSnapshot(w) \in snapshots'
            BY <3>4, <4>1, <5>2 DEF SaveEod, EodTaken
          <6>3. \E sn \in snapshots' : sn.trigger = "EOD" /\ DayOf(sn.at) = d
            BY <6>1, <6>2
          <6> QED
            BY <6>3 DEF EodOf
        <5> QED
          BY <5>1, <5>2
      <4>4. \E how : Finish(w, how)
        BY <3>4 DEF SaveEod
      <4> QED
        BY <2>6, <4>2, <4>3, <4>4
    <3>5. CASE WorkerDies(w)
      BY <2>6, <3>5 DEF WorkerDies
    <3> QED
      BY <2>7, <3>1, <3>2, <3>3, <3>4, <3>5 DEF WorkerSide
  <2> QED
    BY <2>1, <2>5, <2>7, TwoSides, RunsInTimeStep DEF LedgerSide, workerVars
<1> QED
  BY <1>1, <1>2, HistoryTypeCorrect, PTL DEF HistorySpec

-----------------------------------------------------------------------------
(* The write path beside the runs. *)

\* What is inductive of the write path, and stays so beside the runs.
PathHolds == ReadStaysTrue /\ HoldingsAreDerived /\ StampsDiffer /\ RowsStamped /\ CutsGathered

\* A run reads the write path and writes snapshots of its own kind.
LEMMA PathBeside ==
    ASSUME LedgerTypeOK, PathHolds, NEW w \in Workers, Beside(w)
    PROVE  PathHolds'
<1>1. /\ UNCHANGED <<rows, quantity, history, lockOf, pc, req, found, result, items, visible>>
      /\ clock \in Nat /\ clock' \in Nat /\ clock <= clock'
  BY LedgerAssumption DEF Beside, sessionVars, LedgerTypeOK
<1>2. \/ snapshots' = snapshots
      \/ snapshots' = snapshots \cup {EodSnapshot(w)}
  BY DEF Beside
<1>3. EodSnapshot(w).trigger = "EOD" /\ EodSnapshot(w).source = 0
  BY DEF EodSnapshot, Snapshot
<1>4. ReadStaysTrue'
  BY <1>1 DEF PathHolds, ReadStaysTrue, ReadHolds, Decided, Flushed, Target
<1>5. HoldingsAreDerived'
  BY <1>1 DEF PathHolds, HoldingsAreDerived, Committed
<1>6. RowsStamped'
  BY <1>1 DEF PathHolds, RowsStamped
<1>7. StampsDiffer'
  BY <1>1, <1>2, <1>3 DEF PathHolds, StampsDiffer
<1>8. SourcesKnown'
  BY <1>2, <1>3 DEF PathHolds, CutsGathered, SourcesKnown
<1>9. ASSUME NEW r \in Sessions PROVE GathersCut(r)'
  <2>1. GathersCut(r)
    BY DEF PathHolds, CutsGathered
  <2>2. /\ \A n : First(n)' = First(n)
        /\ Row(r)' = Row(r) /\ IsCashFlow(req[r])' = IsCashFlow(req[r])
        /\ Len(history)' = Len(history)
    BY <1>1 DEF First, Row, IsCashFlow
  <2>3. \A n : Shows(items[r], n, {Row(r)})' = Shows(items[r], n, {Row(r)})
    BY <1>1, <2>2 DEF Shows, Net
  <2> QED
    BY <1>1, <2>1, <2>2, <2>3 DEF GathersCut
<1> QED
  BY <1>4, <1>5, <1>6, <1>7, <1>8, <1>9 DEF PathHolds, CutsGathered

\* The parts of the write path's invariant are inductive in the composition.
LEMMA PathStep ==
    ASSUME LedgerTypeOK, PathHolds, day \in Int, [HistoryNext]_historyVars
    PROVE  PathHolds'
<1>1. CASE LedgerSide
  BY <1>1, ReadStaysTrueStep, HoldingsStep, StampsDifferStep, RowsStampedStep, CutsGatheredStep
     DEF LedgerSide, PathHolds
<1>2. CASE \E w \in Workers : WorkerSide(w)
  BY <1>2, WorkerBeside, PathBeside
<1> QED
  BY <1>1, <1>2, TwoSides

\* The first state has what is inductive.
LEMMA PathInit == LedgerInit => PathHolds
<1>1. LedgerInit => ReadStaysTrue
  BY DEF LedgerInit, ReadStaysTrue, Decided
<1> QED
  BY <1>1, HoldingsInit, CutsInit DEF PathHolds

\* Beside the end-of-day runs, too, a request acts on what it read and a
\* holding is what its transactions add up to.
THEOREM PathBesideRuns == HistorySpec => [](ReadStaysTrue /\ HoldingsAreDerived)
<1>1. HistoryInit => PathHolds
  BY PathInit DEF HistoryInit
<1>2. HistoryTypeOK /\ PathHolds /\ [HistoryNext]_historyVars => PathHolds'
  <2>1. HistoryTypeOK => LedgerTypeOK /\ day \in Int
    BY HistoryAssumption DEF HistoryTypeOK
  <2> QED
    BY <2>1, PathStep
<1>3. PathHolds => ReadStaysTrue /\ HoldingsAreDerived
  BY DEF PathHolds
<1> QED
  BY <1>1, <1>2, <1>3, HistoryTypeCorrect, PTL DEF HistorySpec

-----------------------------------------------------------------------------
(* Every snapshot is a cut. *)

\* What a run has gathered is a cut of the history, nothing added.
WorkerGathers(w) ==
    /\ stage[w] = "transactions" => \E n \in 0 .. Len(history) : Shows(eodItems[w], n, {})
    /\ stage[w] \in {"stamp", "save"} =>
          \E m \in 0 .. Len(history) : \E n \in 0 .. m :
             eodCounted[w] = First(m) /\ Shows(eodItems[w], n, {})

WorkersGather == \A w \in Workers : WorkerGathers(w)

\* A run that does not move, or only stamps, keeps its cut while requests commit.
LEMMA WorkerKeeps ==
    ASSUME NEW v \in Workers, WorkerGathers(v),
           stage'[v] = stage[v] \/ (stage[v] = "stamp" /\ stage'[v] = "save"), eodItems'[v] = eodItems[v], eodCounted'[v] = eodCounted[v],
           Len(history) \in Nat, Len(history)' \in Nat, Len(history) <= Len(history)',
           \A n \in 0 .. Len(history) : First(n)' = First(n)
    PROVE  WorkerGathers(v)'
<1>1. \A n \in 0 .. Len(history) : n \in 0 .. Len(history)' /\ \A m \in 0 .. n : m \in 0 .. Len(history)
  OBVIOUS
<1>2. \A n \in 0 .. Len(history) : Shows(eodItems[v], n, {}) => Shows(eodItems[v], n, {})'
  BY DEF Shows, Net
<1>3. ASSUME stage[v] = "transactions"
      PROVE  \E n \in 0 .. Len(history)' : Shows(eodItems[v], n, {})'
  BY <1>1, <1>2, <1>3 DEF WorkerGathers
<1>4. ASSUME stage[v] \in {"stamp", "save"}
      PROVE  \E m \in 0 .. Len(history)' : \E n \in 0 .. m :
                (eodCounted[v] = First(m))' /\ Shows(eodItems[v], n, {})'
  <2>1. PICK m \in 0 .. Len(history) :
           \E n \in 0 .. m : eodCounted[v] = First(m) /\ Shows(eodItems[v], n, {})
    BY <1>4 DEF WorkerGathers
  <2>2. PICK n \in 0 .. m : eodCounted[v] = First(m) /\ Shows(eodItems[v], n, {})
    BY <2>1
  <2>3. (eodCounted[v] = First(m))' /\ Shows(eodItems[v], n, {})'
    BY <1>1, <1>2, <2>2
  <2> QED
    BY <1>1, <2>3
<1> QED
  BY <1>3, <1>4 DEF WorkerGathers

\* A run reads the holdings of the whole committed history, then the whole
\* committed history.
LEMMA WorkerGathersOwn ==
    ASSUME LedgerTypeOK, WorkersTyped, HoldingsAreDerived, WorkersGather,
           NEW w \in Workers, WorkerSide(w)
    PROVE  WorkerGathers(w)'
<1> USE DEF WorkersTyped
<1>1. Committed = First(Len(history)) /\ Len(history) \in 0 .. Len(history)
  BY CommittedFinite
<1>2. ASSUME stage'[w] \in {"idle", "check", "holdings"} PROVE WorkerGathers(w)'
  BY <1>2 DEF WorkerGathers
<1>3. ASSUME NEW how, Finish(w, how) PROVE WorkerGathers(w)'
  BY <1>2, <1>3 DEF Finish
<1>4. history' = history /\ \A n : First(n)' = First(n)
  BY WorkerBeside DEF Beside, First
<1>5. CASE StartEod(w) \/ CheckEod(w)
  BY <1>2, <1>3, <1>5 DEF StartEod, CheckEod
<1>6. CASE EodReadHoldings(w)
  <2>1. stage'[w] = "transactions" /\ eodItems'[w] = Valued(quantity)
    BY <1>6 DEF EodReadHoldings
  <2>2. Shows(Valued(quantity), Len(history), {})
    <3>1. \A a \in active : Valued(quantity)[a] = Net(Committed, a)
      BY DEF Valued, HoldingsAreDerived, LedgerTypeOK
    <3>2. DOMAIN Valued(quantity) = active /\ First(Len(history)) \cup {} = Committed
      BY <1>1 DEF Valued
    <3> QED
      BY <3>1, <3>2 DEF Shows
  <2>3. Shows(eodItems[w], Len(history), {})'
    BY <1>4, <2>1, <2>2 DEF Shows, Net
  <2> QED
    BY <1>1, <1>4, <2>1, <2>3 DEF WorkerGathers
<1>7. CASE EodReadTransactions(w)
  <2>1. CASE ReplayOversells(EodSees(w))
    BY <1>3, <1>7, <2>1 DEF EodReadTransactions
  <2>2. CASE ~ReplayOversells(EodSees(w))
    <3>1. /\ stage[w] = "transactions" /\ stage'[w] = "stamp"
          /\ eodCounted'[w] = Committed /\ eodItems'[w] = eodItems[w]
      BY <1>7, <2>2 DEF EodReadTransactions, EodSees
    <3>2. PICK n \in 0 .. Len(history) : Shows(eodItems[w], n, {})
      BY <3>1 DEF WorkersGather, WorkerGathers
    <3>3. Shows(eodItems[w], n, {})' /\ (eodCounted[w] = First(Len(history)))'
      BY <1>1, <1>4, <3>1, <3>2 DEF Shows, Net
    <3> QED
      BY <1>1, <1>4, <3>1, <3>3 DEF WorkerGathers
  <2> QED
    BY <2>1, <2>2
<1>8. CASE SaveEod(w) \/ WorkerDies(w)
  BY <1>3, <1>8 DEF SaveEod, WorkerDies
<1>9. CASE StampEod(w)
  <2>1. /\ stage[w] = "stamp" /\ stage'[w] = "save" /\ eodItems'[w] = eodItems[w]
        /\ eodCounted'[w] = eodCounted[w] /\ WorkerGathers(w)
    BY <1>9 DEF StampEod, WorkersGather
  <2> QED
    BY <1>1, <1>4, <2>1, WorkerKeeps DEF LedgerTypeOK
<1> QED
  BY <1>5, <1>6, <1>7, <1>8, <1>9 DEF WorkerSide

\* A run adds a snapshot that is a cut, if it adds one.
LEMMA WorkerCutsStep ==
    ASSUME LedgerTypeOK, RowsStamped, WorkersGather, SnapshotsAreCuts,
           NEW w \in Workers, Beside(w)
    PROVE  SnapshotsAreCuts'
<1>1. history' = history
  BY DEF Beside
<1>2. \A sn, n : SeenBy(sn, n)' = SeenBy(sn, n)
  BY <1>1 DEF SeenBy, Committed
<1>3. \A sn, n, a : Net(SeenBy(sn, n), a)' = Net(SeenBy(sn, n), a)
  BY <1>2 DEF Net
<1>4. ASSUME NEW sn,
             \E m \in 0 .. Len(history) : \E n \in 0 .. m :
                /\ sn.counted = SeenBy(sn, m)
                /\ \A a \in DOMAIN sn.items : sn.items[a] = Net(SeenBy(sn, n), a)
      PROVE  (\E m \in 0 .. Len(history) : \E n \in 0 .. m :
                /\ sn.counted = SeenBy(sn, m)
                /\ \A a \in DOMAIN sn.items : sn.items[a] = Net(SeenBy(sn, n), a))'
  BY <1>1, <1>2, <1>3, <1>4
<1>5. ASSUME NEW sn, sn = EodSnapshot(w), stage[w] = "save"
      PROVE  \E m \in 0 .. Len(history) : \E n \in 0 .. m :
                /\ sn.counted = SeenBy(sn, m)
                /\ \A a \in DOMAIN sn.items : sn.items[a] = Net(SeenBy(sn, n), a)
  <2>1. sn.source = 0 /\ sn.items = eodItems[w] /\ sn.counted = eodCounted[w]
    BY <1>5 DEF EodSnapshot, Snapshot
  <2>2. \A t \in Committed : t.created # 0
    BY DEF RowsStamped, Committed
  <2>3. \A n : SeenBy(sn, n) = First(n) /\ First(n) \cup {} = First(n)
    BY <2>1, <2>2 DEF SeenBy, First
  <2> QED
    BY <1>5, <2>1, <2>3 DEF WorkersGather, WorkerGathers, Shows
<1>6. \/ snapshots' = snapshots
      \/ stage[w] = "save" /\ snapshots' = snapshots \cup {EodSnapshot(w)}
  BY DEF Beside
<1>7. ASSUME NEW sn \in snapshots'
      PROVE  (\E m \in 0 .. Len(history) : \E n \in 0 .. m :
                /\ sn.counted = SeenBy(sn, m)
                /\ \A a \in DOMAIN sn.items : sn.items[a] = Net(SeenBy(sn, n), a))'
  <2>1. CASE sn \in snapshots
    BY <1>4, <2>1 DEF SnapshotsAreCuts
  <2>2. CASE sn \notin snapshots
    BY <1>4, <1>5, <1>6, <2>2
  <2> QED
    BY <2>1, <2>2
<1> QED
  BY <1>7 DEF SnapshotsAreCuts

\* The cuts of the runs are inductive.
LEMMA WorkersGatherStep ==
    ASSUME LedgerTypeOK, WorkersTyped, PathHolds, WorkersGather, [HistoryNext]_historyVars
    PROVE  WorkersGather'
<1>1. CASE LedgerSide
  <2>1. /\ Len(history) \in Nat /\ Len(history)' \in Nat /\ Len(history) <= Len(history)'
        /\ \A n \in 0 .. Len(history) : First(n)' = First(n)
    BY <1>1, HistoryGrows DEF LedgerSide, PathHolds
  <2>2. ASSUME NEW v \in Workers PROVE WorkerGathers(v)'
    <3>1. WorkerGathers(v) /\ UNCHANGED <<stage, eodItems, eodCounted>>
      BY <1>1 DEF WorkersGather, LedgerSide, workerVars
    <3> QED
      BY <2>1, <3>1, WorkerKeeps
  <2> QED
    BY <2>2 DEF WorkersGather
<1>2. ASSUME NEW w \in Workers, WorkerSide(w) PROVE WorkersGather'
  <2>1. history' = history /\ Len(history) \in Nat
    BY <1>2, WorkerBeside DEF Beside, LedgerTypeOK
  <2>2. ASSUME NEW v \in Workers, v # w PROVE WorkerGathers(v)'
    <3>1. /\ stage'[v] = stage[v] /\ eodItems'[v] = eodItems[v] /\ eodCounted'[v] = eodCounted[v]
      <4> USE DEF Finish, WorkersTyped
      <4>1. CASE StartEod(w) \/ CheckEod(w) \/ StampEod(w)
        BY <2>2, <4>1 DEF StartEod, CheckEod, StampEod
      <4>2. CASE EodReadHoldings(w)
        BY <2>2, <4>2 DEF EodReadHoldings
      <4>3. CASE EodReadTransactions(w)
        BY <2>2, <4>3 DEF EodReadTransactions
      <4>4. CASE SaveEod(w) \/ WorkerDies(w)
        BY <2>2, <4>4 DEF SaveEod, WorkerDies
      <4> QED
        BY <1>2, <4>1, <4>2, <4>3, <4>4 DEF WorkerSide
    <3>2. WorkerGathers(v) /\ Len(history)' = Len(history) /\ \A n : First(n)' = First(n)
      BY <2>1 DEF WorkersGather, First
    <3> QED
      BY <2>1, <3>1, <3>2, WorkerKeeps
  <2>3. WorkerGathers(w)'
    BY <1>2, WorkerGathersOwn DEF PathHolds
  <2> QED
    BY <2>2, <2>3 DEF WorkersGather
<1>3. day \in Int
  BY HistoryAssumption DEF WorkersTyped
<1> QED
  BY <1>1, <1>2, <1>3, TwoSides

\* Whatever commits between the statements that build it, every snapshot, of a
\* cash flow or of the end of a day, shows two moments of the history, its
\* holdings at the first and its capital at the second, never the other way
\* round (build_valued_snapshot, workers/snapshot_eod.py).
THEOREM HistorySnapshotsCut == HistorySpec => []SnapshotsAreCuts
<1> DEFINE Inv == PathHolds /\ WorkersGather /\ SnapshotsAreCuts
<1>1. HistoryInit => Inv
  BY PathInit, CutsInit DEF HistoryInit, WorkersGather, WorkerGathers
<1>2. HistoryTypeOK /\ Inv /\ [HistoryNext]_historyVars => Inv'
  <2> SUFFICES ASSUME LedgerTypeOK, WorkersTyped, Inv, [HistoryNext]_historyVars PROVE Inv'
    BY DEF HistoryTypeOK, WorkersTyped
  <2>1. day \in Int
    BY HistoryAssumption DEF WorkersTyped
  <2>2. SnapshotsAreCuts'
    <3>1. CASE LedgerSide
      BY <3>1, CutsStep DEF LedgerSide, PathHolds
    <3>2. CASE \E w \in Workers : WorkerSide(w)
      BY <3>2, WorkerBeside, WorkerCutsStep DEF PathHolds
    <3> QED
      BY <2>1, <3>1, <3>2, TwoSides
  <2> QED
    BY <2>1, <2>2, PathStep, WorkersGatherStep
<1> QED
  BY <1>1, <1>2, HistoryTypeCorrect, PTL DEF HistorySpec

-----------------------------------------------------------------------------
(* The snapshots in order. *)

\* In a strict total order R of a finite set every place is somebody's.
LEMMA PlacesFilled ==
    ASSUME NEW S, IsFiniteSet(S), NEW R,
           \A x \in S : <<x, x>> \notin R,
           \A x, y, z \in S : <<x, y>> \in R /\ <<y, z>> \in R => <<x, z>> \in R,
           \A x, y \in S : x = y \/ <<x, y>> \in R \/ <<y, x>> \in R
    PROVE  \A i \in 1 .. Cardinality(S) : \E x \in S : Cardinality({y \in S : <<y, x>> \in R}) + 1 = i
<1> DEFINE Below(x) == {y \in S : <<y, x>> \in R}
           n == Cardinality(S)
           place == [x \in S |-> Cardinality(Below(x)) + 1]
<1>1. n \in Nat
  BY FS_CardinalityType
<1>2. ASSUME NEW x \in S PROVE IsFiniteSet(Below(x)) /\ Cardinality(Below(x)) \in 0 .. n - 1
  <2>1. Below(x) \in SUBSET S /\ Below(x) # S
    OBVIOUS
  <2> HIDE DEF Below
  <2>2. IsFiniteSet(Below(x)) /\ Cardinality(Below(x)) <= n /\ Cardinality(Below(x)) # n
    BY <2>1, FS_Subset
  <2>3. Cardinality(Below(x)) \in Nat
    BY <2>2, FS_CardinalityType
  <2> QED
    BY <1>1, <2>2, <2>3
<1>3. ASSUME NEW x \in S, NEW y \in S, <<x, y>> \in R PROVE Cardinality(Below(x)) # Cardinality(Below(y))
  <2>1. Below(x) \in SUBSET Below(y) /\ x \in Below(y) /\ x \notin Below(x)
    BY <1>3
  <2> HIDE DEF Below
  <2> QED
    BY <1>2, <2>1, FS_Subset
<1>4. ASSUME NEW x \in S PROVE place[x] \in 1 .. n /\ place[x] = Cardinality(Below(x)) + 1
  <2>1. place[x] = Cardinality(Below(x)) + 1
    OBVIOUS
  <2>2. Cardinality(Below(x)) \in 0 .. n - 1
    BY <1>2
  <2> HIDE DEF Below, place, n
  <2> QED
    BY <1>1, <2>1, <2>2
<1>5. ASSUME NEW x \in S, NEW y \in S, place[x] = place[y] PROVE x = y
  <2>1. Cardinality(Below(x)) \in 0 .. n - 1 /\ Cardinality(Below(y)) \in 0 .. n - 1
    BY <1>2
  <2>2. place[x] = Cardinality(Below(x)) + 1 /\ place[y] = Cardinality(Below(y)) + 1
    BY <1>4
  <2>3. x = y \/ <<x, y>> \in R \/ <<y, x>> \in R
    OBVIOUS
  <2>4. <<x, y>> \in R => Cardinality(Below(x)) # Cardinality(Below(y))
    BY <1>3
  <2>5. <<y, x>> \in R => Cardinality(Below(y)) # Cardinality(Below(x))
    BY <1>3
  <2>6. Cardinality(Below(x)) = Cardinality(Below(y))
    <3> DEFINE cx == Cardinality(Below(x))
               cy == Cardinality(Below(y))
    <3>1. cx \in Int /\ cy \in Int /\ cx + 1 = cy + 1
      BY <1>1, <1>5, <2>1, <2>2
    <3> HIDE DEF cx, cy
    <3>2. cx = cy
      BY <3>1
    <3> QED
      BY <3>2 DEF cx, cy
  <2> QED
    BY <2>3, <2>4, <2>5, <2>6
<1>6. place \in Injection(S, 1 .. n)
  <2>1. place \in [S -> 1 .. n]
    BY <1>4
  <2> HIDE DEF place
  <2> QED
    BY <1>5, <2>1 DEF Injection, IsInjective
<1>7. IsFiniteSet(1 .. n) /\ Cardinality(1 .. n) = n
  BY <1>1, FS_Interval
<1>8. place \in Surjection(S, 1 .. n)
  <2> HIDE DEF place
  <2> QED
    BY <1>6, <1>7, FS_Injection
<1>9. \A i \in 1 .. n : \E x \in S : place[x] = i
  <2> HIDE DEF place
  <2> QED
    BY <1>8 DEF Surjection
<1> QED
  BY <1>4, <1>9

\* Every snapshot has a stamp of its own, which no request and no run under
\* way has, and the capital of what it counts.
SnapshotsStamped ==
    /\ IsFiniteSet(snapshots)
    /\ \A sn \in snapshots : /\ sn.at \in Nat /\ sn.created \in 1 .. clock
                             /\ sn.invested = InvestedCapital(sn.counted)
    /\ \A sn, other \in snapshots : sn.created = other.created => sn = other

\* The stamp of a request under way is nobody else's.
RequestsStamped ==
    \A s \in Sessions : pc[s] # "idle" =>
        /\ req[s].created \in 1 .. clock
        /\ \A r \in Sessions \ {s} : pc[r] # "idle" => req[r].created # req[s].created
        /\ \A sn \in snapshots : sn.created # req[s].created

\* Nor is that of a run.
RunsStamped ==
    \A w \in Workers : stage[w] # "idle" =>
        /\ began[w] \in 1 .. clock
        /\ \A v \in Workers \ {w} : stage[v] # "idle" => began[v] # began[w]
        /\ \A s \in Sessions : pc[s] # "idle" => req[s].created # began[w]
        /\ \A sn \in snapshots : sn.created # began[w]

StampsApart == SnapshotsStamped /\ RequestsStamped /\ RunsStamped

\* Nobody begins and nothing is stored.
LEMMA StampsKept ==
    ASSUME StampsApart, clock' = clock, snapshots' = snapshots,
           \A s \in Sessions : pc'[s] # "idle" => pc[s] # "idle" /\ req'[s] = req[s],
           \A w \in Workers : stage'[w] # "idle" => stage[w] # "idle" /\ began'[w] = began[w]
    PROVE  StampsApart'
<1>1. SnapshotsStamped'
  BY DEF StampsApart, SnapshotsStamped
<1>2. RequestsStamped'
  BY DEF StampsApart, RequestsStamped
<1>3. RunsStamped'
  BY DEF StampsApart, RunsStamped
<1> QED
  BY <1>1, <1>2, <1>3 DEF StampsApart

\* A session that begins, or a run, draws a stamp that nobody has.
LEMMA StampDrawn ==
    ASSUME StampsApart, clock \in Nat, clock' = clock + 1, snapshots' = snapshots,
           \A s \in Sessions : pc'[s] # "idle" =>
              \/ pc[s] # "idle" /\ req'[s] = req[s]
              \/ /\ req'[s].created = clock + 1
                 /\ \A r \in Sessions \ {s} : pc'[r] # "idle" => pc[r] # "idle" /\ req'[r] = req[r]
                 /\ \A w \in Workers : stage'[w] # "idle" => stage[w] # "idle" /\ began'[w] = began[w],
           \A w \in Workers : stage'[w] # "idle" =>
              \/ stage[w] # "idle" /\ began'[w] = began[w]
              \/ /\ began'[w] = clock + 1
                 /\ \A v \in Workers \ {w} : stage'[v] # "idle" => stage[v] # "idle" /\ began'[v] = began[v]
                 /\ \A s \in Sessions : pc'[s] # "idle" => pc[s] # "idle" /\ req'[s] = req[s]
    PROVE  StampsApart'
<1>1. SnapshotsStamped'
  BY DEF StampsApart, SnapshotsStamped
<1>2. RequestsStamped'
  BY DEF StampsApart, RequestsStamped, SnapshotsStamped
<1>3. RunsStamped'
  BY DEF StampsApart, RequestsStamped, RunsStamped, SnapshotsStamped
<1> QED
  BY <1>1, <1>2, <1>3 DEF StampsApart

\* A session or a run that ends leaves its stamp to the snapshot it stores.
LEMMA StampLeft ==
    ASSUME StampsApart, clock' = clock, NEW new, snapshots' = snapshots \cup {new},
           new.at \in Nat, new.created \in 1 .. clock, new.invested = InvestedCapital(new.counted),
           \A sn \in snapshots : sn.created # new.created,
           \A s \in Sessions : pc'[s] # "idle" =>
              pc[s] # "idle" /\ req'[s] = req[s] /\ req[s].created # new.created,
           \A w \in Workers : stage'[w] # "idle" =>
              stage[w] # "idle" /\ began'[w] = began[w] /\ began[w] # new.created
    PROVE  StampsApart'
<1>1. SnapshotsStamped'
  <2>1. IsFiniteSet(snapshots')
    BY FS_AddElement DEF StampsApart, SnapshotsStamped
  <2> QED
    BY <2>1 DEF StampsApart, SnapshotsStamped
<1>2. RequestsStamped'
  BY DEF StampsApart, RequestsStamped
<1>3. RunsStamped'
  BY DEF StampsApart, RunsStamped
<1> QED
  BY <1>1, <1>2, <1>3 DEF StampsApart

\* Whatever the write path does.
LEMMA StampsPathStep ==
    ASSUME LedgerTypeOK, StampsApart, LedgerSide
    PROVE  StampsApart'
<1>1. ASSUME clock' = clock, snapshots' = snapshots,
             \A s \in Sessions : pc'[s] # "idle" => pc[s] # "idle" /\ req'[s] = req[s]
      PROVE  StampsApart'
  BY <1>1, StampsKept DEF LedgerSide, workerVars
<1>2. CASE UNCHANGED ledgerVars
  BY <1>1, <1>2 DEF ledgerVars, dbVars, sessionVars
<1>3. ASSUME NEW s \in Sessions, Begin(s) PROVE StampsApart'
  <2>1. /\ clock' = clock + 1 /\ clock \in Nat /\ snapshots' = snapshots
        /\ req'[s].created = clock + 1
        /\ \A r \in Sessions : r # s => pc'[r] = pc[r] /\ req'[r] = req[r]
    BY <1>3 DEF Begin, dbVars, LedgerTypeOK
  <2>2. UNCHANGED <<stage, began>>
    BY DEF LedgerSide, workerVars
  <2> QED
    BY <2>1, <2>2, StampDrawn
<1>4. ASSUME NEW s \in Sessions, NEW why, RollBack(s, why) PROVE StampsApart'
  <2>1. \A r \in Sessions : pc'[r] # "idle" => pc[r] # "idle" /\ req'[r] = req[r]
    BY <1>4 DEF RollBack, End, Forget, LedgerTypeOK
  <2> QED
    BY <1>1, <1>4, <2>1 DEF RollBack, End, dbVars
<1>5. ASSUME NEW s \in Sessions, LockHolding(s) \/ Flush(s) \/ ReadHoldings(s) \/ ReadTransactions(s),
             ~\E why : RollBack(s, why)
      PROVE  StampsApart'
  <2>1. req' = req /\ clock' = clock /\ snapshots' = snapshots
    BY <1>5 DEF LockHolding, Flush, ReadHoldings, ReadTransactions, dbVars
  <2>2. pc[s] # "idle"
    BY <1>5 DEF LockHolding, Flush, ReadHoldings, ReadTransactions
  <2>3. \A r \in Sessions : r # s => pc'[r] = pc[r]
    BY <1>5, OthersUntouched DEF Step
  <2> QED
    BY <1>1, <2>1, <2>2, <2>3
<1>6. ASSUME NEW s \in Sessions, Commit(s) PROVE StampsApart'
  <2>1. /\ pc[s] # "idle" /\ clock' = clock
        /\ snapshots' \in {snapshots, snapshots \cup {SnapshotOf(s)}}
    BY <1>6 DEF Commit, End
  <2>2. \A r \in Sessions : pc'[r] # "idle" => r # s /\ pc[r] # "idle" /\ req'[r] = req[r]
    BY <1>6 DEF Commit, End, Forget, LedgerTypeOK
  <2>3. PICK new : new = SnapshotOf(s)
    OBVIOUS
  <2>4. /\ new.at = req[s].date /\ new.created = req[s].created
        /\ new.invested = InvestedCapital(new.counted)
    BY <2>3 DEF SnapshotOf, Snapshot
  <2>5. req[s].date \in Nat
    BY DEF LedgerTypeOK, Stamped
  <2>6. UNCHANGED <<stage, began>>
    BY DEF LedgerSide, workerVars
  <2>7. CASE snapshots' = snapshots
    BY <1>1, <2>1, <2>2, <2>7
  <2>8. CASE snapshots' = snapshots \cup {new}
    <3>1. new.created \in 1 .. clock /\ \A sn \in snapshots : sn.created # new.created
      BY <2>1, <2>4 DEF StampsApart, RequestsStamped
    <3>2. \A r \in Sessions : pc'[r] # "idle" => pc[r] # "idle" /\ req'[r] = req[r] /\ req[r].created # new.created
      BY <2>1, <2>2, <2>4 DEF StampsApart, RequestsStamped
    <3>3. \A w \in Workers : stage'[w] # "idle" =>
             stage[w] # "idle" /\ began'[w] = began[w] /\ began[w] # new.created
      BY <2>1, <2>4, <2>6 DEF StampsApart, RunsStamped
    <3> QED
      BY <2>1, <2>4, <2>5, <2>8, <3>1, <3>2, <3>3, StampLeft
  <2> QED
    BY <2>1, <2>3, <2>7, <2>8
<1>7. ASSUME NEW a \in Retirable, SetActive(a) PROVE StampsApart'
  BY <1>1, <1>7 DEF SetActive, sessionVars
<1> QED
  BY <1>2, <1>3, <1>4, <1>5, <1>6, <1>7 DEF LedgerSide, LedgerNext, Step, Disconnect

\* And whatever a run does.
LEMMA StampsRunStep ==
    ASSUME LedgerTypeOK, WorkersTyped, StampsApart, NEW w \in Workers, WorkerSide(w)
    PROVE  StampsApart'
<1>1. UNCHANGED <<pc, req>> /\ clock \in Nat
  BY WorkerBeside, LedgerAssumption DEF Beside, sessionVars, LedgerTypeOK
<1>2. ASSUME NEW how, Finish(w, how)
      PROVE  \A v \in Workers : stage'[v] # "idle" => v # w /\ stage[v] # "idle" /\ began'[v] = began[v]
  BY <1>2 DEF Finish, WorkersTyped
<1>3. ASSUME NEW how, Finish(w, how), clock' = clock, snapshots' = snapshots PROVE StampsApart'
  BY <1>1, <1>2, <1>3, StampsKept
<1>4. CASE StartEod(w)
  <2>1. /\ clock' = clock + 1 /\ snapshots' = snapshots /\ began'[w] = clock + 1
        /\ \A v \in Workers \ {w} : stage'[v] = stage[v] /\ began'[v] = began[v]
    BY <1>4 DEF StartEod, dbVars, WorkersTyped
  <2> QED
    BY <1>1, <2>1, StampDrawn
<1>5. ASSUME stage[w] # "idle", clock' = clock, snapshots' = snapshots, began' = began,
             \A v \in Workers \ {w} : stage'[v] = stage[v]
      PROVE  StampsApart'
  BY <1>1, <1>5, StampsKept
<1>10. CASE CheckEod(w)
  <2>1. CASE EodOf(today[w]) # {}
    BY <1>3, <1>10, <2>1 DEF CheckEod, ledgerVars, dbVars
  <2>2. CASE EodOf(today[w]) = {}
    BY <1>5, <1>10, <2>2 DEF CheckEod, ledgerVars, dbVars, WorkersTyped
  <2> QED
    BY <2>1, <2>2
<1>11. CASE StampEod(w)
  BY <1>5, <1>11 DEF StampEod, ledgerVars, dbVars, WorkersTyped
<1>6. CASE EodReadHoldings(w)
  BY <1>5, <1>6 DEF EodReadHoldings, ledgerVars, dbVars, WorkersTyped
<1>7. CASE EodReadTransactions(w)
  BY <1>3, <1>5, <1>7 DEF EodReadTransactions, ledgerVars, dbVars, WorkersTyped
<1>8. CASE WorkerDies(w)
  BY <1>3, <1>8 DEF WorkerDies, ledgerVars, dbVars
<1>9. CASE SaveEod(w)
  <2>1. CASE EodTaken(w)
    BY <1>3, <1>9, <2>1 DEF SaveEod, ledgerVars, dbVars
  <2>2. CASE ~EodTaken(w)
    <3>1. PICK new : new = EodSnapshot(w)
      OBVIOUS
    <3>2. /\ new.at = snapshotAt[w] /\ new.created = began[w]
          /\ new.invested = InvestedCapital(new.counted)
      BY <3>1 DEF EodSnapshot, Snapshot
    <3>3. snapshotAt[w] \in Nat
      BY HistoryAssumption DEF WorkersTyped, Evening
    <3>4. stage[w] # "idle" /\ clock' = clock /\ snapshots' = snapshots \cup {new} /\ Finish(w, "created")
      BY <1>9, <2>2, <3>1 DEF SaveEod
    <3>5. new.created \in 1 .. clock /\ \A sn \in snapshots : sn.created # new.created
      BY <3>2, <3>4 DEF StampsApart, RunsStamped
    <3>6. \A s \in Sessions : pc'[s] # "idle" => pc[s] # "idle" /\ req'[s] = req[s] /\ req[s].created # new.created
      BY <1>1, <3>2, <3>4 DEF StampsApart, RunsStamped
    <3>7. \A v \in Workers : stage'[v] # "idle" =>
             stage[v] # "idle" /\ began'[v] = began[v] /\ began[v] # new.created
      BY <1>2, <3>2, <3>4 DEF StampsApart, RunsStamped
    <3> QED
      BY <3>2, <3>3, <3>4, <3>5, <3>6, <3>7, StampLeft
  <2> QED
    BY <2>1, <2>2
<1> QED
  BY <1>4, <1>6, <1>7, <1>8, <1>9, <1>10, <1>11 DEF WorkerSide

-----------------------------------------------------------------------------
(* What a snapshot is worth. *)

\* A sum over some transactions is the same sum over a part of all of them.
LEMMA SignedPart ==
    ASSUME NEW C, IsFiniteSet(C), C \subseteq Recorded, NEW v, v = [t \in C |-> Signed(t)],
           NEW X, X \subseteq C
    PROVE  MapThenSumSet(Signed, X) = Amount(v, X)
<1> DEFINE u == [t \in X |-> Signed(t)]
<1>1. \A t \in C : Signed(t) \in Int
  BY DEF Recorded, Signed
<1>2. IsFiniteSet(X)
  BY FS_Subset
<1>3. MapThenSumSet(Signed, X) = Amount(u, X)
  BY <1>1, <1>2, SignedSum
<1>4. X \subseteq DOMAIN u /\ X \subseteq DOMAIN v /\ \A t \in X : u[t] = v[t]
  OBVIOUS
<1> HIDE DEF u
<1> QED
  BY <1>3, <1>4, AmountSame

\* The transactions of a set are cash flows or trades: its sum is the capital
\* and what trades put in.
LEMMA SplitByKind ==
    ASSUME NEW C, IsFiniteSet(C), C \subseteq Recorded, NEW v, v = [t \in C |-> Signed(t)]
    PROVE  /\ InvestedCapital(C) \in Int
           /\ MapThenSumSet(Signed, {t \in C : IsTrade(t)}) \in Int
           /\ Amount(v, C) = InvestedCapital(C) + MapThenSumSet(Signed, {t \in C : IsTrade(t)})
<1> DEFINE F == {t \in C : IsCashFlow(t)}
           D == {t \in C : IsTrade(t)}
<1>1. F \cup D = C /\ F \cap D = {} /\ F \subseteq C /\ D \subseteq C
  BY DEF Recorded, Types, TradeTypes, CashFlowTypes, IsTrade, IsCashFlow
<1>2. InvestedCapital(C) = MapThenSumSet(Signed, F)
  BY DEF InvestedCapital
<1>3. C \subseteq DOMAIN v /\ \A t \in C : v[t] \in Int
  BY DEF Recorded, Signed
<1> HIDE DEF F, D
<1>4. IsFiniteSet(F) /\ IsFiniteSet(D)
  BY <1>1, FS_Subset
<1>5. MapThenSumSet(Signed, F) = Amount(v, F)
  <2>1. F \subseteq C
    BY <1>1
  <2> QED
    BY <2>1, SignedPart
<1>6. MapThenSumSet(Signed, D) = Amount(v, D)
  <2>1. D \subseteq C
    BY <1>1
  <2> QED
    BY <2>1, SignedPart
<1>7. F \cup D \subseteq DOMAIN v /\ \A t \in F \cup D : v[t] \in Int
  BY <1>1, <1>3
<1>8. Amount(v, F) \in Int /\ Amount(v, D) \in Int /\ Amount(v, F \cup D) = Amount(v, F) + Amount(v, D)
  BY <1>1, <1>4, <1>7, AmountParts
<1> QED
  BY <1>1, <1>2, <1>5, <1>6, <1>8 DEF D

\* Each is of one asset: its sum is that of what the assets hold.
LEMMA SplitByAsset ==
    ASSUME NEW C, IsFiniteSet(C), C \subseteq Recorded, NEW v, v = [t \in C |-> Signed(t)],
           NEW held, DOMAIN held = Assets, \A a \in Assets : held[a] = Net(C, a)
    PROVE  (\A a \in Assets : held[a] \in Int) /\ Amount(held, Assets) = Amount(v, C)
<1> DEFINE key == [t \in C |-> t.asset]
<1>1. IsFiniteSet(Assets) /\ v \in [C -> Int] /\ Assets \subseteq DOMAIN held
  BY LedgerAssumption DEF Recorded, Signed
<1>2. ASSUME NEW a \in Assets PROVE held[a] = Amount(v, {t \in C : key[t] = a})
  <2> DEFINE X == {t \in C : t.asset = a}
  <2>1. X = {t \in C : key[t] = a} /\ X \subseteq C /\ Net(C, a) = MapThenSumSet(Signed, X)
    BY DEF Net
  <2> HIDE DEF X, key
  <2>2. MapThenSumSet(Signed, X) = Amount(v, X)
    BY <2>1, SignedPart
  <2> QED
    BY <2>1, <2>2
<1>3. {t \in C : key[t] \in Assets} = C
  BY DEF Recorded
<1> HIDE DEF key
<1> QED
  BY <1>1, <1>2, <1>3, AmountGrouped

\* The value of a snapshot is a sum.
LEMMA ValueSum ==
    ASSUME NEW sn, IsFiniteSet(DOMAIN sn.items), \A a \in DOMAIN sn.items : sn.items[a] \in Int,
           NEW held, held = sn.items
    PROVE  ValueOf(sn) = Amount(held, DOMAIN held)
<1> DEFINE S == DOMAIN sn.items
           v == [a \in S |-> sn.items[a]]
           Eq(g) == g = [s \in SUBSET S |->
                           IF s = {} THEN 0
                           ELSE sn.items[CHOOSE x \in s : TRUE] + g[s \ {CHOOSE x \in s : TRUE}]]
           iter == CHOOSE g : Eq(g)
<1>1. ValueOf(sn) = iter[S]
  BY DEF ValueOf, MapThenSumSet, MapThenFoldSet
<1>2. v \in [S -> Int] /\ S \subseteq DOMAIN v /\ \A a \in S : v[a] = held[a]
  OBVIOUS
<1>3. ASSUME NEW g PROVE Eq(g) <=> AddsUp(g, v, S)
  <2>1. \A s \in SUBSET S : s # {} => v[CHOOSE x \in s : TRUE] = sn.items[CHOOSE x \in s : TRUE]
    OBVIOUS
  <2> HIDE DEF v, S
  <2> QED
    BY <2>1 DEF AddsUp
<1>4. IsFiniteSet(S) /\ S = DOMAIN held
  OBVIOUS
<1> HIDE DEF v, S
<1>5. \E g : Eq(g)
  <2>1. AddsUp([s \in SUBSET S |-> Amount(v, s)], v, S)
    BY <1>2, <1>4, SumExists
  <2> HIDE DEF Eq
  <2> QED
    BY <1>3, <2>1
<1>6. Eq(iter)
  BY <1>5
<1> HIDE DEF iter, Eq
<1>7. iter[S] = Amount(v, S)
  BY <1>2, <1>3, <1>4, <1>6, SumUnique
<1>8. Amount(v, S) = Amount(held, S)
  BY <1>2, <1>4, AmountSame
<1> QED
  BY <1>1, <1>4, <1>7, <1>8

\* A consistent snapshot of all assets is worth its capital and what trades
\* have put in.
LEMMA WorthOfConsistent ==
    ASSUME NEW sn, IsFiniteSet(sn.counted), sn.counted \subseteq Recorded,
           sn.invested = InvestedCapital(sn.counted), Consistent(sn), ListsAll(sn)
    PROVE  /\ sn.invested \in Int /\ TradesIn(sn) \in Int
           /\ ValueOf(sn) = sn.invested + TradesIn(sn)
<1>1. PICK C : C = sn.counted
  OBVIOUS
<1>2. PICK held : held = sn.items
  OBVIOUS
<1>3. DOMAIN held = Assets /\ \A a \in Assets : held[a] = Net(C, a)
  BY <1>1, <1>2 DEF Consistent, ListsAll
<1>4. PICK v : v = [t \in C |-> Signed(t)]
  OBVIOUS
<1>5. (\A a \in Assets : held[a] \in Int) /\ Amount(held, Assets) = Amount(v, C)
  BY <1>1, <1>3, <1>4, SplitByAsset
<1>6. /\ InvestedCapital(C) \in Int
      /\ MapThenSumSet(Signed, {t \in C : IsTrade(t)}) \in Int
      /\ Amount(v, C) = InvestedCapital(C) + MapThenSumSet(Signed, {t \in C : IsTrade(t)})
  BY <1>1, <1>4, SplitByKind
<1>7. TradesIn(sn) = MapThenSumSet(Signed, {t \in C : IsTrade(t)})
  BY <1>1 DEF TradesIn
<1>8. ValueOf(sn) = Amount(held, DOMAIN held)
  <2>1. DOMAIN sn.items = Assets /\ IsFiniteSet(Assets) /\ \A a \in Assets : sn.items[a] \in Int
    BY <1>2, <1>3, <1>5, LedgerAssumption
  <2> QED
    BY <1>2, <2>1, ValueSum
<1> QED
  BY <1>1, <1>3, <1>5, <1>6, <1>7, <1>8

\* The timeline is made of the stored snapshots.
LEMMA TimelineIsStored ==
    ASSUME SnapshotsStamped, NEW i \in DOMAIN Timeline
    PROVE  Timeline[i] \in snapshots
<1>1. PICK S : S = snapshots
  OBVIOUS
<1>2. PICK R : R = {p \in S \X S : Earlier(p[1], p[2])}
  OBVIOUS
<1>3. \A x, y \in S : <<x, y>> \in R <=> Earlier(x, y)
  BY <1>2
<1>4. \A x \in S : x.at \in Int /\ x.created \in Int
  BY <1>1 DEF SnapshotsStamped
<1>5. \A x, y \in S : x.created = y.created => x = y
  BY <1>1 DEF SnapshotsStamped
<1>6. \A x \in S : <<x, x>> \notin R
  BY <1>3, <1>4 DEF Earlier
<1>7. \A x, y, z \in S : <<x, y>> \in R /\ <<y, z>> \in R => <<x, z>> \in R
  BY <1>3, <1>4 DEF Earlier
<1>8. ASSUME NEW x \in S, NEW y \in S PROVE x = y \/ <<x, y>> \in R \/ <<y, x>> \in R
  <2>1. Earlier(x, y) \/ Earlier(y, x) \/ x.created = y.created
    BY <1>4 DEF Earlier
  <2> QED
    BY <1>3, <1>5, <2>1
<1>9. \A j \in 1 .. Cardinality(S) : \E x \in S : Cardinality({y \in S : <<y, x>> \in R}) + 1 = j
  <2>1. IsFiniteSet(S)
    BY <1>1 DEF SnapshotsStamped
  <2>2. \A x, y \in S : x = y \/ <<x, y>> \in R \/ <<y, x>> \in R
    BY <1>8
  <2> QED
    BY <1>6, <1>7, <2>1, <2>2, PlacesFilled
<1>10. \A x \in S : {y \in S : <<y, x>> \in R} = {y \in S : Earlier(y, x)}
  BY <1>3
<1>11. i \in 1 .. Cardinality(S) /\ Timeline[i] = CHOOSE sn \in snapshots : Place(sn) = i
  BY <1>1 DEF Timeline
<1>12. \E sn \in snapshots : Place(sn) = i
  BY <1>1, <1>9, <1>10, <1>11 DEF Place
<1> QED
  BY <1>11, <1>12

\* What a snapshot counts is part of the committed history.
LEMMA CountedFinite ==
    ASSUME LedgerTypeOK, SnapshotsAreCuts, NEW sn \in snapshots
    PROVE  IsFiniteSet(sn.counted) /\ sn.counted \subseteq Recorded
<1>1. PICK m \in 0 .. Len(history) : sn.counted = SeenBy(sn, m)
  BY DEF SnapshotsAreCuts
<1>2. IsFiniteSet(Committed) /\ Committed \subseteq Recorded
  BY CommittedFinite
<1>3. SeenBy(sn, m) \subseteq Committed
  BY DEF SeenBy, Committed, LedgerTypeOK
<1> QED
  BY <1>1, <1>2, <1>3, FS_Subset

\* Between two consistent snapshots a period gains what its trades put in, and
\* no deposit or withdrawal adds to it (twr_engine.py,
\* portfolio_analytics_service.py).
THEOREM GainsComeFromTrades == HistorySpec => []GainsAreTrades
<1>1. HistoryInit => StampsApart
  BY FS_EmptySet DEF HistoryInit, LedgerInit, StampsApart, SnapshotsStamped, RequestsStamped, RunsStamped
<1>2. HistoryTypeOK /\ StampsApart /\ [HistoryNext]_historyVars => StampsApart'
  <2> SUFFICES ASSUME LedgerTypeOK, WorkersTyped, StampsApart, [HistoryNext]_historyVars
               PROVE  StampsApart'
    BY DEF HistoryTypeOK, WorkersTyped
  <2>1. day \in Int
    BY HistoryAssumption DEF WorkersTyped
  <2> QED
    BY <2>1, TwoSides, StampsPathStep, StampsRunStep
<1>3. HistoryTypeOK /\ StampsApart /\ SnapshotsAreCuts => GainsAreTrades
  <2> SUFFICES ASSUME LedgerTypeOK, SnapshotsStamped, SnapshotsAreCuts, NEW i \in DOMAIN Timeline \ {1},
                      Consistent(Timeline[i - 1]), ListsAll(Timeline[i - 1]),
                      Consistent(Timeline[i]), ListsAll(Timeline[i])
               PROVE  Returns!PreFlowValue(Returns!Points(Observations)[i])
                         - Returns!Points(Observations)[i - 1].value
                      = TradesIn(Timeline[i]) - TradesIn(Timeline[i - 1])
    BY DEF HistoryTypeOK, StampsApart, GainsAreTrades
  <2>1. i \in DOMAIN Timeline /\ i - 1 \in DOMAIN Timeline /\ i # 1
    <3>1. Cardinality(snapshots) \in Nat
      BY FS_CardinalityType DEF SnapshotsStamped
    <3> QED
      BY <3>1 DEF Timeline
  <2>2. PICK last : last = Timeline[i - 1]
    OBVIOUS
  <2>3. PICK now : now = Timeline[i]
    OBVIOUS
  <2>4. last \in snapshots /\ now \in snapshots
    BY <2>1, <2>2, <2>3, TimelineIsStored
  <2>5. /\ last.invested \in Int /\ TradesIn(last) \in Int
        /\ ValueOf(last) = last.invested + TradesIn(last)
    BY <2>2, <2>4, CountedFinite, WorthOfConsistent DEF SnapshotsStamped
  <2>6. /\ now.invested \in Int /\ TradesIn(now) \in Int
        /\ ValueOf(now) = now.invested + TradesIn(now)
    BY <2>3, <2>4, CountedFinite, WorthOfConsistent DEF SnapshotsStamped
  <2>7. Returns!Points(Observations)[i] = [value |-> ValueOf(now), flow |-> now.invested - last.invested]
    BY <2>1, <2>2, <2>3 DEF Observations, Returns!Points, Returns!Flow
  <2>8. Returns!Points(Observations)[i - 1].value = ValueOf(last)
    BY <2>1, <2>2 DEF Observations, Returns!Points
  <2>9. Returns!PreFlowValue(Returns!Points(Observations)[i]) = ValueOf(now) - (now.invested - last.invested)
    BY <2>7 DEF Returns!PreFlowValue
  <2> QED
    BY <2>2, <2>3, <2>5, <2>6, <2>8, <2>9
<1> QED
  BY <1>1, <1>2, <1>3, HistoryTypeCorrect, HistorySnapshotsCut, PTL DEF HistorySpec
=============================================================================
