--------------------------- MODULE BalanceProofs ----------------------------
(***************************************************************************)
(* The two invariants of the write path that are about sums: a holding is   *)
(* what its transactions add up to, and a snapshot shows two moments of the *)
(* committed history.  Both are lemmas on a step of LedgerNext and theorems *)
(* of LedgerSpec; HistoryProofs takes the same steps beside the worker's.   *)
(***************************************************************************)
EXTENDS LedgerProofs, SumFacts

-----------------------------------------------------------------------------
(* What a set of transactions moves. *)

\* The recursive sum over a set of transactions is its total.
LEMMA SignedSum ==
    ASSUME NEW S, IsFiniteSet(S), \A t \in S : Signed(t) \in Int
    PROVE  MapThenSumSet(Signed, S) = Amount([t \in S |-> Signed(t)], S)
<1> DEFINE v == [t \in S |-> Signed(t)]
           Eq(g) == g = [s \in SUBSET S |->
                           IF s = {} THEN 0
                           ELSE Signed(CHOOSE x \in s : TRUE) + g[s \ {CHOOSE x \in s : TRUE}]]
           iter == CHOOSE g : Eq(g)
<1>1. MapThenSumSet(Signed, S) = iter[S]
  BY DEF MapThenSumSet, MapThenFoldSet
<1>2. v \in [S -> Int]
  OBVIOUS
<1>3. ASSUME NEW g PROVE Eq(g) <=> AddsUp(g, v, S)
  <2>1. \A s \in SUBSET S : s # {} => v[CHOOSE x \in s : TRUE] = Signed(CHOOSE x \in s : TRUE)
    OBVIOUS
  <2> HIDE DEF v
  <2> QED
    BY <2>1 DEF AddsUp
<1>4. \E g : Eq(g)
  BY <1>2, <1>3, SumExists
<1>5. Eq(iter)
  BY <1>4
<1> HIDE DEF v, iter, Eq
<1> QED
  BY <1>1, <1>2, <1>3, <1>5, SumUnique DEF v

\* Nothing moves nothing.
LEMMA SignedSumEmpty == MapThenSumSet(Signed, {}) = 0
<1>1. IsFiniteSet({}) /\ \A t \in {} : Signed(t) \in Int
  BY FS_EmptySet
<1> QED
  BY <1>1, SignedSum, AmountEmpty

\* One more transaction moves its own quantity.
LEMMA SignedSumAdd ==
    ASSUME NEW S, IsFiniteSet(S), \A u \in S : Signed(u) \in Int,
           NEW t, t \notin S, Signed(t) \in Int
    PROVE  /\ MapThenSumSet(Signed, S) \in Int
           /\ MapThenSumSet(Signed, S \cup {t}) = MapThenSumSet(Signed, S) + Signed(t)
<1> DEFINE R == S \cup {t}
           v == [u \in R |-> Signed(u)]
           w == [u \in S |-> Signed(u)]
<1>1. IsFiniteSet(R)
  BY FS_AddElement
<1>2. MapThenSumSet(Signed, S) = Amount(w, S) /\ MapThenSumSet(Signed, R) = Amount(v, R)
  BY <1>1, SignedSum
<1>3. Amount(v, S) = Amount(w, S)
  <2>1. \A x \in S : v[x] = w[x] /\ [u \in DOMAIN v |-> -v[u]][x] = [u \in DOMAIN w |-> -w[u]][x]
    OBVIOUS
  <2>2. \A f, g : (\A x \in S : f[x] = g[x]) => Units(f, S) = Units(g, S)
    BY DEF Units
  <2> HIDE DEF v, w
  <2> QED
    BY <2>1, <2>2 DEF Amount
<1>4. Amount(v, S) \in Int /\ Amount(v, R) = Amount(v, S) + v[t]
  <2>1. R \subseteq DOMAIN v /\ \A x \in R : v[x] \in Int
    OBVIOUS
  <2> HIDE DEF v
  <2> QED
    BY <2>1, AmountAdd
<1> QED
  BY <1>2, <1>3, <1>4

\* One more transaction changes the net quantity of its own asset only.
LEMMA NetAdd ==
    ASSUME NEW S, IsFiniteSet(S), S \subseteq Recorded, NEW t \in Recorded, t \notin S, NEW a
    PROVE  /\ Net(S, a) \in Int
           /\ Net(S \cup {t}, a) = Net(S, a) + (IF t.asset = a THEN Signed(t) ELSE 0)
<1> DEFINE mine == {u \in S : u.asset = a}
<1>1. \A u \in S \cup {t} : Signed(u) \in Int
  BY DEF Recorded, Signed
<1>2. IsFiniteSet(mine) /\ t \notin mine /\ \A u \in mine : Signed(u) \in Int
  BY <1>1, FS_Subset
<1>3. {u \in S \cup {t} : u.asset = a} = IF t.asset = a THEN mine \cup {t} ELSE mine
  OBVIOUS
<1>4. Net(S, a) = MapThenSumSet(Signed, mine)
      /\ Net(S \cup {t}, a) = MapThenSumSet(Signed, IF t.asset = a THEN mine \cup {t} ELSE mine)
  BY <1>3 DEF Net
<1>5. /\ MapThenSumSet(Signed, mine) \in Int
      /\ MapThenSumSet(Signed, mine \cup {t}) = MapThenSumSet(Signed, mine) + Signed(t)
  <2> HIDE DEF mine
  <2> QED
    BY <1>1, <1>2, SignedSumAdd
<1> HIDE DEF mine
<1>6. CASE t.asset = a
  BY <1>4, <1>5, <1>6
<1>7. CASE t.asset # a
  BY <1>4, <1>5, <1>7
<1> QED
  BY <1>6, <1>7

\* Where nothing has happened there is nothing.
LEMMA NetEmpty == \A a : Net({}, a) = 0
<1> TAKE a
<1>1. {t \in {} : t.asset = a} = {}
  OBVIOUS
<1> QED
  BY <1>1, SignedSumEmpty DEF Net

-----------------------------------------------------------------------------
(* The committed history and its time stamps. *)

\* The first n transactions of the history.
First(n) == {history[i] : i \in 1 .. n}

\* created_at tells the rows of the history apart, from each other and from
\* those still to come.
RowsStamped ==
    /\ \A i \in DOMAIN history : history[i].created \in 1 .. clock
    /\ \A i, j \in DOMAIN history : history[i].created = history[j].created => i = j
    /\ \A s \in Sessions : pc[s] # "idle" =>
          \A i \in DOMAIN history : history[i].created # req[s].created

\* A part of the history is a finite set.
LEMMA FirstFinite ==
    ASSUME LedgerTypeOK, NEW n \in 0 .. Len(history)
    PROVE  IsFiniteSet(First(n)) /\ First(n) \subseteq Recorded
<1>1. n \in Nat /\ 1 \in Int /\ n \in Int /\ \A i \in 1 .. n : history[i] \in Recorded
  BY DEF LedgerTypeOK
<1> DEFINE f == [i \in 1 .. n |-> history[i]]
<1>2. f \in Surjection(1 .. n, First(n))
  BY DEF First, Surjection
<1>3. IsFiniteSet(1 .. n)
  BY <1>1, FS_Interval
<1> HIDE DEF f
<1>4. IsFiniteSet(First(n))
  BY <1>2, <1>3, FS_Surjection
<1> QED
  BY <1>1, <1>4 DEF First

\* All of it is what is committed.
LEMMA CommittedFinite ==
    ASSUME LedgerTypeOK
    PROVE  /\ Committed = First(Len(history))
           /\ Len(history) \in 0 .. Len(history)
           /\ IsFiniteSet(Committed) /\ Committed \subseteq Recorded
<1>1. Len(history) \in 0 .. Len(history) /\ DOMAIN history = 1 .. Len(history)
  BY DEF LedgerTypeOK
<1>2. Committed = First(Len(history))
  BY <1>1 DEF Committed, First
<1> QED
  BY <1>1, <1>2, FirstFinite

\* A commit appends one row, with a stamp that no row has.
LEMMA CommitAppends ==
    ASSUME LedgerTypeOK, RowsStamped, NEW s \in Sessions, Commit(s)
    PROVE  /\ Row(s) \in Recorded /\ Row(s).created = req[s].created /\ Row(s).asset = Target(s)
           /\ \A t \in Committed : t.created # req[s].created
           /\ Row(s) \notin Committed
           /\ Committed' = Committed \cup {Row(s)}
           /\ Len(history') = Len(history) + 1
           /\ \A i \in 1 .. Len(history) : history'[i] = history[i]
           /\ history'[Len(history) + 1] = Row(s)
           /\ \A n \in 0 .. Len(history) : First(n)' = First(n)
<1> DEFINE t == Row(s)
           n == Len(history)
<1>1. t \in Recorded /\ t.created = req[s].created /\ t.asset = Target(s)
  BY RowType DEF Row, Target
<1>2. pc[s] = "commit" /\ history' = Append(history, t) /\ history \in Seq(Recorded)
  BY DEF Commit, LedgerTypeOK
<1>3. \A u \in Committed : u.created # req[s].created
  BY <1>2 DEF RowsStamped, Committed
<1> HIDE DEF t
<1>4. /\ n \in Nat /\ Len(history') = n + 1 /\ history'[n + 1] = t
      /\ \A i \in 1 .. n : history'[i] = history[i]
      /\ DOMAIN history' = 1 .. n + 1 /\ DOMAIN history = 1 .. n
  BY <1>1, <1>2
<1> HIDE DEF n
<1>5. Committed' = Committed \cup {t}
  <2>1. ASSUME NEW x \in Committed' PROVE x \in Committed \cup {t}
    <3>1. PICK i \in 1 .. n + 1 : x = history'[i]
      BY <1>4 DEF Committed
    <3> QED
      BY <1>4, <3>1 DEF Committed
  <2>2. ASSUME NEW x \in Committed PROVE x \in Committed'
    BY <1>4 DEF Committed
  <2>3. t \in Committed'
    <3>1. n + 1 \in DOMAIN history'
      BY <1>4
    <3> QED
      BY <1>4, <3>1 DEF Committed
  <2> QED
    BY <2>1, <2>2, <2>3
<1>6. \A m \in 0 .. n : First(m)' = First(m)
  BY <1>4 DEF First
<1> QED
  BY <1>1, <1>3, <1>4, <1>5, <1>6 DEF t, n

\* Stamps are handed out once, so no step makes two rows share one.
LEMMA RowsStampedStep ==
    ASSUME LedgerTypeOK, StampsDiffer, RowsStamped, [LedgerNext]_ledgerVars
    PROVE  RowsStamped'
<1>1. CASE \E s \in Sessions : Commit(s)
  <2>1. PICK s \in Sessions : Commit(s)
    BY <1>1
  <2>2. clock' = clock /\ pc[s] = "commit"
        /\ \A r \in Sessions : pc'[r] # "idle" => r # s /\ pc[r] # "idle" /\ req'[r] = req[r]
    BY <2>1 DEF Commit, End, Forget, LedgerTypeOK
  <2>3. req[s].created \in 1 .. clock
        /\ \A r \in Sessions : r # s /\ pc[r] # "idle" => req[r].created # req[s].created
    BY <2>2 DEF StampsDiffer
  <2>4. /\ DOMAIN history = 1 .. Len(history) /\ DOMAIN history' = 1 .. Len(history) + 1
        /\ Len(history) \in Nat
    <3>1. history \in Seq(Recorded) /\ Row(s) \in Recorded /\ history' = Append(history, Row(s))
      BY <2>1, RowType DEF LedgerTypeOK, Commit
    <3> QED
      BY <3>1
  <2>5. /\ Row(s).created = req[s].created
        /\ \A i \in 1 .. Len(history) : history'[i] = history[i]
        /\ history'[Len(history) + 1] = Row(s)
    BY <2>1, CommitAppends
  <2>6. \A i \in DOMAIN history : history[i].created # req[s].created
    BY <2>2 DEF RowsStamped
  <2>7. \A i \in DOMAIN history' :
           \/ i \in DOMAIN history /\ history'[i] = history[i]
           \/ i = Len(history) + 1 /\ history'[i] = Row(s)
    BY <2>4, <2>5
  <2> QED
    BY <2>2, <2>3, <2>5, <2>6, <2>7 DEF RowsStamped
<1>2. CASE ~\E s \in Sessions : Commit(s)
  <2>1. history' = history
    BY <1>2, OnlyCommitWrites
  <2>2. ASSUME clock' = clock, \A r \in Sessions : pc'[r] # "idle" => pc[r] # "idle" /\ req'[r] = req[r]
        PROVE  RowsStamped'
    BY <2>1, <2>2 DEF RowsStamped
  <2>3. ASSUME NEW s \in Sessions, Begin(s) PROVE RowsStamped'
    <3>1. /\ clock' = clock + 1 /\ clock \in Nat /\ req'[s].created = clock + 1
          /\ \A r \in Sessions : r # s => pc'[r] = pc[r] /\ req'[r] = req[r]
      BY <2>3 DEF Begin, LedgerTypeOK
    <3> QED
      BY <2>1, <3>1 DEF RowsStamped
  <2>4. ASSUME NEW s \in Sessions, NEW why, RollBack(s, why) PROVE RowsStamped'
    <3>1. \A r \in Sessions : pc'[r] # "idle" => pc[r] # "idle" /\ req'[r] = req[r]
      BY <2>4 DEF RollBack, End, Forget, LedgerTypeOK
    <3> QED
      BY <2>2, <2>4, <3>1 DEF RollBack, End
  <2>5. ASSUME NEW s \in Sessions, LockHolding(s) \/ Flush(s) \/ ReadHoldings(s) \/ ReadTransactions(s),
               ~\E why : RollBack(s, why)
        PROVE  RowsStamped'
    <3>1. req' = req /\ clock' = clock
      BY <2>5 DEF LockHolding, Flush, ReadHoldings, ReadTransactions
    <3>2. pc[s] # "idle"
      BY <2>5 DEF LockHolding, Flush, ReadHoldings, ReadTransactions
    <3>3. \A r \in Sessions : r # s => pc'[r] = pc[r]
      BY <2>5, OthersUntouched DEF Step
    <3> QED
      BY <2>2, <3>1, <3>2, <3>3
  <2>6. CASE UNCHANGED <<clock, sessionVars>>
    BY <2>2, <2>6 DEF sessionVars
  <2> QED
    BY <1>2, <2>3, <2>4, <2>5, <2>6
       DEF LedgerNext, Step, Disconnect, SetActive, ledgerVars
<1> QED
  BY <1>1, <1>2

-----------------------------------------------------------------------------
(* Holdings are what their transactions add up to. *)

\* A commit adds to the holding what it adds to the history.
LEMMA HoldingsStep ==
    ASSUME LedgerTypeOK, ReadStaysTrue, RowsStamped, HoldingsAreDerived, [LedgerNext]_ledgerVars
    PROVE  HoldingsAreDerived'
<1>1. CASE ~\E s \in Sessions : Commit(s)
  BY <1>1, OnlyCommitWrites DEF HoldingsAreDerived, Committed
<1>2. ASSUME NEW s \in Sessions, Commit(s) PROVE HoldingsAreDerived'
  <2> DEFINE t == Row(s)
  <2>1. /\ t \in Recorded /\ t.asset \in Assets /\ Signed(t) \in Int
        /\ t.after = quantity[t.asset] + Signed(t)
        /\ quantity' = [quantity EXCEPT ![t.asset] = t.after]
    BY <1>2, CommitEffect
  <2>2. t \notin Committed /\ Committed' = Committed \cup {t} /\ t.asset = Target(s)
    BY <1>2, CommitAppends
  <2>3. rows' = rows \cup {t.asset}
    BY <1>2, <2>2 DEF Commit
  <2>4. IsFiniteSet(Committed) /\ Committed \subseteq Recorded
    BY CommittedFinite
  <2>5. quantity \in [Assets -> Nat]
    BY DEF LedgerTypeOK
  <2> HIDE DEF t
  <2>6. ASSUME NEW a \in Assets
        PROVE  quantity'[a] = Net(Committed', a) /\ (a \in rows' <=> \E u \in Committed' : u.asset = a)
    <3>1. /\ Net(Committed, a) \in Int
          /\ Net(Committed', a) = Net(Committed, a) + (IF t.asset = a THEN Signed(t) ELSE 0)
      BY <2>1, <2>2, <2>4, NetAdd
    <3>2. quantity[a] = Net(Committed, a) /\ (a \in rows <=> \E u \in Committed : u.asset = a)
      BY DEF HoldingsAreDerived
    <3>3. quantity'[a] = IF t.asset = a THEN quantity[a] + Signed(t) ELSE quantity[a]
      BY <2>1, <2>5
    <3>4. quantity'[a] = Net(Committed', a)
      BY <2>1, <3>1, <3>2, <3>3
    <3> QED
      BY <2>2, <2>3, <3>2, <3>4
  <2> QED
    BY <2>6 DEF HoldingsAreDerived, Net
<1> QED
  BY <1>1, <1>2

\* The first state has no transactions and no holdings.
LEMMA HoldingsInit == LedgerInit => HoldingsAreDerived /\ StampsDiffer /\ RowsStamped
<1> SUFFICES ASSUME LedgerInit PROVE HoldingsAreDerived /\ StampsDiffer /\ RowsStamped
  OBVIOUS
<1>1. Committed = {} /\ DOMAIN history = {}
  BY DEF LedgerInit, Committed
<1>2. HoldingsAreDerived
  BY <1>1, NetEmpty DEF LedgerInit, HoldingsAreDerived
<1> QED
  BY <1>1, <1>2 DEF LedgerInit, StampsDiffer, RowsStamped

\* No update of a holding is lost and none counts twice: whatever requests
\* overlap, holdings.quantity is the sum over the transactions of its asset
\* ("Transaction Atomicity" in FINANCIAL_RULES.md, apply_buy and its kin).
THEOREM HoldingsDerived == LedgerSpec => []HoldingsAreDerived
<1> DEFINE Inv == HoldingsAreDerived /\ StampsDiffer /\ RowsStamped
<1>1. LedgerInit => Inv
  BY HoldingsInit
<1>2. LedgerTypeOK /\ ReadStaysTrue /\ Inv /\ [LedgerNext]_ledgerVars => Inv'
  BY HoldingsStep, StampsDifferStep, RowsStampedStep
<1> QED
  BY <1>1, <1>2, TypeCorrect, ReadsStayTrue, PTL DEF LedgerSpec

-----------------------------------------------------------------------------
(* Snapshots are cuts of the history. *)

\* The values are those that the first n transactions, and own, leave.
Shows(values, n, own) == \A a \in DOMAIN values : values[a] = Net(First(n) \cup own, a)

\* What a session has gathered for its snapshot is a cut, its own transaction
\* added, from its first read on.
GathersCut(s) ==
    /\ pc[s] = "transactions" => \E n \in 0 .. Len(history) : Shows(items[s], n, {Row(s)})
    /\ pc[s] = "commit" /\ IsCashFlow(req[s]) =>
          \E m \in 0 .. Len(history) : \E n \in 0 .. m :
             visible[s] = First(m) \cup {Row(s)} /\ Shows(items[s], n, {Row(s)})

\* A snapshot that no transaction caused has no transaction as its source.
SourcesKnown == \A sn \in snapshots : sn.trigger # "TRANSACTION" => sn.source = 0

CutsGathered == SourcesKnown /\ \A s \in Sessions : GathersCut(s)

\* The history only grows, so that a part of it remains what it was.
LEMMA HistoryGrows ==
    ASSUME LedgerTypeOK, RowsStamped, [LedgerNext]_ledgerVars
    PROVE  /\ Len(history) \in Nat /\ Len(history)' \in Nat /\ Len(history) <= Len(history)'
           /\ \A n \in 0 .. Len(history) : First(n)' = First(n)
<1>1. Len(history) \in Nat
  BY DEF LedgerTypeOK
<1>2. ASSUME NEW s \in Sessions, Commit(s)
      PROVE  Len(history)' = Len(history) + 1 /\ \A n \in 0 .. Len(history) : First(n)' = First(n)
  BY <1>2, CommitAppends
<1>3. CASE ~\E s \in Sessions : Commit(s)
  BY <1>1, <1>3, OnlyCommitWrites DEF First
<1> QED
  BY <1>1, <1>2, <1>3

\* A session that does not move keeps its cut.
LEMMA KeepsCut ==
    ASSUME LedgerTypeOK, RowsStamped, [LedgerNext]_ledgerVars, NEW r \in Sessions, GathersCut(r),
           pc'[r] = pc[r], req'[r] = req[r], result'[r] = result[r], items'[r] = items[r],
           visible'[r] = visible[r]
    PROVE  GathersCut(r)'
<1>1. /\ Len(history) \in Nat /\ Len(history)' \in Nat /\ Len(history) <= Len(history)'
      /\ \A n \in 0 .. Len(history) : First(n)' = First(n)
  BY HistoryGrows
<1>2. Row(r)' = Row(r) /\ IsCashFlow(req[r])' = IsCashFlow(req[r])
  BY DEF Row, IsCashFlow
<1>3. ASSUME NEW n \in 0 .. Len(history), Shows(items[r], n, {Row(r)})
      PROVE  Shows(items[r], n, {Row(r)})'
  BY <1>1, <1>2, <1>3 DEF Shows, Net
<1>4. \A n \in 0 .. Len(history) : n \in 0 .. Len(history)'
  BY <1>1
<1>5. ASSUME pc[r] = "transactions" PROVE \E n \in 0 .. Len(history)' : Shows(items[r], n, {Row(r)})'
  BY <1>3, <1>4, <1>5 DEF GathersCut
<1>6. ASSUME pc[r] = "commit", IsCashFlow(req[r])
      PROVE  \E m \in 0 .. Len(history)' : \E n \in 0 .. m :
                (visible[r] = First(m) \cup {Row(r)})' /\ Shows(items[r], n, {Row(r)})'
  <2>0. PICK m \in 0 .. Len(history) : \E n \in 0 .. m :
           visible[r] = First(m) \cup {Row(r)} /\ Shows(items[r], n, {Row(r)})
    BY <1>6 DEF GathersCut
  <2>1. PICK n \in 0 .. m :
           visible[r] = First(m) \cup {Row(r)} /\ Shows(items[r], n, {Row(r)})
    BY <2>0
  <2>2. n \in 0 .. Len(history)
    BY <1>1
  <2>3. (visible[r] = First(m) \cup {Row(r)})' /\ Shows(items[r], n, {Row(r)})'
    BY <1>1, <1>2, <1>3, <2>1, <2>2
  <2> QED
    BY <1>4, <2>3
<1> QED
  BY <1>2, <1>5, <1>6 DEF GathersCut

\* The holdings a session reads, its own among them, are those of the history
\* committed so far and its own transaction.
LEMMA HoldingsReadAreCut ==
    ASSUME LedgerTypeOK, ReadStaysTrue, RowsStamped, HoldingsAreDerived,
           NEW s \in Sessions, ReadHoldings(s)
    PROVE  Shows(Valued(OwnFlushed(s)), Len(history), {Row(s)})
<1> DEFINE t == Row(s)
           values == Valued(OwnFlushed(s))
<1>1. pc[s] = "holdings" /\ pc[s] # "idle" /\ Decided(s) /\ Flushed(s)
  BY DEF ReadHoldings, Decided, Flushed
<1>2. result[s] = quantity[Target(s)] + Signed(req[s])
  BY <1>1 DEF ReadStaysTrue, ReadHolds
<1>3. t \in Recorded /\ t.asset = Target(s) /\ t.created = req[s].created /\ Signed(t) = Signed(req[s])
  BY RowType DEF Row, Target, Signed, TakesOut
<1>4. t \notin Committed
  BY <1>1, <1>3 DEF RowsStamped, Committed
<1>5. IsFiniteSet(Committed) /\ Committed \subseteq Recorded /\ Committed = First(Len(history))
  BY CommittedFinite
<1>6. active \subseteq Assets /\ quantity \in [Assets -> Nat] /\ Target(s) \in Assets
  BY DEF LedgerTypeOK, Target, Stamped
<1>7. DOMAIN values = active
      /\ \A a \in active : values[a] = IF a = Target(s) THEN result[s] ELSE quantity[a]
  BY <1>6 DEF Valued, OwnFlushed
<1>8. Signed(t) \in Int
  BY <1>3 DEF Recorded, Signed
<1> HIDE DEF t, values
<1>9. ASSUME NEW a \in active PROVE values[a] = Net(Committed \cup {t}, a)
  <2>1. Net(Committed, a) \in Int
        /\ Net(Committed \cup {t}, a) = Net(Committed, a) + (IF t.asset = a THEN Signed(t) ELSE 0)
    BY <1>3, <1>4, <1>5, NetAdd
  <2>2. quantity[a] = Net(Committed, a)
    BY <1>6 DEF HoldingsAreDerived
  <2>3. CASE a = Target(s)
    BY <1>2, <1>3, <1>7, <1>8, <2>1, <2>2, <2>3
  <2>4. CASE a # Target(s)
    BY <1>3, <1>7, <2>1, <2>2, <2>4
  <2> QED
    BY <2>3, <2>4
<1> QED
  BY <1>5, <1>7, <1>9 DEF Shows, t, values

\* Every step keeps the cuts under construction.
LEMMA CutsGatheredStep ==
    ASSUME LedgerTypeOK, ReadStaysTrue, RowsStamped, HoldingsAreDerived, CutsGathered,
           [LedgerNext]_ledgerVars
    PROVE  CutsGathered'
<1>1. SourcesKnown'
  <2>1. CASE ~\E s \in Sessions : Commit(s)
    BY <2>1, OnlyCommitWrites DEF CutsGathered, SourcesKnown
  <2>2. ASSUME NEW s \in Sessions, Commit(s) PROVE SourcesKnown'
    <3>1. snapshots' \in {snapshots, snapshots \cup {SnapshotOf(s)}}
          /\ SnapshotOf(s).trigger = "TRANSACTION"
      BY <2>2 DEF Commit, SnapshotOf, Snapshot
    <3> QED
      BY <3>1 DEF CutsGathered, SourcesKnown
  <2> QED
    BY <2>1, <2>2
<1> SUFFICES ASSUME NEW r \in Sessions PROVE GathersCut(r)'
  BY <1>1 DEF CutsGathered
<1>2. GathersCut(r)
  BY DEF CutsGathered
<1>3. ASSUME pc'[r] = pc[r], req'[r] = req[r], result'[r] = result[r], items'[r] = items[r],
             visible'[r] = visible[r]
      PROVE  GathersCut(r)'
  BY <1>2, <1>3, KeepsCut
<1>4. ASSUME NEW s \in Sessions, s # r, Begin(s) \/ Step(s) \/ Disconnect(s) PROVE GathersCut(r)'
  BY <1>3, <1>4, OthersUntouched
<1>5. CASE UNCHANGED sessionVars
  BY <1>3, <1>5 DEF sessionVars
<1>6. ASSUME pc'[r] \in {"idle", "lock", "flush", "holdings"} PROVE GathersCut(r)'
  BY <1>6 DEF GathersCut
<1>7. ASSUME NEW answer, End(r, answer) PROVE GathersCut(r)'
  BY <1>6, <1>7 DEF End, LedgerTypeOK
<1>8. CASE Begin(r) \/ LockHolding(r) \/ Commit(r) \/ Disconnect(r)
  BY <1>6, <1>7, <1>8 DEF Begin, LockHolding, Commit, Disconnect, RollBack, LedgerTypeOK
<1>9. CASE Flush(r)
  <2>1. CASE RollBack(r, "conflict")
    BY <1>7, <2>1 DEF RollBack
  <2>2. CASE ~RollBack(r, "conflict")
    <3>1. pc'[r] = (IF IsCashFlow(req[r]) THEN "holdings" ELSE "commit") /\ req'[r] = req[r]
      BY <1>9, <2>2 DEF Flush, LedgerTypeOK
    <3> QED
      BY <3>1 DEF GathersCut, IsCashFlow
  <2> QED
    BY <2>1, <2>2
<1>10. CASE ReadHoldings(r)
  <2>1. /\ items'[r] = Valued(OwnFlushed(r)) /\ pc'[r] = "transactions" /\ history' = history
        /\ req'[r] = req[r] /\ result'[r] = result[r]
    BY <1>10 DEF ReadHoldings, LedgerTypeOK, dbVars
  <2>2. Shows(Valued(OwnFlushed(r)), Len(history), {Row(r)}) /\ Len(history) \in 0 .. Len(history)
    BY <1>10, HoldingsReadAreCut, CommittedFinite
  <2>3. Row(r)' = Row(r) /\ Len(history)' = Len(history)
    BY <2>1 DEF Row
  <2>4. Shows(items[r], Len(history), {Row(r)})'
    BY <2>1, <2>2, <2>3 DEF Shows, Net, First
  <2> QED
    BY <2>1, <2>2, <2>3, <2>4 DEF GathersCut
<1>11. CASE ReadTransactions(r)
  <2>1. CASE RollBack(r, "error")
    BY <1>7, <2>1 DEF RollBack
  <2>2. CASE ~RollBack(r, "error")
    <3>1. /\ visible'[r] = Committed \cup {Row(r)} /\ pc[r] = "transactions" /\ pc'[r] = "commit"
          /\ req'[r] = req[r] /\ result'[r] = result[r] /\ items'[r] = items[r] /\ history' = history
      BY <1>11, <2>2 DEF ReadTransactions, Counted, LedgerTypeOK, dbVars
    <3>2. PICK n \in 0 .. Len(history) : Shows(items[r], n, {Row(r)})
      BY <1>2, <3>1 DEF GathersCut
    <3>3. Committed = First(Len(history)) /\ Len(history) \in 0 .. Len(history)
      BY CommittedFinite
    <3>4. Row(r)' = Row(r) /\ Len(history)' = Len(history) /\ \A m : First(m)' = First(m)
      BY <3>1 DEF Row, First
    <3>5. (visible[r] = First(Len(history)) \cup {Row(r)})' /\ Shows(items[r], n, {Row(r)})'
      BY <3>1, <3>2, <3>3, <3>4 DEF Shows, Net
    <3> QED
      BY <3>1, <3>2, <3>3, <3>4, <3>5 DEF GathersCut
  <2> QED
    BY <2>1, <2>2
<1> QED
  BY <1>4, <1>5, <1>8, <1>9, <1>10, <1>11 DEF LedgerNext, Step, SetActive, ledgerVars

\* A commit adds a cut to the snapshots and takes nothing from the others.
LEMMA CutsStep ==
    ASSUME LedgerTypeOK, StampsDiffer, RowsStamped, CutsGathered, SnapshotsAreCuts,
           [LedgerNext]_ledgerVars
    PROVE  SnapshotsAreCuts'
<1>1. CASE ~\E s \in Sessions : Commit(s)
  <2>1. history' = history /\ snapshots' = snapshots
    BY <1>1, OnlyCommitWrites
  <2>2. \A sn, n : SeenBy(sn, n)' = SeenBy(sn, n)
    BY <2>1 DEF SeenBy, Committed
  <2>3. \A sn, n, a : Net(SeenBy(sn, n), a)' = Net(SeenBy(sn, n), a)
    BY <2>2 DEF Net
  <2> QED
    BY <2>1, <2>2, <2>3 DEF SnapshotsAreCuts
<1>2. ASSUME NEW s \in Sessions, Commit(s) PROVE SnapshotsAreCuts'
  <2> DEFINE t == Row(s)
             new == SnapshotOf(s)
  <2>1. /\ t.created = req[s].created
        /\ \A u \in Committed : u.created # req[s].created
        /\ Committed' = Committed \cup {t}
        /\ Len(history') = Len(history) + 1
        /\ \A n \in 0 .. Len(history) : First(n)' = First(n)
    BY <1>2, CommitAppends
  <2>2. /\ pc[s] = "commit" /\ req[s].created \in Nat /\ req[s].created # 0 /\ Len(history) \in Nat
        /\ snapshots' = IF IsCashFlow(req[s]) THEN snapshots \cup {new} ELSE snapshots
    BY <1>2 DEF Commit, StampsDiffer, LedgerTypeOK
  <2>3. \A sn : \A n : SeenBy(sn, n) = First(n) \cup {u \in Committed : u.created = sn.source}
                       /\ SeenBy(sn, n)' = First(n)' \cup {u \in Committed' : u.created = sn.source}
    BY DEF SeenBy, First
  <2>4. new.source = req[s].created /\ new.items = items[s] /\ new.counted = visible[s]
    BY DEF SnapshotOf, Snapshot
  <2> HIDE DEF t, new
  <2>5. ASSUME NEW sn \in snapshots
        PROVE  \E m \in 0 .. Len(history)' : \E n \in 0 .. m :
                  /\ sn.counted = SeenBy(sn, m)'
                  /\ \A a \in DOMAIN sn.items : sn.items[a] = Net(SeenBy(sn, n), a)'
    <3>1. req[s].created # sn.source
      BY <2>2 DEF StampsDiffer, CutsGathered, SourcesKnown
    <3>2. \A n \in 0 .. Len(history) : SeenBy(sn, n)' = SeenBy(sn, n)
      BY <2>1, <2>3, <3>1
    <3>3. PICK m \in 0 .. Len(history) : \E n \in 0 .. m :
             /\ sn.counted = SeenBy(sn, m)
             /\ \A a \in DOMAIN sn.items : sn.items[a] = Net(SeenBy(sn, n), a)
      BY DEF SnapshotsAreCuts
    <3>4. PICK n \in 0 .. m :
             /\ sn.counted = SeenBy(sn, m)
             /\ \A a \in DOMAIN sn.items : sn.items[a] = Net(SeenBy(sn, n), a)
      BY <3>3
    <3>5. n \in 0 .. Len(history) /\ m \in 0 .. Len(history)'
      BY <2>1, <2>2
    <3>6. \A a : Net(SeenBy(sn, n), a)' = Net(SeenBy(sn, n), a)
      BY <3>2, <3>5 DEF Net
    <3> QED
      BY <3>2, <3>4, <3>5, <3>6
  <2>6. ASSUME IsCashFlow(req[s]), NEW sn, sn = new
        PROVE  \E m \in 0 .. Len(history)' : \E n \in 0 .. m :
                  /\ sn.counted = SeenBy(sn, m)'
                  /\ \A a \in DOMAIN sn.items : sn.items[a] = Net(SeenBy(sn, n), a)'
    <3>0. PICK m \in 0 .. Len(history) : \E n \in 0 .. m :
             visible[s] = First(m) \cup {t} /\ Shows(items[s], n, {t})
      BY <2>2, <2>6 DEF CutsGathered, GathersCut, t
    <3>1. PICK n \in 0 .. m : visible[s] = First(m) \cup {t} /\ Shows(items[s], n, {t})
      BY <3>0
    <3>2. \A k \in 0 .. Len(history) : SeenBy(sn, k)' = First(k) \cup {t}
      BY <2>1, <2>3, <2>4, <2>6
    <3>3. n \in 0 .. Len(history) /\ m \in 0 .. Len(history)'
      BY <2>1, <2>2
    <3>4. \A a : Net(SeenBy(sn, n), a)' = Net(First(n) \cup {t}, a)
      BY <3>2, <3>3 DEF Net
    <3> QED
      BY <2>4, <2>6, <3>1, <3>2, <3>3, <3>4 DEF Shows
  <2> QED
    BY <2>2, <2>5, <2>6 DEF SnapshotsAreCuts
<1> QED
  BY <1>1, <1>2

\* The first state has no snapshots, and none is being built.
LEMMA CutsInit == LedgerInit => SnapshotsAreCuts /\ CutsGathered
<1> QED
  BY DEF LedgerInit, SnapshotsAreCuts, CutsGathered, SourcesKnown, GathersCut

\* Whatever commits between the statements that build it, a snapshot shows the
\* holdings of one moment of the committed history and the capital of the same
\* or a later one, its own transaction in both (build_post_transaction_snapshot).
THEOREM SnapshotsCut == LedgerSpec => []SnapshotsAreCuts
<1> DEFINE Inv == /\ HoldingsAreDerived /\ StampsDiffer /\ RowsStamped
                  /\ CutsGathered /\ SnapshotsAreCuts
<1>1. LedgerInit => Inv
  BY HoldingsInit, CutsInit
<1>2. LedgerTypeOK /\ ReadStaysTrue /\ Inv /\ [LedgerNext]_ledgerVars => Inv'
  BY HoldingsStep, StampsDifferStep, RowsStampedStep, CutsGatheredStep, CutsStep
<1> QED
  BY <1>1, <1>2, TypeCorrect, ReadsStayTrue, PTL DEF LedgerSpec
=============================================================================
