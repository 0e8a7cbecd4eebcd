---------------------------- MODULE LedgerProofs ----------------------------
(***************************************************************************)
(* What holds of the write path for any number of sessions, assets, dates   *)
(* and requests, and without the bound on the clock being small.            *)
(***************************************************************************)
EXTENDS Ledger, SequenceTheorems, TLAPS

-----------------------------------------------------------------------------
(* Types. *)

\* An idle session's placeholder is a request stamped 0.
LEMMA BlankType == Blank \in Stamped
<1>1. PICK some \in Requests : TRUE
  BY LedgerAssumption
<1>2. (CHOOSE r \in Requests : TRUE) \in Requests
  BY <1>1
<1> QED
  BY <1>2, LedgerAssumption DEF Blank, Stamped

\* A typed request moves a whole, positive number of units.
LEMMA StampedParts ==
    ASSUME NEW r \in Stamped
    PROVE  /\ r.type \in Types /\ r.asset \in Assets /\ r.qty \in Nat \ {0}
           /\ r.date \in Nat /\ r.created \in Nat
           /\ Signed(r) \in Int
<1> QED
  BY DEF Stamped, Signed

\* A request that is accepted leaves no negative quantity.
LEMMA AcceptedStaysNatural ==
    ASSUME NEW r \in Stamped, NEW held \in Nat, Accepts(r, held)
    PROVE  held + Signed(r) \in Nat
<1> QED
  BY DEF Stamped, Accepts, Signed

\* The transactions row a session writes is a well-formed one.
LEMMA RowType ==
    ASSUME NEW s \in Sessions, LedgerTypeOK
    PROVE  Row(s) \in Recorded
<1> QED
  BY DEF Row, Recorded, LedgerTypeOK, Stamped

\* What is committed is a set of well-formed transactions rows.
LEMMA CommittedType ==
    ASSUME LedgerTypeOK
    PROVE  Committed \subseteq Recorded
<1> QED
  BY DEF Committed, LedgerTypeOK

\* The conjuncts of the type invariant about items.
ItemsTyped ==
    /\ DOMAIN items = Sessions
    /\ \A s \in Sessions : \E listed \in SUBSET Assets : items[s] \in [listed -> Nat]

\* A session that has valued nothing yet has a well-typed, empty valuation.
LEMMA NoItemsType == \E listed \in SUBSET Assets : NoItems \in [listed -> Nat]
<1>1. NoItems \in [{} -> Nat] /\ {} \in SUBSET Assets
  BY DEF NoItems
<1> QED
  BY <1>1

\* A session that ends leaves its variables typed.
LEMMA EndType ==
    ASSUME LedgerTypeOK, NEW s \in Sessions, NEW answer \in Replies, End(s, answer)
    PROVE  /\ clock' \in 0 .. MaxClock
           /\ lockOf' \in [Assets -> Sessions \cup {Free}]
           /\ pc' \in [Sessions -> Steps]
           /\ req' \in [Sessions -> Stamped]
           /\ found' \in [Sessions -> BOOLEAN]
           /\ result' \in [Sessions -> Nat]
           /\ ItemsTyped'
           /\ visible' \in [Sessions -> SUBSET Recorded]
           /\ reply' \in [Sessions -> Replies]
<1> USE DEF End, Forget, LedgerTypeOK
<1>1. lockOf' \in [Assets -> Sessions \cup {Free}]
  BY DEF Released
<1>2. pc' \in [Sessions -> Steps]
  BY DEF Steps
<1>3. req' \in [Sessions -> Stamped]
  BY BlankType
<1>4. ItemsTyped'
  BY NoItemsType DEF ItemsTyped
<1>5. found' \in [Sessions -> BOOLEAN] /\ reply' \in [Sessions -> Replies]
  OBVIOUS
<1>6. result' \in [Sessions -> Nat] /\ visible' \in [Sessions -> SUBSET Recorded]
  OBVIOUS
<1> QED
  BY <1>1, <1>2, <1>3, <1>4, <1>5, <1>6

\* A request that is rolled back leaves the database as it was.
LEMMA RollBackType ==
    ASSUME LedgerTypeOK, NEW s \in Sessions, NEW why \in Replies, RollBack(s, why)
    PROVE  LedgerTypeOK'
<1> QED
  BY EndType DEF RollBack, dbVars, LedgerTypeOK, ItemsTyped

\* No step leaves the types: in particular no holding is ever written with a
\* negative quantity.
LEMMA TypeStep ==
    ASSUME LedgerTypeOK, [LedgerNext]_ledgerVars
    PROVE  LedgerTypeOK'
<1>1. CASE UNCHANGED ledgerVars
  BY <1>1 DEF LedgerTypeOK, ledgerVars, dbVars, sessionVars
<1>2. ASSUME NEW s \in Sessions, Begin(s) PROVE LedgerTypeOK'
  <2>1. PICK r \in Requests, d \in Dates :
           req' = [req EXCEPT ![s] = [type |-> r.type, asset |-> r.asset, qty |-> r.qty,
                                      date |-> d, created |-> clock']]
    BY <1>2 DEF Begin
  <2>2. clock' \in 0 .. MaxClock
    BY <1>2, LedgerAssumption DEF Begin, LedgerTypeOK
  <2>3. req' \in [Sessions -> Stamped]
    BY <2>1, <2>2, LedgerAssumption DEF LedgerTypeOK, Stamped
  <2>4. pc' \in [Sessions -> Steps] /\ reply' \in [Sessions -> Replies]
    BY <1>2 DEF Begin, LedgerTypeOK, Steps, Replies
  <2>5. UNCHANGED <<rows, quantity, history, active, lockOf, found, result, items, visible>>
    BY <1>2 DEF Begin, dbVars
  <2> QED
    BY <2>2, <2>3, <2>4, <2>5 DEF LedgerTypeOK
<1>3. ASSUME NEW s \in Sessions, LockHolding(s) PROVE LedgerTypeOK'
  <2>1. CASE RollBack(s, "rejected")
    BY <2>1, RollBackType DEF Replies
  <2>2. CASE ~RollBack(s, "rejected")
    <3>1. Accepts(req[s], quantity[Target(s)])
      BY <1>3, <2>2 DEF LockHolding
    <3>2. quantity[Target(s)] + Signed(req[s]) \in Nat
      BY <3>1, AcceptedStaysNatural DEF LedgerTypeOK, Target, Stamped
    <3>3. result' \in [Sessions -> Nat]
      BY <1>3, <2>2, <3>2 DEF LockHolding, LedgerTypeOK
    <3>4. lockOf' \in [Assets -> Sessions \cup {Free}]
      <4>1. lockOf' = lockOf \/ lockOf' = [lockOf EXCEPT ![Target(s)] = s]
        BY <1>3, <2>2 DEF LockHolding
      <4> QED
        BY <4>1 DEF LedgerTypeOK
    <3>5. found' \in [Sessions -> BOOLEAN]
      <4> DEFINE hasRow == Target(s) \in rows
      <4>1. found' = [found EXCEPT ![s] = hasRow]
        BY <1>3, <2>2 DEF LockHolding
      <4>2. hasRow \in BOOLEAN
        OBVIOUS
      <4> HIDE DEF hasRow
      <4> QED
        BY <4>1, <4>2 DEF LedgerTypeOK
    <3>6. pc' \in [Sessions -> Steps]
      BY <1>3, <2>2 DEF LockHolding, LedgerTypeOK, Steps
    <3>7. UNCHANGED <<rows, quantity, history, active, clock, req, items, visible, reply>>
      BY <1>3, <2>2 DEF LockHolding, dbVars
    <3> QED
      BY <3>3, <3>4, <3>5, <3>6, <3>7 DEF LedgerTypeOK
  <2> QED
    BY <2>1, <2>2
<1>4. ASSUME NEW s \in Sessions, Flush(s) PROVE LedgerTypeOK'
  <2>1. CASE RollBack(s, "conflict")
    BY <2>1, RollBackType DEF Replies
  <2>2. CASE ~RollBack(s, "conflict")
    <3>1. /\ lockOf' = [lockOf EXCEPT ![Target(s)] = s]
          /\ \E step \in Steps : pc' = [pc EXCEPT ![s] = step]
          /\ UNCHANGED <<rows, quantity, history, active, clock, req, found, result,
                         items, visible, reply>>
      BY <1>4, <2>2 DEF Flush, dbVars, Steps
    <3> QED
      BY <3>1 DEF LedgerTypeOK
  <2> QED
    BY <2>1, <2>2
<1>5. ASSUME NEW s \in Sessions, ReadHoldings(s) PROVE LedgerTypeOK'
  <2>1. active \in SUBSET Assets /\ Valued(OwnFlushed(s)) \in [active -> Nat]
    BY DEF Valued, OwnFlushed, LedgerTypeOK
  <2>2. ItemsTyped'
    BY <1>5, <2>1 DEF ReadHoldings, ItemsTyped, LedgerTypeOK
  <2> QED
    BY <1>5, <2>2 DEF ReadHoldings, ItemsTyped, LedgerTypeOK, dbVars, Steps
<1>6. ASSUME NEW s \in Sessions, ReadTransactions(s) PROVE LedgerTypeOK'
  <2>1. CASE RollBack(s, "error")
    BY <2>1, RollBackType DEF Replies
  <2>2. CASE ~RollBack(s, "error")
    <3>1. Counted(s) \subseteq Recorded
      BY CommittedType, RowType DEF Counted
    <3> QED
      BY <1>6, <2>2, <3>1 DEF ReadTransactions, LedgerTypeOK, dbVars, Steps
  <2> QED
    BY <2>1, <2>2
<1>7. ASSUME NEW s \in Sessions, Commit(s) PROVE LedgerTypeOK'
  <2>1. PICK answer \in {"created", "lost"} : End(s, answer)
    BY <1>7 DEF Commit
  <2>2. rows' \subseteq Assets /\ quantity' \in [Assets -> Nat]
    BY <1>7 DEF Commit, LedgerTypeOK, Target, Stamped
  <2>3. history' \in Seq(Recorded)
    <3>1. history' = Append(history, Row(s))
      BY <1>7 DEF Commit
    <3>2. history \in Seq(Recorded) /\ Row(s) \in Recorded
      BY RowType DEF LedgerTypeOK
    <3> QED
      BY <3>1, <3>2
  <2>4. active' \subseteq Assets
    BY <1>7 DEF Commit, LedgerTypeOK
  <2> QED
    BY <2>1, <2>2, <2>3, <2>4, EndType DEF LedgerTypeOK, ItemsTyped, Replies
<1>8. ASSUME NEW s \in Sessions, Disconnect(s) PROVE LedgerTypeOK'
  BY <1>8, RollBackType DEF Disconnect, Replies
<1>9. ASSUME NEW a \in Retirable, SetActive(a) PROVE LedgerTypeOK'
  BY <1>9, LedgerAssumption DEF SetActive, LedgerTypeOK, sessionVars
<1> QED
  BY <1>1, <1>2, <1>3, <1>4, <1>5, <1>6, <1>7, <1>8, <1>9 DEF LedgerNext, Step

\* The first state is typed.
LEMMA LedgerInitTyped == LedgerInit => LedgerTypeOK
<1> QED
  BY BlankType, NoItemsType, LedgerAssumption, EmptySeq DEF LedgerInit, LedgerTypeOK, Steps, Replies

\* The type invariant holds of every reachable state: in particular no holding
\* is ever written with a negative quantity.
THEOREM TypeCorrect == LedgerSpec => []LedgerTypeOK
<1>1. LedgerInit => LedgerTypeOK
  BY LedgerInitTyped
<1>2. LedgerTypeOK /\ [LedgerNext]_ledgerVars => LedgerTypeOK'
  BY TypeStep
<1> QED
  BY <1>1, <1>2, PTL DEF LedgerSpec

-----------------------------------------------------------------------------
(* What a request read stays true. *)

\* A session keeps what it knows as long as the others leave alone what it has
\* locked, and delete nothing.
LEMMA OthersKeep ==
    ASSUME NEW r \in Sessions,
           LedgerTypeOK,
           Decided(r) => ReadHolds(r),
           pc'[r] = pc[r], req'[r] = req[r], found'[r] = found[r], result'[r] = result[r],
           rows \subseteq rows',
           \A a \in Assets : lockOf[a] = r => lockOf'[a] = r /\ quantity'[a] = quantity[a]
    PROVE  (Decided(r) => ReadHolds(r))'
<1>1. Target(r) \in Assets /\ Target(r)' = Target(r)
  BY DEF Target, LedgerTypeOK, Stamped
<1> QED
  BY <1>1 DEF Decided, ReadHolds, Flushed

\* Letting go of one's own locks takes none from another session.
LEMMA ReleaseOwn ==
    ASSUME NEW s \in Sessions, NEW r \in Sessions, r # s, NEW answer,
           LedgerTypeOK, End(s, answer)
    PROVE  /\ \A a \in Assets : lockOf[a] = r => lockOf'[a] = r
           /\ pc'[r] = pc[r] /\ req'[r] = req[r] /\ found'[r] = found[r]
           /\ result'[r] = result[r]
<1> QED
  BY DEF End, Released, Forget, LedgerTypeOK

\* A session that has ended knows nothing.
LEMMA EndForgets ==
    ASSUME NEW s \in Sessions, NEW answer, LedgerTypeOK, End(s, answer)
    PROVE  ~Decided(s)'
<1> QED
  BY DEF End, Decided, LedgerTypeOK

\* A roll back disturbs nobody.
LEMMA RollBackKeeps ==
    ASSUME NEW s \in Sessions, NEW why, LedgerTypeOK, ReadStaysTrue, RollBack(s, why)
    PROVE  ReadStaysTrue'
<1>1. UNCHANGED <<rows, quantity>> /\ End(s, why)
  BY DEF RollBack, dbVars
<1>2. ASSUME NEW r \in Sessions PROVE (Decided(r) => ReadHolds(r))'
  <2>1. CASE r = s
    BY <1>1, <2>1, EndForgets
  <2>2. CASE r # s
    <3>1. \A a \in Assets : lockOf[a] = r => lockOf'[a] = r /\ quantity'[a] = quantity[a]
      BY <1>1, <2>2, ReleaseOwn
    <3>2. pc'[r] = pc[r] /\ req'[r] = req[r] /\ found'[r] = found[r] /\ result'[r] = result[r]
      BY <1>1, <2>2, ReleaseOwn
    <3>3. Decided(r) => ReadHolds(r)
      BY DEF ReadStaysTrue
    <3>4. rows \subseteq rows'
      BY <1>1
    <3> QED
      BY <3>1, <3>2, <3>3, <3>4, OthersKeep
  <2> QED
    BY <2>1, <2>2
<1> QED
  BY <1>1, <1>2 DEF ReadStaysTrue

\* One case per step of a request.  What the others know survives because a
\* session only writes to, and only locks, what no other session has locked.
LEMMA ReadStaysTrueStep ==
    ASSUME LedgerTypeOK, ReadStaysTrue, [LedgerNext]_ledgerVars
    PROVE  ReadStaysTrue'
<1> DEFINE Kept(r) == (Decided(r) => ReadHolds(r))'
<1> DEFINE Frame(r) ==
      /\ pc'[r] = pc[r] /\ req'[r] = req[r] /\ found'[r] = found[r] /\ result'[r] = result[r]
      /\ \A a \in Assets : lockOf[a] = r => lockOf'[a] = r /\ quantity'[a] = quantity[a]
<1>0. ASSUME NEW r \in Sessions, Frame(r), rows \subseteq rows' PROVE Kept(r)
  <2>1. Decided(r) => ReadHolds(r)
    BY DEF ReadStaysTrue
  <2> QED
    BY <1>0, <2>1, OthersKeep
<1>1. CASE UNCHANGED ledgerVars
  <2>1. ASSUME NEW r \in Sessions PROVE Kept(r)
    BY <1>0, <1>1 DEF ledgerVars, dbVars, sessionVars
  <2> QED
    BY <1>1, <2>1 DEF ReadStaysTrue, ledgerVars, dbVars
<1>2. ASSUME NEW s \in Sessions, Begin(s) PROVE ReadStaysTrue'
  <2>1. ASSUME NEW r \in Sessions PROVE Kept(r)
    <3>1. CASE r = s
      BY <1>2, <3>1 DEF Begin, Decided, LedgerTypeOK
    <3>2. CASE r # s
      <4>1. Frame(r) /\ rows \subseteq rows'
        BY <1>2, <3>2 DEF Begin, dbVars, LedgerTypeOK
      <4> QED
        BY <1>0, <4>1
    <3> QED
      BY <3>1, <3>2
  <2> QED
    BY <1>2, <2>1 DEF ReadStaysTrue, Begin, dbVars
<1>3. ASSUME NEW s \in Sessions, LockHolding(s) PROVE ReadStaysTrue'
  <2>1. CASE RollBack(s, "rejected")
    BY <2>1, RollBackKeeps
  <2>2. CASE ~RollBack(s, "rejected")
    <3> DEFINE a == Target(s)
               hasRow == a \in rows
    <3>1. /\ Allowed(req[s]) /\ Accepts(req[s], quantity[a])
          /\ RowAvailable(s)
          /\ UNCHANGED <<rows, quantity, req>>
      BY <1>3, <2>2 DEF LockHolding, dbVars
    <3>2. /\ found' = [found EXCEPT ![s] = hasRow]
          /\ result' = [result EXCEPT ![s] = quantity[a] + Signed(req[s])]
          /\ lockOf' = IF hasRow THEN [lockOf EXCEPT ![a] = s] ELSE lockOf
          /\ pc' = [pc EXCEPT ![s] = "flush"]
      BY <1>3, <2>2 DEF LockHolding
    <3>3. a \in Assets /\ hasRow \in BOOLEAN /\ quantity[a] \in Nat /\ Signed(req[s]) \in Int
      BY StampedParts DEF LedgerTypeOK, Target, Stamped
    <3>4. hasRow => lockOf[a] = Free
      BY <3>1 DEF RowAvailable
    <3>5. ~hasRow => quantity[a] = 0
      BY <3>3 DEF ReadStaysTrue
    <3>6. hasRow <=> Target(s) \in rows
      OBVIOUS
    <3> HIDE DEF hasRow
    <3>7. ASSUME NEW r \in Sessions PROVE Kept(r)
      <4>1. CASE r = s
        <5>1. /\ found'[s] = hasRow /\ pc'[s] = "flush"
              /\ result'[s] = quantity[a] + Signed(req[s])
              /\ Target(s)' = a /\ req'[s] = req[s]
          BY <3>1, <3>2, <3>3 DEF LedgerTypeOK, Target
        <5>2. hasRow => lockOf'[a] = s
          BY <3>2, <3>3 DEF LedgerTypeOK
        <5>3. result'[s] - Signed(req[s]) = quantity[a]
          BY <5>1, <3>3
        <5> QED
          BY <3>1, <3>3, <3>5, <3>6, <4>1, <5>1, <5>2, <5>3 DEF ReadHolds, Decided, Flushed
      <4>2. CASE r # s
        <5>1. Frame(r) /\ rows \subseteq rows'
          BY <3>1, <3>2, <3>3, <3>4, <4>2, LedgerAssumption DEF LedgerTypeOK
        <5> QED
          BY <1>0, <5>1
      <4> QED
        BY <4>1, <4>2
    <3> QED
      BY <3>1, <3>7 DEF ReadStaysTrue
  <2> QED
    BY <2>1, <2>2
<1>4. ASSUME NEW s \in Sessions, Flush(s) PROVE ReadStaysTrue'
  <2>1. CASE RollBack(s, "conflict")
    BY <2>1, RollBackKeeps
  <2>2. CASE ~RollBack(s, "conflict")
    <3> DEFINE a == Target(s)
    <3>1. /\ pc[s] = "flush" /\ ~Duplicate(s) /\ lockOf[a] \in {Free, s}
          /\ lockOf' = [lockOf EXCEPT ![a] = s]
          /\ \E step \in {"holdings", "commit"} : pc' = [pc EXCEPT ![s] = step]
          /\ UNCHANGED <<rows, quantity, req, found, result>>
      BY <1>4, <2>2 DEF Flush, dbVars
    <3>2. a \in Assets /\ quantity[a] \in Nat /\ Signed(req[s]) \in Int
      BY StampedParts DEF LedgerTypeOK, Target, Stamped
    <3>3. ASSUME NEW r \in Sessions PROVE Kept(r)
      <4>1. CASE r = s
        <5>1. ReadHolds(s)
          BY <3>1 DEF ReadStaysTrue, Decided
        <5>2. ~found[s] => quantity[a] = 0
          BY <3>1, <3>2 DEF Duplicate, ReadStaysTrue
        <5>3. result[s] = quantity[a] + Signed(req[s])
          BY <3>2, <5>1, <5>2 DEF ReadHolds
        <5>4. lockOf'[a] = s
          BY <3>1, <3>2 DEF LedgerTypeOK
        <5> QED
          BY <3>1, <4>1, <5>1, <5>3, <5>4 DEF ReadHolds, Target
      <4>2. CASE r # s
        <5>1. Frame(r) /\ rows \subseteq rows'
          BY <3>1, <3>2, <4>2, LedgerAssumption DEF LedgerTypeOK
        <5> QED
          BY <1>0, <5>1
      <4> QED
        BY <4>1, <4>2
    <3> QED
      BY <3>1, <3>3 DEF ReadStaysTrue
  <2> QED
    BY <2>1, <2>2
<1>5. ASSUME NEW s \in Sessions, ReadHoldings(s) PROVE ReadStaysTrue'
  <2>1. /\ pc[s] = "holdings" /\ pc' = [pc EXCEPT ![s] = "transactions"]
        /\ UNCHANGED <<rows, quantity, lockOf, req, found, result>>
    BY <1>5 DEF ReadHoldings, dbVars
  <2>2. ASSUME NEW r \in Sessions PROVE Kept(r)
    BY <2>1 DEF ReadStaysTrue, ReadHolds, Decided, Flushed, Target, LedgerTypeOK
  <2> QED
    BY <2>1, <2>2 DEF ReadStaysTrue
<1>6. ASSUME NEW s \in Sessions, ReadTransactions(s) PROVE ReadStaysTrue'
  <2>1. CASE RollBack(s, "error")
    BY <2>1, RollBackKeeps
  <2>2. CASE ~RollBack(s, "error")
    <3>1. /\ pc[s] = "transactions" /\ pc' = [pc EXCEPT ![s] = "commit"]
          /\ UNCHANGED <<rows, quantity, lockOf, req, found, result>>
      BY <1>6, <2>2 DEF ReadTransactions, dbVars
    <3>2. ASSUME NEW r \in Sessions PROVE Kept(r)
      BY <3>1 DEF ReadStaysTrue, ReadHolds, Decided, Flushed, Target, LedgerTypeOK
    <3> QED
      BY <3>1, <3>2 DEF ReadStaysTrue
  <2> QED
    BY <2>1, <2>2
<1>7. ASSUME NEW s \in Sessions, Commit(s) PROVE ReadStaysTrue'
  <2> DEFINE a == Target(s)
  <2>1. PICK answer \in {"created", "lost"} : End(s, answer)
    BY <1>7 DEF Commit
  <2>2. /\ pc[s] = "commit" /\ rows' = rows \cup {a}
        /\ quantity' = [quantity EXCEPT ![a] = result[s]]
    BY <1>7 DEF Commit
  <2>3. a \in Assets /\ lockOf[a] = s
    BY <2>2 DEF ReadStaysTrue, ReadHolds, Decided, Flushed, Target, LedgerTypeOK, Stamped
  <2>4. ASSUME NEW r \in Sessions PROVE Kept(r)
    <3>1. CASE r = s
      BY <2>1, <3>1, EndForgets
    <3>2. CASE r # s
      <4>1. Frame(r)
        BY <2>1, <2>2, <2>3, <3>2, ReleaseOwn DEF LedgerTypeOK
      <4> QED
        BY <1>0, <2>2, <4>1
    <3> QED
      BY <3>1, <3>2
  <2>5. \A b \in Assets \ rows' : quantity'[b] = 0
    BY <2>2 DEF ReadStaysTrue, LedgerTypeOK
  <2> QED
    BY <2>4, <2>5 DEF ReadStaysTrue
<1>8. ASSUME NEW s \in Sessions, Disconnect(s) PROVE ReadStaysTrue'
  BY <1>8, RollBackKeeps DEF Disconnect
<1>9. ASSUME NEW a \in Retirable, SetActive(a) PROVE ReadStaysTrue'
  <2>1. ASSUME NEW r \in Sessions PROVE Kept(r)
    BY <1>0, <1>9 DEF SetActive, sessionVars
  <2> QED
    BY <1>9, <2>1 DEF ReadStaysTrue, SetActive
<1> QED
  BY <1>1, <1>2, <1>3, <1>4, <1>5, <1>6, <1>7, <1>8, <1>9 DEF LedgerNext, Step

\* SELECT ... FOR UPDATE, with the unique index where there is no row to lock,
\* does what FINANCIAL_RULES.md ("Transaction Concurrency") asks of it: a
\* request's quantity is still right when it is written.
THEOREM ReadsStayTrue == LedgerSpec => []ReadStaysTrue
<1>1. LedgerInit => ReadStaysTrue
  BY DEF LedgerInit, ReadStaysTrue, Decided
<1>2. LedgerTypeOK /\ ReadStaysTrue /\ [LedgerNext]_ledgerVars => ReadStaysTrue'
  BY ReadStaysTrueStep
<1> QED
  BY <1>1, <1>2, TypeCorrect, PTL DEF LedgerSpec

-----------------------------------------------------------------------------
(* What a commit does. *)

\* Only a commit touches a holding, the history or the holdings' rows.
LEMMA OnlyCommitWrites ==
    ASSUME [LedgerNext]_ledgerVars, ~\E s \in Sessions : Commit(s)
    PROVE  UNCHANGED <<rows, quantity, history, snapshots>>
<1> USE DEF dbVars
<1>1. CASE UNCHANGED ledgerVars
  BY <1>1 DEF ledgerVars
<1>2. ASSUME NEW s \in Sessions, Begin(s) PROVE UNCHANGED dbVars
  BY <1>2 DEF Begin
<1>3. ASSUME NEW s \in Sessions, LockHolding(s) PROVE UNCHANGED dbVars
  BY <1>3 DEF LockHolding, RollBack
<1>4. ASSUME NEW s \in Sessions, Flush(s) PROVE UNCHANGED dbVars
  BY <1>4 DEF Flush, RollBack
<1>5. ASSUME NEW s \in Sessions, ReadHoldings(s) PROVE UNCHANGED dbVars
  BY <1>5 DEF ReadHoldings
<1>6. ASSUME NEW s \in Sessions, ReadTransactions(s) PROVE UNCHANGED dbVars
  BY <1>6 DEF ReadTransactions, RollBack
<1>7. ASSUME NEW s \in Sessions, Disconnect(s) PROVE UNCHANGED dbVars
  BY <1>7 DEF Disconnect, RollBack
<1>8. ASSUME NEW a \in Retirable, SetActive(a)
      PROVE  UNCHANGED <<rows, quantity, history, snapshots>>
  BY <1>8 DEF SetActive
<1> QED
  BY <1>1, <1>2, <1>3, <1>4, <1>5, <1>6, <1>7, <1>8 DEF LedgerNext, Step

\* What a commit does: the quantity read when the request took its decision is
\* the one it replaces, and the one its transaction starts from.
LEMMA CommitEffect ==
    ASSUME LedgerTypeOK, ReadStaysTrue, NEW s \in Sessions, Commit(s)
    PROVE  LET t == Row(s) IN
           /\ t \in Recorded
           /\ t.asset \in Assets /\ t.type \in Types /\ t.qty \in Nat \ {0}
           /\ Allowed(t)
           /\ Accepts(t, quantity[t.asset])
           /\ Signed(t) \in Int
           /\ t.after = quantity[t.asset] + Signed(t)
           /\ quantity' = [quantity EXCEPT ![t.asset] = t.after]
           /\ history' = Append(history, t)
<1> DEFINE t == Row(s)
<1>1. t \in Recorded
  BY RowType
<1>2. /\ t.type = req[s].type /\ t.asset = req[s].asset /\ t.qty = req[s].qty
      /\ t.after = result[s]
  BY DEF Row
<1>3. Signed(t) = Signed(req[s]) /\ Signed(t) \in Int
  <2>1. req[s] \in Stamped
    BY DEF LedgerTypeOK
  <2> QED
    BY <1>2, <2>1, StampedParts DEF Signed, TakesOut
<1>4. pc[s] = "commit" /\ Decided(s) /\ Flushed(s)
  BY DEF Commit, Decided, Flushed
<1>5. ReadHolds(s)
  BY <1>4 DEF ReadStaysTrue
<1>6. t.after = quantity[t.asset] + Signed(t)
  BY <1>2, <1>3, <1>4, <1>5 DEF ReadHolds, Target
<1>7. t.asset \in Assets /\ t.type \in Types /\ t.qty \in Nat \ {0} /\ quantity[t.asset] \in Nat
  BY <1>1 DEF Recorded, LedgerTypeOK
<1>8. result[s] - Signed(req[s]) = quantity[t.asset]
  BY <1>2, <1>3, <1>6, <1>7
<1>9. Allowed(t) /\ Accepts(t, quantity[t.asset])
  BY <1>2, <1>5, <1>8 DEF ReadHolds, Allowed, Accepts, TakesOut, IsCashFlow
<1>10. /\ quantity' = [quantity EXCEPT ![t.asset] = t.after]
       /\ history' = Append(history, t)
  BY <1>2 DEF Commit, Target
<1> QED
  BY <1>1, <1>3, <1>6, <1>7, <1>9, <1>10

-----------------------------------------------------------------------------
(* Refinement. *)

\* The interleaved write path implements the atomic one: with CommitEffect, a
\* commit is the atomic recording of its transaction, and all else stutters.
THEOREM LedgerRefinesAtomic == LedgerSpec => ImplementsAtomicLedger
<1>1. LedgerInit => Atomic!AtomicInit
  BY DEF LedgerInit, Atomic!AtomicInit
<1>2. LedgerTypeOK /\ ReadStaysTrue /\ [LedgerNext]_ledgerVars
         => [Atomic!AtomicNext]_Atomic!atomicVars
  <2> SUFFICES ASSUME LedgerTypeOK, ReadStaysTrue, [LedgerNext]_ledgerVars
               PROVE  [Atomic!AtomicNext]_Atomic!atomicVars
    OBVIOUS
  <2>1. CASE ~\E s \in Sessions : Commit(s)
    BY <2>1, OnlyCommitWrites DEF Atomic!atomicVars
  <2>2. ASSUME NEW s \in Sessions, Commit(s) PROVE Atomic!AtomicNext
    <3> DEFINE t == Row(s)
               last == Len(history) + 1
    <3>1. /\ t \in Recorded /\ t.asset \in Assets /\ t.type \in Types /\ t.qty \in Nat \ {0}
          /\ Allowed(t) /\ Accepts(t, quantity[t.asset])
          /\ t.after = quantity[t.asset] + Signed(t)
          /\ quantity' = [quantity EXCEPT ![t.asset] = t.after]
          /\ history' = Append(history, t)
      BY <2>2, CommitEffect
    <3> HIDE DEF t
    <3>2. last \in DOMAIN history' /\ history'[last] = t
      BY <3>1 DEF LedgerTypeOK
    <3>3. Atomic!Record(t)
      BY <3>1 DEF Atomic!Record, Atomic!Accepts, Atomic!IsCashFlow, Atomic!CashFlowTypes,
                  Atomic!TakesOut, Atomic!Signed, Atomic!Types, Atomic!TradeTypes,
                  Allowed, Accepts, IsCashFlow, CashFlowTypes, TakesOut, Signed, Types, TradeTypes
    <3> QED
      BY <3>2, <3>3 DEF Atomic!AtomicNext
  <2> QED
    BY <2>1, <2>2
<1> QED
  BY <1>1, <1>2, TypeCorrect, ReadsStayTrue, PTL
     DEF LedgerSpec, ImplementsAtomicLedger, Atomic!AtomicSpec

-----------------------------------------------------------------------------
(* Every cash flow has its snapshot. *)

\* created_at tells database transactions apart, and no snapshot is yet of one
\* that is under way.
StampsDiffer ==
    /\ \A s \in Sessions : pc[s] # "idle" => req[s].created \in 1 .. clock
    /\ \A s, r \in Sessions :
          s # r /\ pc[s] # "idle" /\ pc[r] # "idle" => req[s].created # req[r].created
    /\ \A sn \in snapshots :
          sn.trigger = "TRANSACTION" =>
             /\ sn.source \in 1 .. clock
             /\ \A s \in Sessions : pc[s] # "idle" => req[s].created # sn.source

\* The snapshot being built already shows what the session has flushed.
ShowsOwn(s) ==
    /\ pc[s] = "transactions" \/ (pc[s] = "commit" /\ IsCashFlow(req[s])) =>
          (Target(s) \in DOMAIN items[s] => items[s][Target(s)] = result[s])
    /\ pc[s] = "commit" /\ IsCashFlow(req[s]) => Row(s) \in visible[s]

OwnShown == \A s \in Sessions : ShowsOwn(s)

\* A step of one session is none of another's.
LEMMA OthersUntouched ==
    ASSUME LedgerTypeOK, NEW s \in Sessions, NEW r \in Sessions, r # s, Begin(s) \/ Step(s) \/ Disconnect(s)
    PROVE  /\ pc'[r] = pc[r] /\ req'[r] = req[r] /\ result'[r] = result[r]
           /\ items'[r] = items[r] /\ visible'[r] = visible[r]
<1> USE DEF LedgerTypeOK, End, Forget, RollBack
<1>1. CASE Begin(s)
  BY <1>1 DEF Begin
<1>2. CASE LockHolding(s)
  BY <1>2 DEF LockHolding
<1>3. CASE Flush(s)
  BY <1>3 DEF Flush
<1>4. CASE ReadHoldings(s)
  BY <1>4 DEF ReadHoldings
<1>5. CASE ReadTransactions(s)
  BY <1>5 DEF ReadTransactions
<1>6. CASE Commit(s)
  BY <1>6 DEF Commit
<1>7. CASE Disconnect(s)
  BY <1>7 DEF Disconnect
<1> QED
  BY <1>1, <1>2, <1>3, <1>4, <1>5, <1>6, <1>7 DEF Step

\* No step makes a snapshot under construction lose its own transaction: the
\* flush comes before both reads.
LEMMA OwnShownStep ==
    ASSUME LedgerTypeOK, OwnShown, [LedgerNext]_ledgerVars
    PROVE  OwnShown'
<1> SUFFICES ASSUME NEW r \in Sessions PROVE ShowsOwn(r)'
  BY DEF OwnShown
<1>1. ShowsOwn(r)
  BY DEF OwnShown
<1>2. ASSUME pc'[r] = pc[r], req'[r] = req[r], result'[r] = result[r], items'[r] = items[r],
             visible'[r] = visible[r]
      PROVE  ShowsOwn(r)'
  BY <1>1, <1>2 DEF ShowsOwn, Target, Row
<1>3. ASSUME NEW s \in Sessions, s # r, Begin(s) \/ Step(s) \/ Disconnect(s) PROVE ShowsOwn(r)'
  BY <1>2, <1>3, OthersUntouched
<1>4. CASE UNCHANGED sessionVars
  BY <1>2, <1>4 DEF sessionVars
<1>5. ASSUME pc'[r] \in {"idle", "lock", "flush", "holdings"} PROVE ShowsOwn(r)'
  BY <1>5 DEF ShowsOwn
<1>6. ASSUME NEW answer, End(r, answer) PROVE ShowsOwn(r)'
  BY <1>5, <1>6 DEF End, LedgerTypeOK
<1>7. CASE Begin(r)
  BY <1>5, <1>7 DEF Begin, LedgerTypeOK
<1>8. CASE LockHolding(r)
  BY <1>5, <1>6, <1>8 DEF LockHolding, RollBack, LedgerTypeOK
<1>9. CASE Flush(r)
  <2>1. CASE RollBack(r, "conflict")
    BY <1>6, <2>1 DEF RollBack
  <2>2. CASE ~RollBack(r, "conflict")
    <3>1. pc'[r] = (IF IsCashFlow(req[r]) THEN "holdings" ELSE "commit") /\ req'[r] = req[r]
      BY <1>9, <2>2 DEF Flush, LedgerTypeOK
    <3> QED
      BY <3>1 DEF ShowsOwn, IsCashFlow
  <2> QED
    BY <2>1, <2>2
<1>10. CASE ReadHoldings(r)
  <2>1. /\ items'[r] = Valued(OwnFlushed(r)) /\ pc'[r] = "transactions"
        /\ req'[r] = req[r] /\ result'[r] = result[r]
    BY <1>10 DEF ReadHoldings, LedgerTypeOK
  <2>2. Target(r) \in Assets /\ Target(r)' = Target(r)
    BY <2>1 DEF Target, LedgerTypeOK, Stamped
  <2>3. Target(r) \in DOMAIN Valued(OwnFlushed(r)) => Valued(OwnFlushed(r))[Target(r)] = result[r]
    BY <2>2 DEF Valued, OwnFlushed, LedgerTypeOK
  <2> QED
    BY <2>1, <2>2, <2>3 DEF ShowsOwn
<1>11. CASE ReadTransactions(r)
  <2>1. CASE RollBack(r, "error")
    BY <1>6, <2>1 DEF RollBack
  <2>2. CASE ~RollBack(r, "error")
    <3>1. /\ visible'[r] = Counted(r) /\ pc[r] = "transactions"
          /\ req'[r] = req[r] /\ result'[r] = result[r] /\ items'[r] = items[r]
      BY <1>11, <2>2 DEF ReadTransactions, LedgerTypeOK
    <3>2. Row(r) \in Counted(r)
      BY DEF Counted
    <3> QED
      BY <1>1, <3>1, <3>2 DEF ShowsOwn, Target, Row
  <2> QED
    BY <2>1, <2>2
<1>12. CASE Commit(r)
  BY <1>6, <1>12 DEF Commit
<1>13. CASE Disconnect(r)
  BY <1>6, <1>13 DEF Disconnect, RollBack
<1>14. CASE \E a \in Retirable : SetActive(a)
  BY <1>4, <1>14 DEF SetActive
<1>15. CASE UNCHANGED ledgerVars
  BY <1>4, <1>15 DEF ledgerVars
<1> QED
  BY <1>3, <1>7, <1>8, <1>9, <1>10, <1>11, <1>12, <1>13, <1>14, <1>15 DEF LedgerNext, Step

\* No two database transactions, and no request and a stored snapshot of
\* another, ever share a time stamp.
LEMMA StampsDifferStep ==
    ASSUME LedgerTypeOK, StampsDiffer, [LedgerNext]_ledgerVars
    PROVE  StampsDiffer'
<1>1. ASSUME clock' = clock, snapshots' = snapshots,
             \A s \in Sessions : pc'[s] # "idle" => pc[s] # "idle" /\ req'[s] = req[s]
      PROVE  StampsDiffer'
  BY <1>1 DEF StampsDiffer
<1>2. CASE UNCHANGED ledgerVars
  BY <1>1, <1>2 DEF ledgerVars, dbVars, sessionVars
<1>3. ASSUME NEW s \in Sessions, Begin(s) PROVE StampsDiffer'
  <2>1. /\ clock' = clock + 1 /\ clock \in Nat /\ snapshots' = snapshots
        /\ req'[s].created = clock + 1
        /\ \A r \in Sessions : r # s => pc'[r] = pc[r] /\ req'[r] = req[r]
    BY <1>3 DEF Begin, dbVars, LedgerTypeOK
  <2> QED
    BY <2>1 DEF StampsDiffer
<1>4. ASSUME NEW s \in Sessions, NEW why, RollBack(s, why) PROVE StampsDiffer'
  <2>1. \A r \in Sessions : pc'[r] # "idle" => pc[r] # "idle" /\ req'[r] = req[r]
    BY <1>4 DEF RollBack, End, Forget, LedgerTypeOK
  <2> QED
    BY <1>1, <1>4, <2>1 DEF RollBack, End, dbVars
<1>5. ASSUME NEW s \in Sessions, LockHolding(s) \/ Flush(s) \/ ReadHoldings(s) \/ ReadTransactions(s),
             ~\E why : RollBack(s, why)
      PROVE  StampsDiffer'
  <2>1. req' = req /\ clock' = clock /\ snapshots' = snapshots
    BY <1>5 DEF LockHolding, Flush, ReadHoldings, ReadTransactions, dbVars
  <2>2. pc[s] # "idle"
    BY <1>5 DEF LockHolding, Flush, ReadHoldings, ReadTransactions
  <2>3. \A r \in Sessions : r # s => pc'[r] = pc[r]
    BY <1>5, OthersUntouched DEF Step
  <2> QED
    BY <1>1, <2>1, <2>2, <2>3
<1>6. ASSUME NEW s \in Sessions, Commit(s) PROVE StampsDiffer'
  <2>1. /\ pc[s] # "idle" /\ clock' = clock
        /\ snapshots' \in {snapshots, snapshots \cup {SnapshotOf(s)}}
    BY <1>6 DEF Commit, End
  <2>2. \A r \in Sessions : pc'[r] # "idle" => r # s /\ pc[r] # "idle" /\ req'[r] = req[r]
    BY <1>6 DEF Commit, End, Forget, LedgerTypeOK
  <2>3. SnapshotOf(s).source = req[s].created
    BY DEF SnapshotOf, Snapshot
  <2> QED
    BY <2>1, <2>2, <2>3 DEF StampsDiffer
<1>7. ASSUME NEW a \in Retirable, SetActive(a) PROVE StampsDiffer'
  BY <1>1, <1>7 DEF SetActive, sessionVars
<1> QED
  BY <1>2, <1>3, <1>4, <1>5, <1>6, <1>7 DEF LedgerNext, Step, Disconnect

\* A commit of a cash flow stores its snapshot, and no other step any.
LEMMA CashFlowStep ==
    ASSUME LedgerTypeOK, CashFlowHasSnapshot, StampsDiffer, OwnShown, [LedgerNext]_ledgerVars
    PROVE  CashFlowHasSnapshot'
<1>1. CASE ~\E s \in Sessions : Commit(s)
  BY <1>1, OnlyCommitWrites DEF CashFlowHasSnapshot, HasSnapshot, Committed
<1>2. ASSUME NEW s \in Sessions, Commit(s) PROVE CashFlowHasSnapshot'
  <2> DEFINE t == Row(s)
             new == SnapshotOf(s)
  <2>1. Committed' = Committed \cup {t}
    <3>1. history \in Seq(Recorded) /\ t \in Recorded /\ history' = Append(history, t)
      BY <1>2, RowType DEF Commit, LedgerTypeOK
    <3> HIDE DEF t
    <3> QED
      BY <3>1 DEF Committed
  <2>2. IsCashFlow(t) = IsCashFlow(req[s]) /\ t.created = req[s].created /\ t.asset = Target(s)
        /\ t.after = result[s]
    BY DEF Row, IsCashFlow, Target
  <2>3. new.trigger = "TRANSACTION" /\ new.source = t.created
        /\ new.counted = visible[s] /\ new.items = items[s]
    BY <2>2 DEF SnapshotOf, Snapshot
  <2>4. pc[s] = "commit"
        /\ snapshots' = IF IsCashFlow(t) THEN snapshots \cup {new} ELSE snapshots
    BY <1>2, <2>2 DEF Commit
  <2>5. IsCashFlow(t) =>
           /\ t \in new.counted
           /\ t.asset \in DOMAIN new.items => new.items[t.asset] = t.after
    BY <2>2, <2>3, <2>4 DEF OwnShown, ShowsOwn
  <2>6. \A sn \in snapshots : sn.trigger = "TRANSACTION" => sn.source # new.source
    BY <2>2, <2>3, <2>4 DEF StampsDiffer
  <2> HIDE DEF t, new
  <2>7. ASSUME NEW u \in Committed', IsCashFlow(u) PROVE HasSnapshot(u)'
    <3>1. CASE u = t
      BY <2>3, <2>4, <2>5, <2>7, <3>1 DEF HasSnapshot
    <3>2. CASE u # t
      BY <2>1, <2>4, <2>7, <3>2 DEF CashFlowHasSnapshot, HasSnapshot
    <3> QED
      BY <3>1, <3>2
  <2>8. ASSUME NEW sn \in snapshots', NEW other \in snapshots',
               sn.trigger = "TRANSACTION", other.trigger = "TRANSACTION", sn.source = other.source
        PROVE  sn = other
    BY <2>4, <2>6, <2>8 DEF CashFlowHasSnapshot
  <2> QED
    BY <2>7, <2>8 DEF CashFlowHasSnapshot
<1> QED
  BY <1>1, <1>2

\* A snapshot stored for a cash flow is never missing, never a second one, and
\* never from before the flow ("Transaction Atomicity" in FINANCIAL_RULES.md,
\* extended to snapshots by build_post_transaction_snapshot).
THEOREM CashFlowsHaveSnapshots == LedgerSpec => []CashFlowHasSnapshot
<1> DEFINE Inv == CashFlowHasSnapshot /\ StampsDiffer /\ OwnShown
<1>1. LedgerInit => Inv
  BY DEF LedgerInit, CashFlowHasSnapshot, Committed, StampsDiffer, OwnShown, ShowsOwn
<1>2. LedgerTypeOK /\ Inv /\ [LedgerNext]_ledgerVars => Inv'
  BY CashFlowStep, StampsDifferStep, OwnShownStep
<1> QED
  BY <1>1, <1>2, TypeCorrect, PTL DEF LedgerSpec
=============================================================================
