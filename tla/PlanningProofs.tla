--------------------------- MODULE PlanningProofs ---------------------------
(***************************************************************************)
(* What holds of the strategy and of rebalancing advice for any assets,     *)
(* buckets, strategies and prices, for any number of administrators and     *)
(* requests, and however the user and the market move in between.           *)
(***************************************************************************)
EXTENDS Planning, SumFacts, TLAPS

-----------------------------------------------------------------------------
(* The strategy. *)

\* What the CHECK constraints of allocation_targets say of each stored row.
RowsAreChecked ==
    \A b \in DOMAIN rule : ~Crossed(rule[b]) /\ ~OutOfRange(rule[b])

PatchesAreTheirs == DOMAIN patch = Admins

-----------------------------------------------------------------------------
(* What an UPDATE writes. *)

\* A column that an UPDATE changes is one its client sent.
LEMMA WrittenWasSent ==
    ASSUME NEW p, NEW row, NEW f \in Fields, Written(p, row)[f] # row[f]
    PROVE  f \in DOMAIN p.request
<1>1. Merged(p.seen, p.request)[f] # p.seen[f]
  BY DEF Written
<1> QED
  BY <1>1 DEF Merged

\* The only steps that change the buckets, the rules or the PATCHes under way.
LEMMA AdminSteps ==
    ASSUME [PlanNext]_planVars
    PROVE  \/ \E b \in Buckets, n \in Names : CreateBucket(b, n) \/ RenameBucket(b, n)
           \/ \E b \in Buckets : SwitchBucket(b)
           \/ \E b \in Buckets, new \in NewRules : CreateTarget(b, new)
           \/ \E s \in Admins, b \in Buckets, request \in Requests : ReadTarget(s, b, request)
           \/ \E s \in Admins : CommitTarget(s)
           \/ UNCHANGED adminVars
<1>1. CASE EditStrategy
  BY <1>1 DEF EditStrategy
<1>2. CASE BeginPatch
  BY <1>2 DEF BeginPatch
<1>3. CASE EndPatch
  BY <1>3 DEF EndPatch
<1>4. CASE UNCHANGED adminVars
  BY <1>4 DEF adminVars
<1>5. ASSUME \/ \E a \in Assets, worth \in Levels, quote \in Quotes : MarketMoves(a, worth, quote)
             \/ \E a \in Assets, b \in Buckets \cup {Absent} : AssignBucket(a, b)
             \/ \E a \in Assets : SwitchAsset(a)
             \/ \E e \in Assets \cup {NoAsset}, x \in BOOLEAN : UpdateConfig(e, x)
      PROVE  UNCHANGED adminVars
  BY <1>5 DEF MarketMoves, AssignBucket, SwitchAsset, UpdateConfig
<1>6. ASSUME ReadConfig \/ ReadPositions \/ ReadBuckets \/ Answer PROVE UNCHANGED adminVars
  BY <1>6 DEF ReadConfig, ReadPositions, ReadBuckets, Answer
<1>7. ASSUME NEW b \in Buckets, NEW a \in Assets, NEW k \in CashAssets, Buy(b, a, k) \/ Sell(b, a, k)
      PROVE  UNCHANGED adminVars
  BY <1>7 DEF Buy, Sell
<1>8. ASSUME UNCHANGED planVars PROVE UNCHANGED adminVars
  BY <1>8 DEF planVars
<1> QED
  BY <1>1, <1>2, <1>3, <1>4, <1>5, <1>6, <1>7, <1>8 DEF PlanNext

\* The only steps that change the strategy, seen from its tables.
LEMMA StrategySteps ==
    ASSUME [PlanNext]_planVars
    PROVE  \/ \E b \in Buckets, new \in NewRules : CreateTarget(b, new)
           \/ \E s \in Admins, b \in Buckets, request \in Requests : ReadTarget(s, b, request)
           \/ \E s \in Admins : CommitTarget(s)
           \/ UNCHANGED <<rule, patch>>
<1>1. CASE \E b \in Buckets, n \in Names : CreateBucket(b, n) \/ RenameBucket(b, n)
  BY <1>1 DEF CreateBucket, RenameBucket
<1>2. CASE \E b \in Buckets : SwitchBucket(b)
  BY <1>2 DEF SwitchBucket
<1>3. CASE UNCHANGED adminVars
  BY <1>3 DEF adminVars
<1> QED
  BY <1>1, <1>2, <1>3, AdminSteps

-----------------------------------------------------------------------------
(* The invariant. *)

StrategyInv == RowsAreChecked /\ PatchesAreTheirs

\* Overlapping PATCHes, each valid on what it read, cannot store a row that
\* no single one would have been allowed to store.
LEMMA NextStrategy == StrategyInv /\ [PlanNext]_planVars => StrategyInv'
<1> SUFFICES ASSUME StrategyInv, [PlanNext]_planVars PROVE StrategyInv'
  OBVIOUS
<1>1. ASSUME NEW b \in Buckets, NEW new \in NewRules, CreateTarget(b, new) PROVE StrategyInv'
  BY <1>1, AdminAssumption
     DEF CreateTarget, Extended, StrategyInv, RowsAreChecked, PatchesAreTheirs
<1>2. ASSUME NEW s \in Admins, NEW b \in Buckets, NEW request \in Requests, ReadTarget(s, b, request)
      PROVE  StrategyInv'
  BY <1>2 DEF ReadTarget, StrategyInv, RowsAreChecked, PatchesAreTheirs
<1>3. ASSUME NEW s \in Admins, CommitTarget(s) PROVE StrategyInv'
  <2> DEFINE row == Written(patch[s], rule[patch[s].bucket])
  <2>1. DOMAIN patch' = DOMAIN patch
    BY <1>3 DEF CommitTarget
  <2>2. CASE Refused(row)
    BY <1>3, <2>1, <2>2 DEF CommitTarget, StrategyInv, RowsAreChecked, PatchesAreTheirs
  <2>3. CASE ~Refused(row)
    <3>1. rule' = [rule EXCEPT ![patch[s].bucket] = row] /\ ~Crossed(row) /\ ~OutOfRange(row)
      BY <1>3, <2>3 DEF CommitTarget, Refused
    <3> HIDE DEF row
    <3> QED
      BY <2>1, <3>1 DEF StrategyInv, RowsAreChecked, PatchesAreTheirs
  <2> QED
    BY <2>2, <2>3
<1>4. CASE UNCHANGED <<rule, patch>>
  BY <1>4 DEF StrategyInv, RowsAreChecked, PatchesAreTheirs
<1> QED
  BY <1>1, <1>2, <1>3, <1>4, StrategySteps

\* Every stored row satisfies the constraints and every session is known.
THEOREM StrategyInvariant == PlanSpec => []StrategyInv
<1>1. PlanInit => StrategyInv
  BY PlanningAssumption DEF PlanInit, StrategyInv, RowsAreChecked, PatchesAreTheirs
<1>2. StrategyInv /\ [PlanNext]_planVars => StrategyInv'
  BY NextStrategy
<1> QED
  BY <1>1, <1>2, PTL DEF PlanSpec

\* No sequence of requests, overlapping or not, leads to a strategy that
\* validate_strategy rejects for one of its rules.
THEOREM RulesAreWellFormed == PlanSpec => []RulesStayWellFormed
<1>1. StrategyInv => RulesStayWellFormed
  <2> SUFFICES ASSUME StrategyInv PROVE RulesStayWellFormed
    OBVIOUS
  <2> DEFINE seen == RulesOf(DOMAIN bucket, rule)
  <2>1. \A b \in DOMAIN seen : ~Crossed(seen[b]) /\ ~OutOfRange(seen[b])
    BY DEF StrategyInv, RowsAreChecked, RulesOf
  <2> HIDE DEF seen
  <2>2. StrategyStatus(seen) \in {"EMPTY", "VALID", "INCOMPLETE", "OVERALLOCATED"}
    BY <2>1 DEF StrategyStatus
  <2> QED
    BY <2>2 DEF seen, RulesStayWellFormed
<1> QED
  BY <1>1, StrategyInvariant, PTL

\* Of two PATCHes that both read the old row, neither takes back a column that
\* only the other one sent.
THEOREM NoUpdateIsLost == PlanSpec => NoLostUpdate
<1> DEFINE Kept == \A s \in Admins : patch[s] # Idle /\ patch'[s] = Idle =>
                      \A b \in DOMAIN rule : \A f \in Fields :
                          rule'[b][f] # rule[b][f] =>
                              b = patch[s].bucket /\ f \in DOMAIN patch[s].request
<1>1. StrategyInv /\ [PlanNext]_planVars => [Kept]_adminVars
  <2> SUFFICES ASSUME StrategyInv, [PlanNext]_planVars PROVE Kept
    OBVIOUS
  <2>1. ASSUME NEW s \in Admins, CommitTarget(s) PROVE Kept
    <3> DEFINE p   == patch[s]
               row == Written(p, rule[p.bucket])
    <3>1. \A i \in Admins \ {s} : patch'[i] = patch[i]
      BY <2>1 DEF CommitTarget, StrategyInv, PatchesAreTheirs
    <3>2. ASSUME NEW b \in DOMAIN rule, NEW f \in Fields, rule'[b][f] # rule[b][f]
          PROVE  b = p.bucket /\ f \in DOMAIN p.request
      <4>1. rule' = [rule EXCEPT ![p.bucket] = row]
        BY <2>1, <3>2 DEF CommitTarget
      <4> HIDE DEF row
      <4>2. b = p.bucket /\ row[f] # rule[b][f]
        BY <4>1, <3>2
      <4> QED
        BY <4>2, WrittenWasSent DEF row
    <3> QED
      BY <3>1, <3>2
  <2>2. ASSUME NEW s \in Admins, NEW b \in Buckets, NEW request \in Requests, ReadTarget(s, b, request)
        PROVE  Kept
    BY <2>2 DEF ReadTarget, StrategyInv, PatchesAreTheirs
  <2>3. ASSUME UNCHANGED patch PROVE Kept
    BY <2>3
  <2> QED
    BY <2>1, <2>2, <2>3, StrategySteps DEF CreateTarget
<1> QED
  BY <1>1, StrategyInvariant, PTL DEF PlanSpec, NoLostUpdate


-----------------------------------------------------------------------------
(* Handing out cash.  The loop of calculate_inflow_allocation is a fold over *)
(* the buckets that can take any; in closed form a bucket is given what it   *)
(* can take or, if that is less, what those ahead of it leave.               *)

\* Buckets that can be put in order, and what each of them can take.
Ranked(C, whole) ==
    /\ IsFiniteSet(DOMAIN C)
    /\ \A b \in DOMAIN C : /\ C[b].priority \in Int /\ C[b].name \in Int
                           /\ Capacity(C[b], whole) \in Nat
    /\ \A b, e \in DOMAIN C : C[b].name = C[e].name => b = e

Room(C, whole) == [b \in DOMAIN C |-> Capacity(C[b], whole)]

EarlierIn(C, s, b) == {e \in s : Ahead(C[e], C[b])}

\* What bucket b is given when the buckets in s share the cash, and what is left.
Given(C, whole, cash, s, b) ==
    Larger(0, Smaller(Capacity(C[b], whole), cash - Amount(Room(C, whole), EarlierIn(C, s, b))))

Shared(C, whole, cash, s) ==
    [left |-> Larger(0, cash - Amount(Room(C, whole), s)),
     to   |-> [b \in DOMAIN C |-> IF b \in s THEN Given(C, whole, cash, s, b) ELSE 0]]

\* One bucket of several comes last, and all others come before it.
LEMMA LastFacts ==
    ASSUME NEW C, NEW whole, Ranked(C, whole), NEW s, s \subseteq DOMAIN C, s # {}
    PROVE  /\ LastOf(C, s) \in s
           /\ \A e \in s \ {LastOf(C, s)} : Ahead(C[e], C[LastOf(C, s)])
           /\ \A e \in s : ~Ahead(C[LastOf(C, s)], C[e])
<1> DEFINE priority == [b \in DOMAIN C |-> C[b].priority]
           name == [b \in DOMAIN C |-> C[b].name]
<1>1. \A b \in s : priority[b] \in Int /\ name[b] \in Int /\ priority[b] = C[b].priority /\ name[b] = C[b].name
  BY DEF Ranked
<1> HIDE DEF priority, name
<1>2. IsFiniteSet(s)
  BY FS_Subset DEF Ranked
<1>3. PICK x \in s : \A y \in s : priority[y] <= priority[x]
  BY <1>1, <1>2, Highest
<1> DEFINE t == {y \in s : priority[y] = priority[x]}
<1>4. IsFiniteSet(t) /\ t # {} /\ t \subseteq s
  BY <1>2, FS_Subset
<1>5. PICK z \in t : \A y \in t : name[y] <= name[z]
  <2> HIDE DEF t
  <2> QED
    BY <1>1, <1>4, Highest
<1>6. z \in s /\ \A y \in s : ~Ahead(C[z], C[y])
  <2>1. z \in s /\ priority[z] = priority[x]
    BY <1>5
  <2>2. ASSUME NEW y \in s PROVE ~Ahead(C[z], C[y])
    <3>1. priority[y] <= priority[z]
      BY <1>3, <2>1
    <3>2. CASE priority[y] = priority[z]
      <4>1. y \in t
        BY <2>1, <3>2
      <4>2. name[y] <= name[z]
        BY <1>5, <4>1
      <4> QED
        BY <1>1, <2>1, <3>1, <4>2 DEF Ahead
    <3>3. CASE priority[y] # priority[z]
      BY <1>1, <2>1, <3>1, <3>3 DEF Ahead
    <3> QED
      BY <3>2, <3>3
  <2> QED
    BY <2>1, <2>2
<1>7. LastOf(C, s) \in s /\ \A e \in s : ~Ahead(C[LastOf(C, s)], C[e])
  BY <1>6 DEF LastOf
<1> DEFINE last == LastOf(C, s)
<1>8. ASSUME NEW e \in s \ {last} PROVE Ahead(C[e], C[last])
  <2>1. ~Ahead(C[last], C[e]) /\ last \in s
    BY <1>7
  <2> HIDE DEF last
  <2>2. name[e] # name[last]
    BY <1>1, <2>1 DEF Ranked
  <2> QED
    BY <1>1, <2>1, <2>2 DEF Ahead
<1> QED
  BY <1>7, <1>8

\* What the loop computes for the subsets of S, the last bucket after the others.
HandsOut(g, C, whole, cash, S) ==
    g = [s \in SUBSET S |->
           IF s = {} THEN [left |-> cash, to |-> [b \in DOMAIN C |-> 0]]
           ELSE Hand(C, whole, LastOf(C, s), g[s \ {LastOf(C, s)}])]

\* The last bucket is given what the others leave.
LEMMA LastIsHanded ==
    ASSUME NEW C, NEW whole, Ranked(C, whole), NEW cash \in Nat, NEW s, s \subseteq DOMAIN C, s # {}
    PROVE  Shared(C, whole, cash, s)
              = Hand(C, whole, LastOf(C, s), Shared(C, whole, cash, s \ {LastOf(C, s)}))
<1> DEFINE x == LastOf(C, s)
           r == s \ {x}
           v == Room(C, whole)
           cap == Capacity(C[x], whole)
           L == Larger(0, cash - Amount(v, r))
<1>1. /\ x \in s /\ (\A e \in r : Ahead(C[e], C[x])) /\ \A e \in s : ~Ahead(C[x], C[e])
  BY LastFacts
<1> HIDE DEF x
<1>2. IsFiniteSet(r) /\ x \notin r /\ r \cup {x} = s
  BY <1>1, FS_Subset DEF Ranked
<1>3. EarlierIn(C, s, x) = r
  BY <1>1 DEF EarlierIn
<1>4. \A b \in r : EarlierIn(C, s, b) = EarlierIn(C, r, b)
  BY <1>1 DEF EarlierIn
<1>5. /\ Amount(v, r) \in Int /\ Amount(v, s) = Amount(v, r) + cap /\ cap \in Nat
  <2>1. v[x] = cap /\ s \subseteq DOMAIN v /\ \A y \in s : v[y] \in Int
    BY <1>1 DEF Room, Ranked
  <2>2. cap \in Nat
    BY <1>1 DEF Ranked
  <2> HIDE DEF v, cap, r
  <2>3. Amount(v, r) \in Int /\ Amount(v, r \cup {x}) = Amount(v, r) + v[x]
    BY <1>2, <2>1, AmountAdd
  <2> QED
    BY <1>2, <2>1, <2>2, <2>3
<1>6. Given(C, whole, cash, s, x) = Smaller(cap, L)
  <2>1. Given(C, whole, cash, s, x) = Larger(0, Smaller(cap, cash - Amount(v, r)))
    BY <1>3 DEF Given
  <2> HIDE DEF v, cap, r
  <2> QED
    BY <1>5, <2>1 DEF Larger, Smaller
<1>7. Larger(0, cash - Amount(v, s)) = L - Smaller(cap, L)
  <2> HIDE DEF v, cap, r
  <2> QED
    BY <1>5 DEF Larger, Smaller
<1>8. \A b \in r : Given(C, whole, cash, s, b) = Given(C, whole, cash, r, b)
  BY <1>4 DEF Given
<1> DEFINE before == [b \in DOMAIN C |-> IF b \in r THEN Given(C, whole, cash, r, b) ELSE 0]
           after  == [b \in DOMAIN C |-> IF b \in s THEN Given(C, whole, cash, s, b) ELSE 0]
<1>9. after = [before EXCEPT ![x] = Smaller(cap, L)]
  <2>1. \A b \in DOMAIN C : after[b] = IF b = x THEN Smaller(cap, L) ELSE before[b]
    BY <1>2, <1>6, <1>8
  <2> QED
    BY <2>1
<1>10. Shared(C, whole, cash, r) = [left |-> L, to |-> before]
  BY DEF Shared
<1>11. Shared(C, whole, cash, s) = [left |-> Larger(0, cash - Amount(v, s)), to |-> after]
  BY DEF Shared
<1> HIDE DEF before, after, L, cap, v, r
<1>12. Hand(C, whole, x, Shared(C, whole, cash, r))
          = [left |-> L - Smaller(cap, L), to |-> [before EXCEPT ![x] = Smaller(cap, L)]]
  BY <1>10 DEF Hand, cap
<1>13. Shared(C, whole, cash, s) = Hand(C, whole, x, Shared(C, whole, cash, r))
  BY <1>7, <1>9, <1>11, <1>12
<1> QED
  BY <1>13 DEF x, r

\* The loop, in closed form.
LEMMA HandsOutFacts ==
    ASSUME NEW C, NEW whole, Ranked(C, whole), NEW cash \in Nat, NEW S, S \subseteq DOMAIN C
    PROVE  /\ \E g : HandsOut(g, C, whole, cash, S)
           /\ \A g : HandsOut(g, C, whole, cash, S) => g[S] = Shared(C, whole, cash, S)
<1> DEFINE h == [s \in SUBSET S |-> Shared(C, whole, cash, s)]
<1>1. Shared(C, whole, cash, {}) = [left |-> cash, to |-> [b \in DOMAIN C |-> 0]]
  <2>1. Amount(Room(C, whole), {}) = 0
    BY AmountEmpty
  <2> QED
    BY <2>1 DEF Shared, Larger
<1>2. ASSUME NEW s \in SUBSET S, s # {}
      PROVE  /\ h[s] = Hand(C, whole, LastOf(C, s), h[s \ {LastOf(C, s)}])
             /\ LastOf(C, s) \in s
  <2>1. s \ {LastOf(C, s)} \in SUBSET S
    OBVIOUS
  <2> QED
    BY <1>2, <2>1, LastIsHanded, LastFacts
<1>3. HandsOut(h, C, whole, cash, S)
  BY <1>1, <1>2 DEF HandsOut
<1> HIDE DEF h
<1>4. ASSUME NEW g, HandsOut(g, C, whole, cash, S) PROVE g[S] = h[S]
  <2> DEFINE bad == {s \in SUBSET S : g[s] # h[s]}
  <2> SUFFICES ASSUME bad # {} PROVE FALSE
    OBVIOUS
  <2>1. PICK s \in bad : \A u \in bad : u \subseteq s => u = s
    <3>1. bad \subseteq SUBSET S /\ IsFiniteSet(S)
      BY FS_Subset DEF Ranked
    <3> HIDE DEF bad
    <3> QED
      BY <3>1, LeastSubset
  <2>2. s # {}
    BY <1>3, <1>4 DEF HandsOut
  <2>3. LastOf(C, s) \in s /\ s \in SUBSET S
    BY <1>2, <2>2
  <2>4. g[s \ {LastOf(C, s)}] = h[s \ {LastOf(C, s)}]
    BY <2>1, <2>3
  <2>5. /\ g[s] = Hand(C, whole, LastOf(C, s), g[s \ {LastOf(C, s)}])
        /\ h[s] = Hand(C, whole, LastOf(C, s), h[s \ {LastOf(C, s)}])
    BY <1>3, <1>4, <2>2, <2>3 DEF HandsOut
  <2> QED
    BY <2>1, <2>4, <2>5
<1>5. h[S] = Shared(C, whole, cash, S)
  BY DEF h
<1> QED
  BY <1>3, <1>4, <1>5

\* calculate_inflow_allocation hands out the cash as in the closed form.
LEMMA HandedFacts ==
    ASSUME NEW C, NEW whole, Ranked(C, whole), NEW cash \in Nat
    PROVE  Handed(C, whole, cash) = Shared(C, whole, cash, Open(C, whole))
<1> DEFINE S == Open(C, whole)
           iter == CHOOSE g : HandsOut(g, C, whole, cash, S)
<1>1. S \subseteq DOMAIN C
  BY DEF Open
<1>2. Handed(C, whole, cash) = iter[S]
  BY DEF Handed, MapThenFoldSet, HandsOut
<1> HIDE DEF S
<1>3. HandsOut(iter, C, whole, cash, S)
  <2>1. \E g : HandsOut(g, C, whole, cash, S)
    BY <1>1, HandsOutFacts
  <2> QED
    BY <2>1
<1> HIDE DEF iter
<1>4. iter[S] = Shared(C, whole, cash, S)
  BY <1>1, <1>3, HandsOutFacts
<1> QED
  BY <1>2, <1>4 DEF S

\* Together the buckets are given what is not left.
LEMMA SharedAdds ==
    ASSUME NEW C, NEW whole, Ranked(C, whole), NEW cash \in Nat, NEW S, S \subseteq DOMAIN C
    PROVE  LET H == Shared(C, whole, cash, S)
           IN  /\ H.left \in 0 .. cash
               /\ \A b \in DOMAIN C : /\ H.to[b] \in Nat
                                      /\ H.to[b] <= Capacity(C[b], whole)
               /\ Amount(H.to, S) = cash - H.left
<1> DEFINE v == Room(C, whole)
           Left(s) == Shared(C, whole, cash, s).left
           To(s) == Shared(C, whole, cash, s).to
<1>1. ASSUME NEW s \in SUBSET S
      PROVE  /\ IsFiniteSet(s) /\ Amount(v, s) \in Nat
             /\ Left(s) = Larger(0, cash - Amount(v, s)) /\ Left(s) \in 0 .. cash
  <2>1. IsFiniteSet(s)
    BY FS_Subset DEF Ranked
  <2>2. s \subseteq DOMAIN v /\ \A x \in s : v[x] \in Nat
    BY DEF Room, Ranked
  <2>3. Amount(v, s) \in Nat
    <3> HIDE DEF v
    <3> QED
      BY <2>1, <2>2, AmountNat
  <2>4. Left(s) = Larger(0, cash - Amount(v, s))
    BY DEF Shared
  <2> HIDE DEF v, Left
  <2> QED
    BY <2>1, <2>3, <2>4 DEF Larger
<1>2. ASSUME NEW s \in SUBSET S, NEW b \in DOMAIN C
      PROVE  /\ To(s)[b] \in Nat /\ To(s)[b] <= Capacity(C[b], whole)
             /\ To(s)[b] = IF b \in s THEN Given(C, whole, cash, s, b) ELSE 0
  <2>1. To(s)[b] = IF b \in s THEN Given(C, whole, cash, s, b) ELSE 0
    BY DEF Shared
  <2>2. Amount(v, EarlierIn(C, s, b)) \in Nat
    <3>1. EarlierIn(C, s, b) \in SUBSET S
      BY DEF EarlierIn
    <3> QED
      BY <1>1, <3>1
  <2>3. Capacity(C[b], whole) \in Nat
    BY DEF Ranked
  <2> HIDE DEF To, v
  <2> QED
    BY <2>1, <2>2, <2>3 DEF Given, Larger, Smaller, v
<1> DEFINE bad == {s \in SUBSET S : Amount(To(s), s) # cash - Left(s)}
<1>3. ASSUME bad # {} PROVE FALSE
  <2>1. PICK s \in bad : \A u \in bad : u \subseteq s => u = s
    <3>1. bad \subseteq SUBSET S /\ IsFiniteSet(S)
      BY <1>1
    <3> HIDE DEF bad
    <3> QED
      BY <1>3, <3>1, LeastSubset
  <2>2. s # {}
    <3>1. Amount(To({}), {}) = 0 /\ Amount(v, {}) = 0
      BY AmountEmpty
    <3>2. Left({}) = cash
      <4> HIDE DEF Left, v
      <4> QED
        BY <1>1, <3>1 DEF Larger
    <3>3. {} \notin bad
      BY <3>1, <3>2
    <3> QED
      BY <3>3
  <2> DEFINE x == LastOf(C, s)
             r == s \ {x}
             amount == Smaller(Capacity(C[x], whole), Left(r))
  <2>3. x \in s
    BY <2>2, LastFacts
  <2> HIDE DEF x
  <2>4. IsFiniteSet(r) /\ x \notin r /\ r \cup {x} = s /\ r \in SUBSET S /\ s \in SUBSET S
    BY <2>1, <2>3, <1>1
  <2>5. Left(s) = Left(r) - amount /\ To(s) = [To(r) EXCEPT ![x] = amount]
    <3>1. Shared(C, whole, cash, s) = Hand(C, whole, x, Shared(C, whole, cash, r))
      BY <2>2, <2>4, LastIsHanded DEF x
    <3> QED
      BY <3>1 DEF Hand
  <2>6. Amount(To(r), r) = cash - Left(r)
    BY <2>1, <2>3, <2>4
  <2>7. DOMAIN To(r) = DOMAIN C /\ DOMAIN To(s) = DOMAIN C
    BY DEF Shared
  <2>8. To(s)[x] = amount /\ \A y \in r : To(s)[y] = To(r)[y]
    <3> HIDE DEF r, amount
    <3> QED
      BY <2>4, <2>5, <2>7
  <2>9. Amount(To(s), r) = Amount(To(r), r)
    <3> DEFINE f == To(s)
               g == To(r)
    <3>1. r \subseteq DOMAIN f /\ r \subseteq DOMAIN g /\ \A y \in r : f[y] = g[y]
      BY <2>4, <2>7, <2>8
    <3> HIDE DEF f, g, r
    <3>2. Amount(f, r) = Amount(g, r)
      BY <3>1, AmountSame
    <3> QED
      BY <3>2 DEF f, g
  <2>10. Amount(To(s), s) = Amount(To(s), r) + amount /\ Amount(To(s), r) \in Int
    <3> DEFINE f == To(s)
    <3>1. f[x] = amount /\ r \cup {x} \subseteq DOMAIN f /\ \A y \in r \cup {x} : f[y] \in Int
      BY <1>2, <2>4, <2>7, <2>8
    <3> HIDE DEF f, r, amount
    <3>2. Amount(f, r) \in Int /\ Amount(f, r \cup {x}) = Amount(f, r) + f[x]
      BY <2>4, <3>1, AmountAdd
    <3> QED
      BY <2>4, <3>1, <3>2 DEF f
  <2>11. Left(r) \in Int /\ amount \in Int
    <3>1. Left(r) \in 0 .. cash /\ Capacity(C[x], whole) \in Nat
      BY <1>1, <2>3, <2>4 DEF Ranked
    <3> HIDE DEF Left
    <3> QED
      BY <3>1 DEF Smaller
  <2>12. Amount(To(s), s) = cash - Left(s)
    <3> HIDE DEF To, Left, amount, r
    <3> QED
      BY <2>5, <2>6, <2>9, <2>10, <2>11
  <2> QED
    BY <2>1, <2>12
<1>4. Amount(To(S), S) = cash - Left(S)
  BY <1>3
<1> QED
  BY <1>1, <1>2, <1>4

-----------------------------------------------------------------------------
(* What the positions add up to. *)

\* What each position counts for: nothing when it cannot be valued.
Worths(P) == [a \in DOMAIN P |-> IF P[a].value = Unpriced THEN 0 ELSE P[a].value]

Valued(P) == /\ IsFiniteSet(DOMAIN P)
             /\ \A a \in DOMAIN P : P[a].value \in Nat \cup {Unpriced}

\* The value of some of the positions is a sum over them.
LEMMA ValueInFacts ==
    ASSUME NEW P, Valued(P), NEW S, S \subseteq DOMAIN P
    PROVE  ValueIn(P, S) = Amount(Worths(P), S) /\ Amount(Worths(P), S) \in Nat
<1> DEFINE T == {a \in S : P[a].value # Unpriced}
           U == {a \in S : P[a].value = Unpriced}
           v == [a \in T |-> P[a].value]
           w == Worths(P)
           Eq(g) == g = [s \in SUBSET T |->
                           IF s = {} THEN 0
                           ELSE P[CHOOSE x \in s : TRUE].value + g[s \ {CHOOSE x \in s : TRUE}]]
           iter == CHOOSE g : Eq(g)
<1>1. ValueIn(P, S) = iter[T]
  BY DEF ValueIn, MapThenSumSet, MapThenFoldSet
<1>2. v \in [T -> Int]
  BY DEF Valued
<1>3. IsFiniteSet(S) /\ IsFiniteSet(T) /\ IsFiniteSet(U) /\ T \cup U = S /\ T \cap U = {}
  BY FS_Subset DEF Valued
<1>4. ASSUME NEW g PROVE Eq(g) <=> AddsUp(g, v, T)
  <2>1. \A s \in SUBSET T : s # {} => v[CHOOSE x \in s : TRUE] = P[CHOOSE x \in s : TRUE].value
    OBVIOUS
  <2> HIDE DEF v, T
  <2> QED
    BY <2>1 DEF AddsUp
<1>5. \A a \in T : v[a] = w[a]
  BY DEF Worths
<1>6. \A a \in U : w[a] = 0
  BY DEF Worths
<1>7. S \subseteq DOMAIN w /\ \A a \in S : w[a] \in Nat
  BY DEF Worths, Valued
<1>8. T \subseteq DOMAIN v
  OBVIOUS
<1> HIDE DEF v, w, T, U
<1>9. \E g : Eq(g)
  <2>1. AddsUp([s \in SUBSET T |-> Amount(v, s)], v, T)
    BY <1>2, <1>3, SumExists
  <2> HIDE DEF Eq
  <2> QED
    BY <1>4, <2>1
<1>10. Eq(iter)
  BY <1>9
<1> HIDE DEF iter, Eq
<1>11. iter[T] = Amount(v, T)
  BY <1>2, <1>3, <1>4, <1>10, SumUnique
<1>12. Amount(v, T) = Amount(w, T)
  BY <1>3, <1>5, <1>7, <1>8, AmountSame
<1>13. Amount(w, S) = Amount(w, T) + Amount(w, U) /\ Amount(w, S) \in Nat
  <2>1. T \cup U \subseteq DOMAIN w /\ \A a \in T \cup U : w[a] \in Int
    BY <1>3, <1>7
  <2> QED
    BY <1>3, <1>7, <2>1, AmountParts, AmountNat
<1>14. Amount(w, U) = 0
  BY <1>3, <1>6, <1>7, AmountZero
<1>15. Amount(w, T) \in Nat
  BY <1>3, <1>7, AmountNat
<1> QED
  BY <1>1, <1>11, <1>12, <1>13, <1>14, <1>15 DEF w

-----------------------------------------------------------------------------
(* What the engines are told of a bucket. *)

Percentages == 0 .. 100 \cup {Absent}

CandidateOK(c, whole) ==
    /\ c.value \in Nat /\ c.target \in Percentages /\ c.maximum \in Percentages
    /\ c.allow \in BOOLEAN /\ c.priority \in Int /\ c.name \in Int /\ c.excluded \in BOOLEAN
    /\ c.target_status = IF c.excluded THEN "NO_TARGET" ELSE TargetStatus(c.value, whole, c.target)
    /\ c.maximum_breached = (~c.excluded /\ BreachesMaximum(c.value, whole, c.maximum))
    /\ c.buy_allowed = (c.allow /\ ~c.maximum_breached)

CandidatesOK(C, whole) ==
    /\ whole \in Nat
    /\ IsFiniteSet(DOMAIN C)
    /\ \A b \in DOMAIN C : CandidateOK(C[b], whole)
    /\ \A b, e \in DOMAIN C : C[b].name = C[e].name => b = e

\* What a bucket can take, and what that says of it.
LEMMA CapacityFacts ==
    ASSUME NEW c, NEW whole \in Nat, CandidateOK(c, whole)
    PROVE  /\ Capacity(c, whole) \in Nat
           /\ Gap(c, whole) \in Int /\ Headroom(c, whole) \in Int
           /\ Capacity(c, whole) > 0 =>
                 /\ ~c.excluded /\ c.allow /\ c.target # Absent
                 /\ Capacity(c, whole) <= Gap(c, whole)
                 /\ Capacity(c, whole) <= Headroom(c, whole)
<1>1. c.target * whole \in Int /\ c.maximum * whole \in Int /\ 100 * c.value \in Int
  BY DEF CandidateOK, Percentages, Absent
<1>2. Gap(c, whole) \in Int /\ Headroom(c, whole) \in Int
  BY <1>1 DEF Gap, Headroom
<1>3. Larger(0, Smaller(Gap(c, whole), Headroom(c, whole))) \in Nat
  BY <1>2 DEF Larger, Smaller
<1>4. CASE CapacityStatus(c, whole) \in {"TARGET_GAP", "MAXIMUM_LIMIT"}
  <2>1. ~c.excluded /\ c.target # Absent /\ c.allow
    BY <1>4 DEF CapacityStatus
  <2>2. Capacity(c, whole) = Larger(0, Smaller(Gap(c, whole), Headroom(c, whole)))
    BY <1>4 DEF Capacity
  <2> QED
    BY <1>2, <1>3, <2>1, <2>2 DEF Larger, Smaller
<1>5. CASE CapacityStatus(c, whole) \notin {"TARGET_GAP", "MAXIMUM_LIMIT"}
  <2>1. Capacity(c, whole) = 0
    BY <1>5 DEF Capacity
  <2> QED
    BY <1>2, <2>1
<1> QED
  BY <1>4, <1>5

\* The buckets that compete for the cash.
Competing(C) == [b \in Buyable(C) |-> C[b]]

\* They can be put in order.
LEMMA CompetingRanked ==
    ASSUME NEW C, NEW whole, CandidatesOK(C, whole)
    PROVE  /\ Ranked(C, whole) /\ Ranked(Competing(C), whole)
           /\ DOMAIN Competing(C) = Buyable(C) /\ Buyable(C) \subseteq DOMAIN C
           /\ \A b \in Buyable(C) : Competing(C)[b] = C[b]
<1>1. /\ DOMAIN Competing(C) = Buyable(C) /\ Buyable(C) \subseteq DOMAIN C
      /\ \A b \in Buyable(C) : Competing(C)[b] = C[b]
  BY DEF Competing, Buyable
<1>2. IsFiniteSet(Buyable(C))
  BY <1>1, FS_Subset DEF CandidatesOK
<1>3. \A b \in DOMAIN C : C[b].priority \in Int /\ C[b].name \in Int /\ Capacity(C[b], whole) \in Nat
  BY CapacityFacts DEF CandidatesOK, CandidateOK
<1>4. Ranked(C, whole)
  BY <1>3 DEF Ranked, CandidatesOK
<1>5. Ranked(Competing(C), whole)
  BY <1>1, <1>2, <1>4 DEF Ranked
<1> QED
  BY <1>1, <1>4, <1>5

\* What is recommended for each bucket.
LEMMA RebalancingFacts ==
    ASSUME NEW C, NEW whole, CandidatesOK(C, whole), NEW cash \in Nat
    PROVE  LET R == Rebalancing(C, whole, cash)
               to == Shared(Competing(C), whole, 100 * cash, Open(Competing(C), whole)).to
           IN  /\ DOMAIN R = DOMAIN C
               /\ \A b \in Buyable(C) :
                     /\ R[b] = [action |-> BuySideAction(C[b], whole, to[b]), amount |-> to[b],
                                status |-> C[b].target_status]
                     /\ to[b] \in Nat /\ to[b] <= Capacity(C[b], whole)
               /\ \A b \in DOMAIN C \ Buyable(C) :
                     R[b] = [action |-> "REDUCE", amount |-> RequiredReduction(C[b], whole),
                             status |-> "MAXIMUM_BREACHED"]
               /\ \A b \in DOMAIN C : /\ R[b].action \in RebalancingActions
                                      /\ R[b].amount \in Nat
<1> DEFINE B == Competing(C)
           H == Shared(B, whole, 100 * cash, Open(B, whole))
           R == Rebalancing(C, whole, cash)
<1>1. /\ Ranked(B, whole) /\ DOMAIN B = Buyable(C) /\ Buyable(C) \subseteq DOMAIN C
      /\ \A b \in Buyable(C) : B[b] = C[b]
  BY CompetingRanked
<1>2. 100 * cash \in Nat
  OBVIOUS
<1>3. Handed(B, whole, 100 * cash) = H
  BY <1>1, <1>2, HandedFacts
<1>4. \A b \in Buyable(C) : H.to[b] \in Nat /\ H.to[b] <= Capacity(C[b], whole)
  <2>1. Open(B, whole) \subseteq DOMAIN B
    BY DEF Open
  <2> HIDE DEF B
  <2>2. \A b \in DOMAIN B : H.to[b] \in Nat /\ H.to[b] <= Capacity(B[b], whole)
    BY <1>1, <1>2, <2>1, SharedAdds
  <2> QED
    BY <1>1, <2>2
<1>5. /\ DOMAIN R = DOMAIN C
      /\ \A b \in Buyable(C) :
            R[b] = [action |-> BuySideAction(C[b], whole, H.to[b]), amount |-> H.to[b],
                    status |-> C[b].target_status]
      /\ \A b \in DOMAIN C \ Buyable(C) :
            R[b] = [action |-> "REDUCE", amount |-> RequiredReduction(C[b], whole),
                    status |-> "MAXIMUM_BREACHED"]
  <2>1. R = [b \in DOMAIN C |->
               IF b \in Buyable(C)
               THEN [action |-> BuySideAction(C[b], whole, H.to[b]), amount |-> H.to[b],
                     status |-> C[b].target_status]
               ELSE [action |-> "REDUCE", amount |-> RequiredReduction(C[b], whole),
                     status |-> "MAXIMUM_BREACHED"]]
    <3> HIDE DEF H
    <3> QED
      BY <1>1, <1>3 DEF Rebalancing, Competing
  <2> HIDE DEF H, R
  <2> QED
    BY <1>1, <2>1
<1>6. \A b \in DOMAIN C : RequiredReduction(C[b], whole) \in Nat
  <2>1. ASSUME NEW b \in DOMAIN C PROVE RequiredReduction(C[b], whole) \in Nat
    <3> DEFINE c == C[b]
    <3>1. c.value \in Nat /\ c.maximum \in Int /\ whole \in Nat
      BY DEF CandidatesOK, CandidateOK, Percentages, Absent
    <3> HIDE DEF c
    <3>2. c.maximum * whole \in Int
      BY <3>1
    <3>3. RequiredReduction(c, whole) \in Nat
      BY <3>1, <3>2 DEF RequiredReduction, Larger
    <3> QED
      BY <3>3 DEF c
  <2> QED
    BY <2>1
<1>7. \A c, amount : BuySideAction(c, whole, amount) \in RebalancingActions
  BY DEF BuySideAction, RebalancingActions
<1>8. \A b \in DOMAIN C : R[b].action \in RebalancingActions /\ R[b].amount \in Nat
  <2>1. "REDUCE" \in RebalancingActions
    BY DEF RebalancingActions
  <2> HIDE DEF R, H
  <2>2. ASSUME NEW b \in Buyable(C) PROVE R[b].action \in RebalancingActions /\ R[b].amount \in Nat
    <3> DEFINE action == BuySideAction(C[b], whole, H.to[b])
               amount == H.to[b]
    <3>1. R[b] = [action |-> action, amount |-> amount, status |-> C[b].target_status]
      BY <1>5
    <3> HIDE DEF action, amount
    <3>2. R[b].action = action /\ R[b].amount = amount
      BY <3>1
    <3>3. R[b].action = BuySideAction(C[b], whole, H.to[b]) /\ R[b].amount = H.to[b]
      BY <3>2 DEF action, amount
    <3>4. BuySideAction(C[b], whole, H.to[b]) \in RebalancingActions
      BY <1>7
    <3> QED
      BY <1>4, <3>3, <3>4
  <2>3. ASSUME NEW b \in DOMAIN C \ Buyable(C)
        PROVE  R[b].action \in RebalancingActions /\ R[b].amount \in Nat
    BY <1>5, <1>6, <2>1
  <2> QED
    BY <2>2, <2>3
<1> QED
  BY <1>4, <1>5, <1>8

-----------------------------------------------------------------------------
(* What an answer says. *)

\* A purchase is possible and allowed, a reduction answers a breach, and the
\* protected bucket is left alone.
LEMMA AnswerFits ==
    ASSUME NEW C, NEW whole, CandidatesOK(C, whole), NEW cash \in Nat, NEW b \in DOMAIN C
    PROVE  LET r == Rebalancing(C, whole, cash)[b]
           IN  /\ r.action = "BUY" =>
                     /\ C[b].buy_allowed /\ ~C[b].excluded /\ r.amount > 0
                     /\ r.amount <= Gap(C[b], whole) /\ r.amount <= Headroom(C[b], whole)
               /\ (r.action = "REDUCE") = C[b].maximum_breached
               /\ C[b].excluded => r.amount = 0
<1> DEFINE r == Rebalancing(C, whole, cash)[b]
           amount == Shared(Competing(C), whole, 100 * cash, Open(Competing(C), whole)).to[b]
           action == BuySideAction(C[b], whole, amount)
<1>1. CandidateOK(C[b], whole) /\ whole \in Nat
  BY DEF CandidatesOK
<1>2. /\ Capacity(C[b], whole) \in Nat
      /\ Gap(C[b], whole) \in Int /\ Headroom(C[b], whole) \in Int
      /\ Capacity(C[b], whole) > 0 =>
            /\ ~C[b].excluded /\ C[b].allow /\ C[b].target # Absent
            /\ Capacity(C[b], whole) <= Gap(C[b], whole)
            /\ Capacity(C[b], whole) <= Headroom(C[b], whole)
  BY <1>1, CapacityFacts
<1>3. CASE b \in Buyable(C)
  <2>1. /\ r = [action |-> action, amount |-> amount, status |-> C[b].target_status]
        /\ amount \in Nat /\ amount <= Capacity(C[b], whole)
    BY <1>3, RebalancingFacts
  <2>2. ~C[b].maximum_breached
    BY <1>3 DEF Buyable
  <2>3. action # "REDUCE" /\ (action = "BUY" => amount > 0)
    <3> HIDE DEF amount
    <3> QED
      BY DEF BuySideAction
  <2> HIDE DEF action, amount, r
  <2>4. r.action = action /\ r.amount = amount
    BY <2>1
  <2>5. amount > 0 => Capacity(C[b], whole) > 0
    BY <1>2, <2>1
  <2>6. /\ r.action = "BUY" =>
              /\ C[b].buy_allowed /\ ~C[b].excluded /\ r.amount > 0
              /\ r.amount <= Gap(C[b], whole) /\ r.amount <= Headroom(C[b], whole)
        /\ C[b].excluded => r.amount = 0
    BY <1>1, <1>2, <2>1, <2>2, <2>3, <2>4, <2>5 DEF CandidateOK
  <2>7. (r.action = "REDUCE") = C[b].maximum_breached
    <3>1. C[b].maximum_breached \in BOOLEAN
      BY <1>1 DEF CandidateOK
    <3> QED
      BY <2>2, <2>3, <2>4, <3>1
  <2> QED
    BY <2>6, <2>7 DEF r
<1>4. CASE b \notin Buyable(C)
  <2>1. r = [action |-> "REDUCE", amount |-> RequiredReduction(C[b], whole), status |-> "MAXIMUM_BREACHED"]
    BY <1>4, RebalancingFacts
  <2> HIDE DEF r
  <2>2. C[b].maximum_breached
    BY <1>4 DEF Buyable
  <2>3. ~C[b].excluded /\ C[b].maximum_breached \in BOOLEAN
    BY <1>1, <2>2 DEF CandidateOK
  <2>4. r.action = "REDUCE"
    BY <2>1
  <2>5. (r.action = "REDUCE") = C[b].maximum_breached
    BY <2>2, <2>3, <2>4
  <2>6. r.action # "BUY"
    BY <2>4
  <2> QED
    BY <2>3, <2>5, <2>6 DEF r
<1> QED
  BY <1>3, <1>4

\* A bucket for which no card is made is on its target, if it has one and takes
\* part, and not at its maximum.
LEMMA NoCardOnTarget ==
    ASSUME NEW C, NEW whole, CandidatesOK(C, whole), NEW cash \in Nat, NEW b \in DOMAIN C,
           CardType(C[b], Rebalancing(C, whole, cash)[b]) = "none", ~C[b].excluded
    PROVE  /\ C[b].target # Absent => C[b].target_status = "ON_TARGET"
           /\ ~C[b].maximum_breached
<1> DEFINE r == Rebalancing(C, whole, cash)[b]
           c == C[b]
           amount == Shared(Competing(C), whole, 100 * cash, Open(Competing(C), whole)).to[b]
<1>1. CandidateOK(c, whole) /\ whole \in Nat
  BY DEF CandidatesOK
<1>2. r.action # "REDUCE"
  BY DEF CardType
<1>3. ~c.maximum_breached
  BY <1>2, AnswerFits
<1>4. b \in Buyable(C)
  BY <1>3 DEF Buyable
<1>5. /\ r = [action |-> BuySideAction(c, whole, amount), amount |-> amount, status |-> c.target_status]
      /\ amount \in Nat
  BY <1>4, RebalancingFacts
<1> HIDE DEF amount
<1> DEFINE action == BuySideAction(c, whole, amount)
<1>6. r.action = action /\ r.status = c.target_status
  BY <1>5
<1>7. CardType(c, r) = "none" /\ ~c.excluded
  OBVIOUS
<1> HIDE DEF r, c
<1>8. ASSUME c.target # Absent PROVE c.target_status = "ON_TARGET"
  <2>1. action \in {"BUY", "HOLD", "NO_CAPACITY"}
    BY <1>7, <1>8 DEF BuySideAction
  <2>2. action = "HOLD"
    BY <1>6, <1>7, <2>1 DEF CardType
  <2>3. c.target_status = "ON_TARGET" \/ (c.allow /\ c.target_status # "OVERWEIGHT")
    BY <1>6, <1>7, <2>2 DEF CardType
  <2>4. ASSUME c.allow, c.target_status # "OVERWEIGHT" PROVE c.target_status = "ON_TARGET"
    <3>1. CapacityStatus(c, whole) \in {"AT_TARGET", "OVER_TARGET"}
      BY <1>7, <1>8, <2>2, <2>4 DEF BuySideAction
    <3>2. whole > 0 /\ (Gap(c, whole) = 0 \/ Gap(c, whole) < 0)
      BY <1>1, <1>7, <1>8, <2>4, <3>1 DEF CapacityStatus
    <3> DEFINE t == c.target * whole
               excess == Excess(c.value, whole, c.target)
    <3>3. t \in Int /\ c.value \in Nat
      BY <1>1 DEF CandidateOK, Percentages, Absent
    <3>4. excess = 100 * c.value - t /\ Gap(c, whole) = t - 100 * c.value
      BY <3>2, <1>1 DEF Excess, Gap
    <3> HIDE DEF t
    <3>5. excess \in Int /\ excess >= 0
      BY <3>2, <3>3, <3>4
    <3>6. c.target_status = IF WithinTolerance(excess, whole) THEN "ON_TARGET"
                            ELSE IF excess > 0 THEN "OVERWEIGHT" ELSE "UNDERWEIGHT"
      BY <1>1, <1>7, <1>8 DEF CandidateOK, TargetStatus
    <3> HIDE DEF excess
    <3>7. excess = 0 => WithinTolerance(excess, whole)
      BY <3>2, <1>1 DEF WithinTolerance
    <3> QED
      BY <2>4, <3>5, <3>6, <3>7
  <2> QED
    BY <2>3, <2>4
<1> QED
  BY <1>3, <1>8 DEF c

\* Where a card is made the first one shown is one of those, never the one that
\* says all is well.
LEMMA FirstCardIsMade ==
    ASSUME NEW C, NEW whole, CandidatesOK(C, whole), NEW R,
           NEW d \in DOMAIN C, CardType(C[d], R[d]) # "none"
    PROVE  Recommendations(C, R)[1] # Healthy
<1> DEFINE D == {e \in DOMAIN C : CardType(C[e], R[e]) # "none"}
           cards == {Card(C, R, b) : b \in D}
           First(x, y) == \/ Tier(x.type) < Tier(y.type)
                          \/ Tier(x.type) = Tier(y.type) /\ Ahead(C[x.bucket], C[y.bucket])
           ahead(x) == {y \in cards : First(y, x)}
           sooner == [b \in D |-> -Tier(CardType(C[b], R[b]))]
           before == [b \in D |-> -C[b].priority]
           above  == [b \in D |-> -C[b].name]
<1>1. IsFiniteSet(D) /\ D # {} /\ D \subseteq DOMAIN C
  BY FS_Subset DEF CandidatesOK
<1>2. \A b \in D : Tier(CardType(C[b], R[b])) \in Int
  <2>1. \A b \in D : CardType(C[b], R[b]) \in {"BREACH_RESOLUTION", "RESTRICTED_ACTION",
                                              "CASH_DEPLOYMENT", "REBALANCING_OPPORTUNITY"}
    BY DEF CardType
  <2>2. \A type \in {"BREACH_RESOLUTION", "RESTRICTED_ACTION", "CASH_DEPLOYMENT", "REBALANCING_OPPORTUNITY"} :
           \E i \in DOMAIN RecommendationTypes : RecommendationTypes[i] = type
    BY DEF RecommendationTypes
  <2>3. \A i \in DOMAIN RecommendationTypes : i \in Int
    BY DEF RecommendationTypes
  <2>4. \A type \in {"BREACH_RESOLUTION", "RESTRICTED_ACTION", "CASH_DEPLOYMENT", "REBALANCING_OPPORTUNITY"} :
           Tier(type) \in Int
    BY <2>2, <2>3 DEF Tier
  <2> QED
    BY <2>1, <2>4
<1>3. \A b \in D : C[b].priority \in Int /\ C[b].name \in Int
  BY <1>1 DEF CandidatesOK, CandidateOK
<1>4. /\ \A b \in D : sooner[b] \in Int /\ sooner[b] = -Tier(CardType(C[b], R[b]))
      /\ \A b \in D : before[b] \in Int /\ before[b] = -C[b].priority
      /\ \A b \in D : above[b] \in Int /\ above[b] = -C[b].name
  BY <1>2, <1>3
<1> HIDE DEF sooner, before, above, D
<1>5. PICK x \in D : \A y \in D : sooner[y] <= sooner[x]
  BY <1>1, <1>4, Highest
<1> DEFINE T == {y \in D : sooner[y] = sooner[x]}
<1>6. IsFiniteSet(T) /\ T # {} /\ T \subseteq D
  BY <1>1, <1>5, FS_Subset
<1>7. PICK w \in T : \A y \in T : before[y] <= before[w]
  <2> HIDE DEF T
  <2> QED
    BY <1>4, <1>6, Highest
<1> DEFINE U == {y \in T : before[y] = before[w]}
<1>8. IsFiniteSet(U) /\ U # {} /\ U \subseteq T
  BY <1>6, <1>7, FS_Subset
<1>9. PICK z \in U : \A y \in U : above[y] <= above[z]
  <2> HIDE DEF U, T
  <2> QED
    BY <1>4, <1>6, <1>8, Highest
<1>10. \A b \in D : Card(C, R, b).type = CardType(C[b], R[b]) /\ Card(C, R, b).bucket = b
  BY DEF Card
<1>11. ASSUME NEW y \in D PROVE ~First(Card(C, R, y), Card(C, R, z))
  <2>1. z \in D /\ sooner[z] = sooner[x] /\ before[z] = before[w]
    BY <1>6, <1>8, <1>9
  <2>2. /\ Tier(CardType(C[y], R[y])) \in Int /\ Tier(CardType(C[z], R[z])) \in Int
        /\ Tier(CardType(C[z], R[z])) <= Tier(CardType(C[y], R[y]))
    BY <1>2, <1>4, <1>5, <2>1
  <2>3. ASSUME Tier(CardType(C[z], R[z])) = Tier(CardType(C[y], R[y])), Ahead(C[y], C[z]) PROVE FALSE
    <3>1. y \in T
      BY <1>4, <2>1, <2>3
    <3>2. before[y] <= before[z]
      BY <1>7, <2>1, <3>1
    <3>3. C[y].priority = C[z].priority /\ C[y].name < C[z].name
      BY <1>3, <1>4, <2>1, <2>3, <3>2 DEF Ahead
    <3>4. before[y] = before[z]
      BY <1>4, <2>1, <3>3
    <3>5. y \in U
      BY <2>1, <3>1, <3>4
    <3>6. above[y] <= above[z]
      BY <1>9, <3>5
    <3> QED
      BY <1>3, <1>4, <2>1, <3>3, <3>6
  <2> HIDE DEF T, U
  <2>4. /\ Card(C, R, y).type = CardType(C[y], R[y]) /\ Card(C, R, y).bucket = y
        /\ Card(C, R, z).type = CardType(C[z], R[z]) /\ Card(C, R, z).bucket = z
    BY <1>10, <2>1
  <2>5. ~(Tier(CardType(C[y], R[y])) < Tier(CardType(C[z], R[z])))
    BY <2>2
  <2> QED
    BY <2>3, <2>4, <2>5
<1>12. z \in D
  BY <1>6, <1>8, <1>9
<1>13. ahead(Card(C, R, z)) = {}
  BY <1>11
<1>14. IsFiniteSet(cards) /\ cards # {} /\ Card(C, R, z) \in cards
  <2> DEFINE f == [b \in D |-> Card(C, R, b)]
  <2>1. f \in Surjection(D, cards)
    BY DEF Surjection
  <2>2. IsFiniteSet(cards)
    <3> HIDE DEF f, cards
    <3> QED
      BY <1>1, <2>1, FS_Surjection
  <2> QED
    BY <1>12, <2>2
<1>15. \A c \in cards : c.type # "PORTFOLIO_HEALTHY"
  BY <1>10 DEF D, CardType
<1>16. Cardinality(ahead(Card(C, R, z))) = 1 - 1
  BY <1>13, FS_EmptySet
<1>17. 1 \in 1 .. Cardinality(cards)
  <2> HIDE DEF cards
  <2> QED
    BY <1>14, FS_CardinalityType, FS_EmptySet
<1>18. Recommendations(C, R) = Sorted(cards, First)
  <2>1. Recommendations(C, R) = IF cards = {} THEN <<Healthy>> ELSE Sorted(cards, First)
    BY DEF Recommendations, D
  <2> QED
    BY <1>14, <2>1
<1>19. Sorted(cards, First)[1] = CHOOSE c \in cards : Cardinality(ahead(c)) = 1 - 1
  <2> HIDE DEF cards, First
  <2> QED
    BY <1>17 DEF Sorted
<1> HIDE DEF cards, ahead, First
<1>20. Recommendations(C, R)[1] \in cards
  BY <1>14, <1>16, <1>18, <1>19
<1>21. Healthy.type = "PORTFOLIO_HEALTHY"
  BY DEF Healthy
<1> QED
  BY <1>15, <1>20, <1>21

-----------------------------------------------------------------------------
(* Who gets how much. *)

WantedBy(C, whole, S) == MapThenSumSet(LAMBDA e : Capacity(C[e], whole), S)

\* What some of the buckets can take is a sum over them.
LEMMA CapacitySum ==
    ASSUME NEW C, NEW whole, Ranked(C, whole), NEW S, S \subseteq DOMAIN C
    PROVE  WantedBy(C, whole, S) = Amount(Room(C, whole), S)
<1> DEFINE v == [b \in S |-> Capacity(C[b], whole)]
           w == Room(C, whole)
           Eq(g) == g = [s \in SUBSET S |->
                           IF s = {} THEN 0
                           ELSE Capacity(C[CHOOSE x \in s : TRUE], whole)
                                  + g[s \ {CHOOSE x \in s : TRUE}]]
           iter == CHOOSE g : Eq(g)
<1>1. WantedBy(C, whole, S) = iter[S]
  BY DEF WantedBy, MapThenSumSet, MapThenFoldSet
<1>2. v \in [S -> Int] /\ IsFiniteSet(S)
  BY FS_Subset DEF Ranked
<1>3. ASSUME NEW g PROVE Eq(g) <=> AddsUp(g, v, S)
  <2>1. \A s \in SUBSET S : s # {} =>
           v[CHOOSE x \in s : TRUE] = Capacity(C[CHOOSE x \in s : TRUE], whole)
    OBVIOUS
  <2> HIDE DEF v
  <2> QED
    BY <2>1 DEF AddsUp
<1>4. S \subseteq DOMAIN v /\ S \subseteq DOMAIN w /\ \A x \in S : v[x] = w[x]
  BY DEF Room
<1> HIDE DEF v, w
<1>5. Eq(iter)
  <2>1. AddsUp([s \in SUBSET S |-> Amount(v, s)], v, S)
    BY <1>2, SumExists
  <2> HIDE DEF Eq
  <2>2. \E g : Eq(g)
    BY <1>3, <2>1
  <2> QED
    BY <2>2
<1> HIDE DEF iter, Eq
<1>6. iter[S] = Amount(v, S)
  BY <1>2, <1>3, <1>5, SumUnique
<1>7. Amount(v, S) = Amount(w, S)
  BY <1>4, AmountSame
<1> QED
  BY <1>1, <1>6, <1>7 DEF w

\* A bucket is given what it can take or what all those ahead of it leave,
\* those with no room among them.
LEMMA GivenInAll ==
    ASSUME NEW C, NEW whole, Ranked(C, whole), NEW cash \in Nat, NEW b \in DOMAIN C
    PROVE  Shared(C, whole, cash, Open(C, whole)).to[b] = Given(C, whole, cash, DOMAIN C, b)
<1> DEFINE v == Room(C, whole)
           S == Open(C, whole)
           all == EarlierIn(C, DOMAIN C, b)
           some == EarlierIn(C, S, b)
           cap == Capacity(C[b], whole)
<1>1. /\ IsFiniteSet(all) /\ some \subseteq all /\ all \subseteq DOMAIN C
      /\ \A e \in all \ some : ~(Capacity(C[e], whole) > 0)
  BY FS_Subset DEF Ranked, EarlierIn, Open
<1>2. all \subseteq DOMAIN v /\ \A e \in all : v[e] \in Nat /\ v[e] = Capacity(C[e], whole)
  BY <1>1 DEF Room, Ranked
<1>3. \A e \in all \ some : v[e] = 0
  BY <1>1, <1>2
<1> HIDE DEF v, all, some
<1>4. Amount(v, all) = Amount(v, some) /\ Amount(v, all) \in Nat
  BY <1>1, <1>2, <1>3, AmountRest, AmountNat
<1>5. Shared(C, whole, cash, S).to[b] = IF b \in S THEN Given(C, whole, cash, S, b) ELSE 0
  BY DEF Shared
<1>6. /\ Given(C, whole, cash, S, b) = Larger(0, Smaller(cap, cash - Amount(v, some)))
      /\ Given(C, whole, cash, DOMAIN C, b) = Larger(0, Smaller(cap, cash - Amount(v, all)))
  BY DEF Given, v, some, all
<1>7. cap \in Nat /\ (b \notin S => cap = 0)
  BY DEF Ranked, Open
<1> HIDE DEF cap, S
<1>8. b \notin S => Given(C, whole, cash, DOMAIN C, b) = 0
  BY <1>4, <1>6, <1>7 DEF Larger, Smaller
<1> QED
  BY <1>4, <1>5, <1>6, <1>8 DEF S

-----------------------------------------------------------------------------
(* Buckets and the whole. *)

\* What has been read of the positions.
PositionsOK(cfg, P) ==
    /\ DOMAIN P \subseteq Assets
    /\ \A a \in DOMAIN P : /\ P[a].value \in Nat \cup {Unpriced}
                           /\ P[a].bucket \in Buckets \cup {Absent}
                           /\ P[a].cash = (a \in CashAssets)
                           /\ P[a].emergency = (a = cfg.emergency)

\* The positions that lie in the buckets of R, and those that make the whole.
LyingIn(P, R) == {a \in DOMAIN P : P[a].bucket \in R}
Counted(cfg, P) == {a \in DOMAIN P : cfg.excluded => ~P[a].emergency}

\* Positions can be valued.
LEMMA PositionsValued ==
    ASSUME NEW cfg, NEW P, PositionsOK(cfg, P)
    PROVE  Valued(P)
<1>1. IsFiniteSet(DOMAIN P)
  BY PlanningAssumption, FS_Subset DEF PositionsOK
<1> QED
  BY <1>1 DEF Valued, PositionsOK

\* The values of buckets add up to the value of what lies in them.
LEMMA BucketsAddUp ==
    ASSUME NEW P, Valued(P), NEW R, IsFiniteSet(R), NEW u, R \subseteq DOMAIN u,
           \A b \in R : u[b] = BucketValue(P, b)
    PROVE  /\ \A b \in R : u[b] \in Nat
           /\ Amount(u, R) = Amount(Worths(P), LyingIn(P, R))
<1> DEFINE s == DOMAIN P
           v == Worths(P)
           key == [a \in s |-> P[a].bucket]
           In(b) == {a \in s : key[a] = b}
           all == {a \in s : key[a] \in R}
<1>1. IsFiniteSet(s) /\ v \in [s -> Nat]
  BY DEF Valued, Worths
<1>2. ASSUME NEW b \in R PROVE u[b] \in Nat /\ u[b] = Amount(v, {a \in s : key[a] = b})
  <2>1. In(b) = {a \in DOMAIN P : P[a].bucket = b} /\ In(b) \subseteq DOMAIN P
    OBVIOUS
  <2>2. BucketValue(P, b) = ValueIn(P, In(b))
    BY <2>1 DEF BucketValue
  <2> HIDE DEF In
  <2>3. u[b] \in Nat /\ u[b] = Amount(v, In(b))
    BY <1>2, <2>1, <2>2, ValueInFacts
  <2> QED
    BY <2>3 DEF In
<1>3. LyingIn(P, R) = all
  BY DEF LyingIn
<1> HIDE DEF s, v, key
<1>4. Amount(u, R) = Amount(v, {a \in s : key[a] \in R})
  <2>1. v \in [s -> Int]
    BY <1>1
  <2> QED
    BY <1>1, <1>2, <2>1, AmountGrouped
<1> QED
  BY <1>2, <1>3, <1>4 DEF v

\* The whole is a sum over the positions that count.
LEMMA WholeFacts ==
    ASSUME NEW cfg, cfg.excluded \in BOOLEAN, NEW P, PositionsOK(cfg, P)
    PROVE  /\ Denominator(P, cfg.excluded) = Amount(Worths(P), Counted(cfg, P))
           /\ Denominator(P, cfg.excluded) \in Nat
           /\ IsFiniteSet(Counted(cfg, P)) /\ Counted(cfg, P) \subseteq DOMAIN Worths(P)
           /\ \A a \in DOMAIN P : Worths(P)[a] \in Nat
<1>1. Valued(P)
  BY PositionsValued
<1>2. /\ Counted(cfg, P) \subseteq DOMAIN P
      /\ cfg.excluded => Counted(cfg, P) = {a \in DOMAIN P : ~P[a].emergency}
      /\ ~cfg.excluded => Counted(cfg, P) = DOMAIN P
  BY DEF Counted
<1>3. Denominator(P, cfg.excluded) = ValueIn(P, Counted(cfg, P))
  <2>1. CASE cfg.excluded
    BY <1>2, <2>1 DEF Denominator, Investable
  <2>2. CASE ~cfg.excluded
    BY <1>2, <2>2 DEF Denominator, Total
  <2> QED
    BY <2>1, <2>2
<1>4. ValueIn(P, Counted(cfg, P)) = Amount(Worths(P), Counted(cfg, P))
      /\ Amount(Worths(P), Counted(cfg, P)) \in Nat
  BY <1>1, <1>2, ValueInFacts
<1>5. IsFiniteSet(Counted(cfg, P))
  BY <1>1, <1>2, FS_Subset DEF Valued
<1>6. DOMAIN Worths(P) = DOMAIN P /\ \A a \in DOMAIN P : Worths(P)[a] \in Nat
  BY <1>1 DEF Worths, Valued
<1> QED
  BY <1>2, <1>3, <1>4, <1>5, <1>6

\* What lies in buckets that take part counts: the emergency asset, if it does
\* not count, lies in the bucket that is kept out.
LEMMA ParticipantsCount ==
    ASSUME NEW cfg, NEW P, PositionsOK(cfg, P), NEW R, \A b \in R : ~Excluded(cfg, P, b)
    PROVE  LyingIn(P, R) \subseteq Counted(cfg, P)
<1> SUFFICES ASSUME NEW a \in DOMAIN P, P[a].bucket \in R, cfg.excluded, P[a].emergency
             PROVE  FALSE
  BY DEF LyingIn, Counted
<1>1. a = cfg.emergency
  BY DEF PositionsOK
<1> QED
  BY <1>1 DEF Excluded, EmergencyBucket

-----------------------------------------------------------------------------
(* The candidates. *)

NamesOK(names) ==
    /\ DOMAIN names \subseteq Buckets
    /\ \A b \in DOMAIN names : names[b] \in Names
    /\ \A b, e \in DOMAIN names : names[b] = names[e] => b = e

RulesOK(rules) == \A b \in DOMAIN rules : rules[b] \in Rules

RuleFor(rules, b) == IF b \in DOMAIN rules THEN rules[b] ELSE NoRule

\* What the engines are told is in order.
LEMMA CandidatesFacts ==
    ASSUME NEW cfg, cfg.excluded \in BOOLEAN, NEW P, PositionsOK(cfg, P),
           NEW names, NamesOK(names), NEW rules, RulesOK(rules)
    PROVE  LET C == Candidates(cfg, P, names, rules)
           IN  /\ CandidatesOK(C, Denominator(P, cfg.excluded))
               /\ DOMAIN C = DOMAIN names /\ DOMAIN C \subseteq Buckets
               /\ \A b \in DOMAIN C : /\ C[b].value = BucketValue(P, b)
                                      /\ C[b].excluded = Excluded(cfg, P, b)
                                      /\ C[b].target = RuleFor(rules, b).target
                                      /\ C[b].maximum = RuleFor(rules, b).maximum
<1> DEFINE C == Candidates(cfg, P, names, rules)
           whole == Denominator(P, cfg.excluded)
<1>1. whole \in Nat
  BY WholeFacts
<1>2. DOMAIN C = DOMAIN names /\ IsFiniteSet(DOMAIN C) /\ DOMAIN C \subseteq Buckets
  BY AdminAssumption, FS_Subset DEF Candidates, NamesOK
<1>3. ASSUME NEW b \in DOMAIN C
      PROVE  /\ CandidateOK(C[b], whole) /\ C[b].value = BucketValue(P, b)
             /\ C[b].excluded = Excluded(cfg, P, b)
             /\ C[b].target = RuleFor(rules, b).target /\ C[b].maximum = RuleFor(rules, b).maximum
             /\ C[b].name = names[b]
  <2> DEFINE r == RuleFor(rules, b)
             value == BucketValue(P, b)
             out == Excluded(cfg, P, b)
             status == EvaluateBucket(value, whole, out, r)
             name == names[b]
  <2>1. C[b] = [value |-> value, target |-> r.target, maximum |-> r.maximum, allow |-> r.allow,
                priority |-> r.priority, name |-> name, excluded |-> out,
                target_status |-> status.target_status, maximum_breached |-> status.maximum_breached,
                buy_allowed |-> status.buy_allowed]
    BY <1>2 DEF Candidates, Candidate, Distribution, RuleFor
  <2>2. value \in Nat
    <3>1. Valued(P)
      BY PositionsValued
    <3> DEFINE S == {a \in DOMAIN P : P[a].bucket = b}
    <3>2. S \subseteq DOMAIN P /\ value = ValueIn(P, S)
      BY DEF BucketValue
    <3> HIDE DEF S, value
    <3> QED
      BY <3>1, <3>2, ValueInFacts
  <2>3. out \in BOOLEAN
    BY DEF Excluded
  <2>4. r.target \in Percentages /\ r.maximum \in Percentages /\ r.allow \in BOOLEAN /\ r.priority \in Int
    <3>1. CASE b \in DOMAIN rules
      <4>1. r \in Rules
        BY <3>1 DEF RuleFor, RulesOK
      <4> HIDE DEF r
      <4> QED
        BY <4>1 DEF Rules, Percentages
    <3>2. CASE b \notin DOMAIN rules
      BY <3>2 DEF RuleFor, NoRule, Percentages
    <3> QED
      BY <3>1, <3>2
  <2>5. name \in Int
    BY <1>2, AdminAssumption DEF NamesOK
  <2> HIDE DEF r, value, out, name
  <2> DEFINE breached == ~out /\ BreachesMaximum(value, whole, r.maximum)
  <2>6. /\ status.target_status = IF out THEN "NO_TARGET" ELSE TargetStatus(value, whole, r.target)
        /\ status.maximum_breached = breached
        /\ status.buy_allowed = (r.allow /\ ~breached)
    BY DEF EvaluateBucket
  <2> HIDE DEF status, breached
  <2>7. breached = (~out /\ BreachesMaximum(value, whole, r.maximum))
    BY DEF breached
  <2> DEFINE c == C[b]
  <2>8. /\ c.value = value /\ c.target = r.target /\ c.maximum = r.maximum /\ c.allow = r.allow
        /\ c.priority = r.priority /\ c.name = name /\ c.excluded = out
        /\ c.target_status = status.target_status /\ c.maximum_breached = status.maximum_breached
        /\ c.buy_allowed = status.buy_allowed
    BY <2>1
  <2> HIDE DEF c, whole
  <2>9. CandidateOK(c, whole)
    BY <2>2, <2>3, <2>4, <2>5, <2>6, <2>7, <2>8 DEF CandidateOK
  <2> QED
    BY <2>8, <2>9 DEF c, r, value, out, name
<1>4. \A b, e \in DOMAIN C : C[b].name = C[e].name => b = e
  BY <1>2, <1>3 DEF NamesOK
<1> HIDE DEF C, whole
<1>5. CandidatesOK(C, whole)
  BY <1>1, <1>2, <1>3, <1>4 DEF CandidatesOK
<1> QED
  BY <1>2, <1>3, <1>5 DEF C, whole

ShareOf(C) == MapThenSumSet(LAMBDA b : IF C[b].excluded THEN 0 ELSE C[b].value, DOMAIN C)

\* The shares of the buckets that take part do not exceed the whole.
LEMMA ShareSum ==
    ASSUME NEW cfg, cfg.excluded \in BOOLEAN, NEW P, PositionsOK(cfg, P),
           NEW names, NamesOK(names), NEW rules, RulesOK(rules)
    PROVE  LET C == Candidates(cfg, P, names, rules)
           IN  ShareOf(C) <= Denominator(P, cfg.excluded)
<1> DEFINE C == Candidates(cfg, P, names, rules)
           whole == Denominator(P, cfg.excluded)
           D == DOMAIN C
           v == [b \in D |-> IF C[b].excluded THEN 0 ELSE C[b].value]
           R == {b \in D : ~C[b].excluded}
           Eq(g) == g = [s \in SUBSET D |->
                           IF s = {} THEN 0
                           ELSE (IF C[CHOOSE x \in s : TRUE].excluded THEN 0
                                 ELSE C[CHOOSE x \in s : TRUE].value)
                                  + g[s \ {CHOOSE x \in s : TRUE}]]
           iter == CHOOSE g : Eq(g)
           W == Worths(P)
<1>1. /\ CandidatesOK(C, whole)
      /\ \A b \in D : C[b].value = BucketValue(P, b) /\ C[b].excluded = Excluded(cfg, P, b)
  BY CandidatesFacts
<1>2. ShareOf(C) = iter[D]
  BY DEF ShareOf, MapThenSumSet, MapThenFoldSet
<1> HIDE DEF C, whole
<1>3. /\ IsFiniteSet(D) /\ v \in [D -> Nat] /\ v \in [D -> Int]
      /\ \A b \in D : v[b] = IF C[b].excluded THEN 0 ELSE C[b].value
  <2>1. \A b \in D : C[b].value \in Nat
    BY <1>1 DEF CandidatesOK, CandidateOK
  <2> QED
    BY <1>1, <2>1 DEF CandidatesOK
<1>4. ASSUME NEW g PROVE Eq(g) <=> AddsUp(g, v, D)
  <2>1. \A s \in SUBSET D : s # {} =>
           v[CHOOSE x \in s : TRUE] = IF C[CHOOSE x \in s : TRUE].excluded THEN 0
                                      ELSE C[CHOOSE x \in s : TRUE].value
    OBVIOUS
  <2> HIDE DEF v
  <2> QED
    BY <2>1 DEF AddsUp
<1> HIDE DEF v
<1>5. Eq(iter)
  <2>1. AddsUp([s \in SUBSET D |-> Amount(v, s)], v, D)
    BY <1>3, SumExists
  <2> HIDE DEF Eq
  <2>2. \E g : Eq(g)
    BY <1>4, <2>1
  <2> QED
    BY <2>2
<1> HIDE DEF iter, Eq
<1>6. iter[D] = Amount(v, D)
  BY <1>3, <1>4, <1>5, SumUnique
<1>7. /\ IsFiniteSet(R) /\ R \subseteq D /\ (\A b \in D \ R : v[b] = 0)
      /\ (\A b \in R : v[b] = BucketValue(P, b)) /\ (\A b \in R : ~Excluded(cfg, P, b))
  BY <1>1, <1>3, FS_Subset
<1>8. D \subseteq DOMAIN v /\ R \subseteq DOMAIN v /\ \A b \in D : v[b] \in Nat
  BY <1>3
<1> HIDE DEF D, R, W
<1>9. Amount(v, D) = Amount(v, R)
  BY <1>3, <1>7, <1>8, AmountRest
<1>10. Amount(v, R) = Amount(W, LyingIn(P, R))
  BY <1>7, <1>8, BucketsAddUp, PositionsValued DEF W
<1>11. LyingIn(P, R) \subseteq Counted(cfg, P)
  BY <1>7, ParticipantsCount
<1>12. /\ whole = Amount(W, Counted(cfg, P)) /\ IsFiniteSet(Counted(cfg, P))
       /\ Counted(cfg, P) \subseteq DOMAIN W /\ \A a \in Counted(cfg, P) : W[a] \in Nat
  <2>1. Counted(cfg, P) \subseteq DOMAIN P
    BY DEF Counted
  <2> QED
    BY <2>1, WholeFacts DEF W, whole
<1>13. Amount(W, LyingIn(P, R)) <= whole
  BY <1>11, <1>12, AmountPart
<1> QED
  BY <1>2, <1>6, <1>9, <1>10, <1>13 DEF C, D, whole

-----------------------------------------------------------------------------
(* Rounding. *)

\* The rounded running totals of a split grow to the rounded total.
LEMMA RoundedRunningFacts ==
    ASSUME NEW C, NEW whole, Ranked(C, whole), NEW to, DOMAIN to = DOMAIN C,
           \A b \in DOMAIN C : to[b] \in Nat
    PROVE  LET shown == RoundedRunning(C, to)
           IN  /\ DOMAIN shown = DOMAIN C
               /\ \A b \in DOMAIN C : shown[b] \in Nat
               /\ Amount(shown, DOMAIN C) = Rounded(Amount(to, DOMAIN C))
<1> DEFINE D == DOMAIN C
           UpTo(b) == {e \in D : e = b \/ Ahead(C[e], C[b])}
           Before(b) == UpTo(b) \ {b}
           Grown(s) == Rounded(Amount(to, s))
           step == [b \in D |-> Grown(UpTo(b)) - Grown(Before(b))]
           shown == RoundedRunning(C, to)
<1>1. IsFiniteSet(D) /\ \A b \in D : to[b] \in Nat
  BY DEF Ranked
<1>2. ASSUME NEW S \in SUBSET D
      PROVE  /\ IsFiniteSet(S) /\ Amount(to, S) \in Nat /\ Grown(S) \in Nat
             /\ MapThenSumSet(LAMBDA e : to[e], S) = Amount(to, S)
  <2>1. IsFiniteSet(S) /\ S \subseteq DOMAIN to /\ \A x \in S : to[x] \in Nat
    BY <1>1, FS_Subset
  <2>2. Amount(to, S) \in Nat
    BY <2>1, AmountNat
  <2>3. Grown(S) \in Nat
    BY <2>2 DEF Rounded
  <2> DEFINE v == [b \in S |-> to[b]]
             Eq(g) == g = [s \in SUBSET S |->
                             IF s = {} THEN 0
                             ELSE to[CHOOSE x \in s : TRUE] + g[s \ {CHOOSE x \in s : TRUE}]]
             iter == CHOOSE g : Eq(g)
  <2>4. MapThenSumSet(LAMBDA e : to[e], S) = iter[S]
    BY DEF MapThenSumSet, MapThenFoldSet
  <2>5. v \in [S -> Int] /\ S \subseteq DOMAIN v /\ \A x \in S : v[x] = to[x]
    BY <1>1
  <2>6. ASSUME NEW g PROVE Eq(g) <=> AddsUp(g, v, S)
    <3>1. \A s \in SUBSET S : s # {} => v[CHOOSE x \in s : TRUE] = to[CHOOSE x \in s : TRUE]
      OBVIOUS
    <3> HIDE DEF v
    <3> QED
      BY <3>1 DEF AddsUp
  <2> HIDE DEF v
  <2>7. Eq(iter)
    <3>1. AddsUp([s \in SUBSET S |-> Amount(v, s)], v, S)
      BY <2>1, <2>5, SumExists
    <3> HIDE DEF Eq
    <3>2. \E g : Eq(g)
      BY <2>6, <3>1
    <3> QED
      BY <3>2
  <2> HIDE DEF iter, Eq
  <2>8. iter[S] = Amount(v, S)
    BY <2>1, <2>5, <2>6, <2>7, SumUnique
  <2>9. Amount(v, S) = Amount(to, S)
    BY <2>1, <2>5, AmountSame
  <2> QED
    BY <2>1, <2>2, <2>3, <2>4, <2>8, <2>9
<1>3. ASSUME NEW b \in D
      PROVE  /\ b \in UpTo(b) /\ UpTo(b) \in SUBSET D /\ Before(b) \in SUBSET D
             /\ Amount(to, UpTo(b)) = Amount(to, Before(b)) + to[b]
  <2> DEFINE r == Before(b)
  <2>1. b \in UpTo(b) /\ UpTo(b) \in SUBSET D /\ r \in SUBSET D /\ b \notin r /\ r \cup {b} = UpTo(b)
    OBVIOUS
  <2>2. r \cup {b} \subseteq DOMAIN to /\ \A x \in r \cup {b} : to[x] \in Int
    BY <1>1, <2>1
  <2>3. IsFiniteSet(r)
    BY <1>2, <2>1
  <2> HIDE DEF r
  <2>4. Amount(to, r \cup {b}) = Amount(to, r) + to[b]
    BY <2>1, <2>2, <2>3, AmountAdd
  <2> QED
    BY <2>1, <2>4 DEF r
<1>4. /\ DOMAIN shown = D
      /\ \A b \in D : shown[b] = step[b] /\ shown[b] \in Nat
  <2>1. DOMAIN shown = D
    BY DEF RoundedRunning
  <2>2. ASSUME NEW b \in D PROVE shown[b] = step[b] /\ shown[b] \in Nat
    <3> DEFINE up == UpTo(b)
               be == Before(b)
    <3>1. shown[b] = IF to[b] = 0 THEN 0
                     ELSE Rounded(MapThenSumSet(LAMBDA e : to[e], up))
                            - Rounded(MapThenSumSet(LAMBDA e : to[e], be))
      BY DEF RoundedRunning
    <3>2. step[b] = Grown(up) - Grown(be)
      OBVIOUS
    <3>3. /\ up \in SUBSET D /\ be \in SUBSET D
          /\ Amount(to, up) = Amount(to, be) + to[b] /\ to[b] \in Nat
      BY <1>1, <1>3
    <3> HIDE DEF up, be, step, shown
    <3>4. /\ Amount(to, be) \in Nat /\ Amount(to, up) \in Nat
          /\ MapThenSumSet(LAMBDA e : to[e], up) = Amount(to, up)
          /\ MapThenSumSet(LAMBDA e : to[e], be) = Amount(to, be)
      BY <1>2, <3>3
    <3>5. shown[b] = IF to[b] = 0 THEN 0 ELSE Grown(up) - Grown(be)
      BY <3>1, <3>4
    <3>6. Grown(up) - Grown(be) \in Nat /\ (to[b] = 0 => Grown(up) - Grown(be) = 0)
      BY <3>3, <3>4 DEF Rounded
    <3> QED
      BY <3>2, <3>5, <3>6
  <2> QED
    BY <2>1, <2>2
<1>5. step \in [D -> Int]
  <2>1. ASSUME NEW b \in D PROVE Grown(UpTo(b)) - Grown(Before(b)) \in Int
    <3> DEFINE up == UpTo(b)
               be == Before(b)
    <3>1. up \in SUBSET D /\ be \in SUBSET D
      BY <1>3
    <3> HIDE DEF up, be
    <3>2. Grown(up) \in Nat /\ Grown(be) \in Nat
      BY <1>2, <3>1
    <3> HIDE DEF Grown
    <3>3. Grown(up) - Grown(be) \in Int
      BY <3>2
    <3> QED
      BY <3>3 DEF up, be
  <2> QED
    BY <2>1
<1> DEFINE Initial(s) == \A b \in s : UpTo(b) \subseteq s
           bad == {s \in SUBSET D : Initial(s) /\ Amount(step, s) # Grown(s)}
<1>6. Grown({}) = 0
  <2>1. Amount(to, {}) = 0
    BY AmountEmpty
  <2> QED
    BY <2>1 DEF Rounded
<1>7. ASSUME bad # {} PROVE FALSE
  <2>1. PICK s \in bad : \A u \in bad : u \subseteq s => u = s
    <3>1. bad \subseteq SUBSET D
      OBVIOUS
    <3> HIDE DEF bad
    <3> QED
      BY <1>1, <1>7, <3>1, LeastSubset
  <2>2. s \in SUBSET D /\ Initial(s) /\ Amount(step, s) # Grown(s)
    BY <2>1
  <2>3. s # {}
    BY <1>6, <2>2, AmountEmpty
  <2> DEFINE x == LastOf(C, s)
             r == s \ {x}
  <2>4. x \in s /\ (\A e \in r : Ahead(C[e], C[x])) /\ \A e \in s : ~Ahead(C[x], C[e])
    BY <2>2, <2>3, LastFacts
  <2> HIDE DEF x
  <2>5. IsFiniteSet(r) /\ x \notin r /\ r \cup {x} = s /\ r \in SUBSET D /\ r # s
    BY <1>2, <2>2, <2>4
  <2>6. Initial(r)
    <3> SUFFICES ASSUME NEW b \in r, NEW e \in UpTo(b) PROVE e \in r
      OBVIOUS
    <3>1. e \in s
      BY <2>2
    <3>2. e # x
      BY <2>4
    <3> QED
      BY <3>1, <3>2
  <2>7. r \notin bad
    BY <2>1, <2>5
  <2>8. Amount(step, r) = Grown(r)
    BY <2>5, <2>6, <2>7
  <2>9. UpTo(x) = s /\ Before(x) = r
    <3>1. UpTo(x) \subseteq s
      BY <2>2, <2>4
    <3>2. s \subseteq UpTo(x)
      BY <2>2, <2>4
    <3> QED
      BY <3>1, <3>2
  <2>10. step[x] = Grown(s) - Grown(r)
    <3>1. x \in D
      BY <2>2, <2>4
    <3> HIDE DEF UpTo, Before, Grown
    <3> QED
      BY <2>9, <3>1
  <2>11. Grown(s) \in Nat /\ Grown(r) \in Nat
    BY <1>2, <2>2, <2>5
  <2>12. Amount(step, s) = Amount(step, r) + step[x]
    <3>1. s \subseteq DOMAIN step /\ \A y \in s : step[y] \in Int
      BY <1>5, <2>2
    <3> HIDE DEF step, r
    <3>2. Amount(step, r \cup {x}) = Amount(step, r) + step[x]
      BY <2>5, <3>1, AmountAdd
    <3> QED
      BY <2>5, <3>2
  <2> HIDE DEF Grown, step, r
  <2> QED
    BY <2>2, <2>8, <2>10, <2>11, <2>12
<1>8. Amount(step, D) = Grown(D)
  <2>1. D \notin bad
    BY <1>7
  <2>2. Initial(D) /\ D \in SUBSET D
    OBVIOUS
  <2> QED
    BY <2>1, <2>2
<1>9. Amount(shown, D) = Amount(step, D)
  <2>1. D \subseteq DOMAIN shown /\ D \subseteq DOMAIN step
    BY <1>4, <1>5
  <2> HIDE DEF shown, step, D
  <2> QED
    BY <1>4, <2>1, AmountSame
<1> QED
  BY <1>4, <1>8, <1>9

\* Everything that is handed out is handed to some bucket.
LEMMA HandedAddsUp ==
    ASSUME NEW C, NEW whole, Ranked(C, whole), NEW cash \in Nat
    PROVE  LET H == Handed(C, whole, cash)
           IN  /\ H.left = Larger(0, cash - Amount(Room(C, whole), DOMAIN C)) /\ H.left \in 0 .. cash
               /\ DOMAIN H.to = DOMAIN C /\ \A b \in DOMAIN C : H.to[b] \in Nat
               /\ Amount(H.to, DOMAIN C) = cash - H.left
<1> DEFINE S == Open(C, whole)
           D == DOMAIN C
           H == Shared(C, whole, cash, S)
           to == H.to
           v == Room(C, whole)
<1>1. Handed(C, whole, cash) = H
  BY HandedFacts
<1>2. IsFiniteSet(D) /\ S \subseteq D
  BY DEF Ranked, Open
<1>3. /\ H.left \in 0 .. cash
      /\ \A b \in D : to[b] \in Nat
      /\ Amount(to, S) = cash - H.left
  <2> HIDE DEF S
  <2> QED
    BY <1>2, SharedAdds
<1>4. DOMAIN to = D /\ \A b \in D \ S : to[b] = 0
  BY DEF Shared
<1>5. H.left = Larger(0, cash - Amount(v, S))
  BY DEF Shared
<1>6. /\ D \subseteq DOMAIN v /\ \A b \in D : v[b] \in Nat
      /\ \A b \in D \ S : v[b] = 0
  BY DEF Room, Ranked, Open
<1> HIDE DEF H, v, S
<1>7. Amount(v, D) = Amount(v, S)
  BY <1>2, <1>6, AmountRest
<1>8. Amount(to, D) = Amount(to, S)
  <2>1. D \subseteq DOMAIN to
    BY <1>4
  <2> HIDE DEF to
  <2> QED
    BY <1>2, <1>3, <1>4, <2>1, AmountRest
<1> QED
  BY <1>1, <1>3, <1>4, <1>5, <1>7, <1>8 DEF v

ShownSum(C, shown) == MapThenSumSet(LAMBDA b : shown.amounts[b], DOMAIN C)

\* The amounts a split of new cash shows add up to the total it shows.
LEMMA InflowFacts ==
    ASSUME NEW C, NEW whole, Ranked(C, whole), NEW cash \in Nat
    PROVE  LET shown == InflowAnswer(C, whole, cash)
           IN  /\ ShownSum(C, shown) = shown.allocated
               /\ shown.unallocated >= 0
               /\ \A b \in DOMAIN C : shown.amounts[b] >= 0
<1> DEFINE D == DOMAIN C
           H == Handed(C, whole, 100 * cash)
           to == H.to
           allocated == Rounded(100 * cash - H.left)
           v == RoundedRunning(C, to)
           shown == InflowAnswer(C, whole, cash)
           Eq(g) == g = [s \in SUBSET D |->
                           IF s = {} THEN 0
                           ELSE v[CHOOSE x \in s : TRUE] + g[s \ {CHOOSE x \in s : TRUE}]]
           iter == CHOOSE g : Eq(g)
<1>1. /\ H.left \in 0 .. 100 * cash /\ DOMAIN to = D /\ (\A b \in D : to[b] \in Nat)
      /\ Amount(to, D) = 100 * cash - H.left
  <2>1. 100 * cash \in Nat
    OBVIOUS
  <2> QED
    BY <2>1, HandedAddsUp
<1>2. shown.allocated = allocated /\ shown.unallocated = cash - allocated /\ shown.amounts = v
  BY DEF InflowAnswer
<1>3. ShownSum(C, shown) = iter[D]
  BY <1>2 DEF ShownSum, MapThenSumSet, MapThenFoldSet
<1> HIDE DEF shown, H
<1>4. allocated \in Nat /\ allocated <= cash
  BY <1>1 DEF Rounded
<1> HIDE DEF to, allocated
<1>5. DOMAIN v = D /\ (\A b \in D : v[b] \in Nat) /\ Amount(v, D) = Rounded(Amount(to, D))
  BY <1>1, RoundedRunningFacts
<1>6. v \in [D -> Int]
  <2>1. v = [b \in D |-> v[b]]
    BY Zenon DEF RoundedRunning
  <2> HIDE DEF v
  <2> QED
    BY <1>5, <2>1
<1> HIDE DEF v
<1>7. IsFiniteSet(D)
  BY DEF Ranked
<1> HIDE DEF D
<1>8. \A g : Eq(g) <=> AddsUp(g, v, D)
  BY DEF AddsUp
<1>9. Eq(iter)
  <2>1. AddsUp([s \in SUBSET D |-> Amount(v, s)], v, D)
    BY <1>6, <1>7, SumExists
  <2> HIDE DEF Eq
  <2>2. \E g : Eq(g)
    BY <1>8, <2>1
  <2> QED
    BY <2>2
<1> HIDE DEF iter, Eq
<1>10. iter[D] = Amount(v, D)
  BY <1>6, <1>7, <1>8, <1>9, SumUnique
<1>11. Amount(v, D) = allocated
  BY <1>1, <1>5 DEF allocated
<1> QED
  BY <1>2, <1>3, <1>4, <1>5, <1>10, <1>11 DEF D, shown

-----------------------------------------------------------------------------
(* A valid strategy leaves no cash unused. *)

\* The targets of some rules are a sum over them.
LEMMA TargetsAddUp ==
    ASSUME NEW rules, RulesOK(rules), IsFiniteSet(DOMAIN rules), NEW t,
           TargetRows(rules) \subseteq DOMAIN t, \A b \in TargetRows(rules) : t[b] = rules[b].target
    PROVE  TargetTotal(rules) = Amount(t, TargetRows(rules))
<1> DEFINE D == TargetRows(rules)
           v == [b \in D |-> rules[b].target]
           Eq(g) == g = [s \in SUBSET D |->
                           IF s = {} THEN 0
                           ELSE rules[CHOOSE x \in s : TRUE].target + g[s \ {CHOOSE x \in s : TRUE}]]
           iter == CHOOSE g : Eq(g)
<1>1. TargetTotal(rules) = iter[D]
  BY DEF TargetTotal, MapThenSumSet, MapThenFoldSet
<1>2. IsFiniteSet(D) /\ D \subseteq DOMAIN rules
  BY FS_Subset DEF TargetRows
<1>3. \A b \in DOMAIN rules : rules[b].target \in Int
  <2>1. ASSUME NEW r \in Rules PROVE r.target \in Int
    BY DEF Rules, Absent
  <2> QED
    BY <2>1 DEF RulesOK
<1> HIDE DEF D
<1>4. v \in [D -> Int]
  BY <1>2, <1>3
<1>5. D \subseteq DOMAIN v /\ D \subseteq DOMAIN t /\ \A b \in D : v[b] = t[b]
  BY DEF D
<1>6. ASSUME NEW g PROVE Eq(g) <=> AddsUp(g, v, D)
  <2>1. \A s \in SUBSET D : s # {} => v[CHOOSE x \in s : TRUE] = rules[CHOOSE x \in s : TRUE].target
    OBVIOUS
  <2> HIDE DEF v
  <2> QED
    BY <2>1 DEF AddsUp
<1> HIDE DEF v
<1>7. Eq(iter)
  <2>1. AddsUp([s \in SUBSET D |-> Amount(v, s)], v, D)
    BY <1>2, <1>4, SumExists
  <2> HIDE DEF Eq
  <2>2. \E g : Eq(g)
    BY <1>6, <2>1
  <2> QED
    BY <2>2
<1> HIDE DEF iter, Eq
<1>8. iter[D] = Amount(v, D)
  BY <1>2, <1>4, <1>6, <1>7, SumUnique
<1>9. Amount(v, D) = Amount(t, D)
  BY <1>5, AmountSame
<1> QED
  BY <1>1, <1>8, <1>9 DEF D

\* A bucket that may be bought and whose maximum is not below its target can
\* take at least what it lacks.
LEMMA LackIsRoom ==
    ASSUME NEW c, NEW whole \in Nat, whole > 0, CandidateOK(c, whole),
           ~c.excluded, c.target # Absent, c.allow, c.maximum # Absent => c.target <= c.maximum
    PROVE  Gap(c, whole) <= IF c.maximum_breached THEN 0 ELSE Capacity(c, whole)
<1> DEFINE t == c.target * whole
           m == c.maximum * whole
           v == 100 * c.value
<1>1. t \in Int /\ m \in Int /\ v \in Int /\ c.target \in Int /\ c.maximum \in Int
  BY DEF CandidateOK, Percentages, Absent
<1>2. c.maximum # Absent => t <= m
  <2>1. ASSUME NEW x \in Int, NEW y \in Int, x <= y PROVE x * whole <= y * whole
    BY <2>1
  <2> QED
    BY <1>1, <2>1
<1>3. Gap(c, whole) = t - v
  BY DEF Gap
<1>4. Headroom(c, whole) = IF c.maximum = Absent THEN t - v ELSE m - v
  BY DEF Headroom, Gap
<1>5. c.maximum_breached => c.maximum # Absent /\ v - m >= 0
  BY DEF CandidateOK, BreachesMaximum, Excess
<1> HIDE DEF t, m, v
<1>6. Headroom(c, whole) >= Gap(c, whole) /\ Gap(c, whole) \in Int /\ Headroom(c, whole) \in Int
  BY <1>1, <1>2, <1>3, <1>4
<1>7. CASE c.maximum_breached
  BY <1>1, <1>2, <1>3, <1>5, <1>7
<1>8. CASE ~c.maximum_breached
  <2>1. Gap(c, whole) > 0 => Capacity(c, whole) = Gap(c, whole)
    <3> SUFFICES ASSUME Gap(c, whole) > 0 PROVE Capacity(c, whole) = Gap(c, whole)
      OBVIOUS
    <3>1. CapacityStatus(c, whole) = "TARGET_GAP"
      BY <1>6 DEF CapacityStatus
    <3>2. Capacity(c, whole) = Larger(0, Smaller(Gap(c, whole), Headroom(c, whole)))
      BY <3>1 DEF Capacity
    <3> QED
      BY <1>6, <3>2 DEF Larger, Smaller
  <2>2. Capacity(c, whole) \in Nat
    BY CapacityFacts
  <2> QED
    BY <1>6, <1>8, <2>1, <2>2
<1> QED
  BY <1>7, <1>8

Bought(C, R) ==
    MapThenSumSet(LAMBDA b : IF R[b].action = "BUY" THEN R[b].amount ELSE 0, DOMAIN C)

\* The purchases of an answer add up to the cash less what is left of it.
LEMMA BoughtAddsUp ==
    ASSUME NEW C, NEW whole, CandidatesOK(C, whole), NEW cash \in Nat
    PROVE  LET R == Rebalancing(C, whole, cash)
               B == Competing(C)
           IN  Bought(C, R) = 100 * cash - Larger(0, 100 * cash - Amount(Room(B, whole), DOMAIN B))
<1> DEFINE R == Rebalancing(C, whole, cash)
           B == Competing(C)
           H == Handed(B, whole, 100 * cash)
           to == H.to
           D == DOMAIN C
           S == DOMAIN B
           v == [b \in D |-> IF R[b].action = "BUY" THEN R[b].amount ELSE 0]
           Eq(g) == g = [s \in SUBSET D |->
                           IF s = {} THEN 0
                           ELSE (IF R[CHOOSE x \in s : TRUE].action = "BUY"
                                 THEN R[CHOOSE x \in s : TRUE].amount ELSE 0)
                                  + g[s \ {CHOOSE x \in s : TRUE}]]
           iter == CHOOSE g : Eq(g)
<1>1. /\ Ranked(B, whole) /\ S = Buyable(C) /\ S \subseteq D /\ IsFiniteSet(D)
  BY CompetingRanked DEF CandidatesOK
<1>2. /\ H.left = Larger(0, 100 * cash - Amount(Room(B, whole), S))
      /\ DOMAIN to = S /\ (\A b \in S : to[b] \in Nat)
      /\ Amount(to, S) = 100 * cash - H.left
  <2>1. 100 * cash \in Nat
    OBVIOUS
  <2> HIDE DEF B
  <2> QED
    BY <1>1, <2>1, HandedAddsUp
<1>3. Bought(C, R) = iter[D]
  BY DEF Bought, MapThenSumSet, MapThenFoldSet
<1>4. ASSUME NEW b \in S PROVE v[b] = to[b]
  <2> DEFINE action == BuySideAction(C[b], whole, to[b])
  <2>1. R[b] = [action |-> action, amount |-> to[b], status |-> C[b].target_status]
    <3>1. Handed(B, whole, 100 * cash) = Shared(B, whole, 100 * cash, Open(B, whole))
      <4>1. 100 * cash \in Nat
        OBVIOUS
      <4> HIDE DEF B
      <4> QED
        BY <1>1, <4>1, HandedFacts
    <3> QED
      BY <1>1, <3>1, RebalancingFacts
  <2>2. to[b] > 0 <=> action = "BUY"
    <3> HIDE DEF to
    <3> QED
      BY DEF BuySideAction
  <2> HIDE DEF action, to, R
  <2>3. R[b].action = action /\ R[b].amount = to[b]
    BY <2>1
  <2>4. to[b] \in Nat
    BY <1>2
  <2> HIDE DEF B
  <2>5. v[b] = IF R[b].action = "BUY" THEN R[b].amount ELSE 0
    BY <1>1
  <2> QED
    BY <2>2, <2>3, <2>4, <2>5
<1>5. ASSUME NEW b \in D \ S PROVE v[b] = 0
  <2>1. b \in DOMAIN C \ Buyable(C)
    BY <1>1
  <2>2. R[b] = [action |-> "REDUCE", amount |-> RequiredReduction(C[b], whole),
                status |-> "MAXIMUM_BREACHED"]
    BY <2>1, RebalancingFacts
  <2> HIDE DEF R
  <2>3. R[b].action = "REDUCE"
    BY <2>2
  <2> QED
    BY <2>3
<1>6. ASSUME NEW g PROVE Eq(g) <=> AddsUp(g, v, D)
  <2>1. \A s \in SUBSET D : s # {} =>
           v[CHOOSE x \in s : TRUE] = IF R[CHOOSE x \in s : TRUE].action = "BUY"
                                      THEN R[CHOOSE x \in s : TRUE].amount ELSE 0
    OBVIOUS
  <2> HIDE DEF v, R, D
  <2> QED
    BY <2>1 DEF AddsUp
<1>7. v = [b \in D |-> v[b]] /\ DOMAIN v = D
  OBVIOUS
<1> HIDE DEF v, to, R, H
<1>8. \A b \in D : v[b] \in Nat
  BY <1>2, <1>4, <1>5
<1>9. v \in [D -> Int] /\ D \subseteq DOMAIN v /\ S \subseteq DOMAIN v /\ S \subseteq DOMAIN to
  BY <1>1, <1>2, <1>7, <1>8
<1> HIDE DEF D, S, B
<1>10. Eq(iter)
  <2>1. AddsUp([s \in SUBSET D |-> Amount(v, s)], v, D)
    BY <1>1, <1>9, SumExists
  <2> HIDE DEF Eq
  <2>2. \E g : Eq(g)
    BY <1>6, <2>1
  <2> QED
    BY <2>2
<1> HIDE DEF iter, Eq
<1>11. iter[D] = Amount(v, D)
  BY <1>1, <1>6, <1>9, <1>10, SumUnique
<1>12. Amount(v, D) = Amount(v, S)
  BY <1>1, <1>5, <1>8, <1>9, AmountRest
<1>13. Amount(v, S) = Amount(to, S)
  BY <1>4, <1>9, AmountSame
<1> QED
  BY <1>2, <1>3, <1>11, <1>12, <1>13 DEF R, S, B, D

\* Targets that add up to the whole leave at least as much room as there is
\* cash, if the cash itself lies in none of the buckets that have a target.
LEMMA ValidUsesAll ==
    ASSUME NEW cfg, cfg.excluded \in BOOLEAN, NEW P, PositionsOK(cfg, P),
           NEW names, NamesOK(names), NEW rules, RulesOK(rules), DOMAIN rules \subseteq DOMAIN names,
           StrategySeen(cfg, P, rules) = "VALID",
           NEW C, C = Candidates(cfg, P, names, rules),
           NEW O, O \subseteq DOMAIN C,
           \A b \in DOMAIN C : b \in O <=> (~C[b].excluded /\ C[b].target # Absent),
           \A b \in O : C[b].allow /\ (C[b].maximum # Absent => C[b].target <= C[b].maximum),
           \A a \in DOMAIN P : P[a].cash => P[a].bucket \notin O
    PROVE  LET whole == Denominator(P, cfg.excluded)
           IN  Bought(C, Rebalancing(C, whole, Cash(P))) = 100 * Cash(P)
<1> DEFINE whole == Denominator(P, cfg.excluded)
           cash == Cash(P)
           W == Worths(P)
           sub == [b \in {e \in DOMAIN rules : ~Excluded(cfg, P, e)} |-> rules[b]]
           t == [b \in O |-> C[b].target]
           val == [b \in O |-> C[b].value]
           q == -100
           part == [b \in O |-> whole * t[b]]
           held == [b \in O |-> q * val[b]]
           gap == [b \in O |-> part[b] + held[b]]
           cap == [b \in O |-> IF C[b].maximum_breached THEN 0 ELSE Capacity(C[b], whole)]
           B == Competing(C)
           room == Room(B, whole)
           in == LyingIn(P, O)
           K == {a \in DOMAIN P : P[a].cash /\ ~P[a].emergency}
<1>1. /\ CandidatesOK(C, whole)
      /\ DOMAIN C = DOMAIN names
      /\ \A b \in DOMAIN C : /\ C[b].value = BucketValue(P, b)
                             /\ C[b].excluded = Excluded(cfg, P, b)
                             /\ C[b].target = RuleFor(rules, b).target
  BY CandidatesFacts
<1>2. IsFiniteSet(O) /\ O \subseteq DOMAIN C /\ IsFiniteSet(DOMAIN C)
  BY <1>1, FS_Subset DEF CandidatesOK
<1>3. whole \in Nat
  BY <1>1 DEF CandidatesOK
<1>4. /\ Valued(P) /\ K \subseteq DOMAIN P
      /\ cash = Amount(W, K) /\ cash \in Nat
  <2>1. Valued(P) /\ K \subseteq DOMAIN P /\ cash = ValueIn(P, K)
    BY PositionsValued DEF Cash
  <2> HIDE DEF K, cash
  <2> QED
    BY <2>1, ValueInFacts
<1>5. Amount(t, O) = 100 /\ t \in [O -> Int]
  <2>1. TargetTotal(sub) = 100
    <3> HIDE DEF sub
    <3>1. StrategyStatus(sub) = "VALID"
      BY DEF StrategySeen, sub
    <3> QED
      BY <3>1 DEF StrategyStatus
  <2>2. TargetRows(sub) = O
    <3>1. ASSUME NEW b \in O PROVE b \in TargetRows(sub)
      <4>1. b \in DOMAIN rules
        BY <1>1, <1>2 DEF RuleFor, NoRule
      <4> QED
        BY <1>1, <4>1 DEF RuleFor, TargetRows
    <3>2. ASSUME NEW b \in TargetRows(sub) PROVE b \in O
      <4>1. b \in DOMAIN rules /\ ~Excluded(cfg, P, b) /\ rules[b].target # Absent
        BY DEF TargetRows
      <4> QED
        BY <1>1, <4>1 DEF RuleFor
    <3> QED
      BY <3>1, <3>2
  <2>3. RulesOK(sub) /\ IsFiniteSet(DOMAIN sub)
    <3>1. DOMAIN sub \subseteq DOMAIN C /\ \A b \in DOMAIN sub : sub[b] \in Rules
      BY <1>1 DEF RulesOK
    <3> HIDE DEF sub
    <3> QED
      BY <1>2, <3>1, FS_Subset DEF RulesOK
  <2>4. \A b \in O : sub[b].target = C[b].target
    <3>1. ASSUME NEW b \in O PROVE sub[b].target = C[b].target
      <4>1. b \in DOMAIN rules /\ ~Excluded(cfg, P, b)
        BY <2>2 DEF TargetRows
      <4> QED
        BY <1>1, <1>2, <4>1 DEF RuleFor
    <3> QED
      BY <3>1
  <2> HIDE DEF sub
  <2>5. O \subseteq DOMAIN t /\ \A b \in O : t[b] = sub[b].target
    BY <2>4
  <2>6. t \in [O -> Int]
    <3>1. \A b \in O : C[b].target \in Int
      BY <1>1, <1>2 DEF CandidatesOK, CandidateOK, Percentages, Absent
    <3> QED
      BY <3>1
  <2> HIDE DEF t
  <2>7. TargetTotal(sub) = Amount(t, TargetRows(sub))
    BY <2>2, <2>3, <2>5, TargetsAddUp
  <2> QED
    BY <2>1, <2>2, <2>6, <2>7
<1>6. Amount(val, O) = Amount(W, in) /\ val \in [O -> Int]
  <2>1. \A b \in O : val[b] = BucketValue(P, b)
    BY <1>1, <1>2
  <2>2. O \subseteq DOMAIN val
    OBVIOUS
  <2>3. val = [b \in O |-> val[b]]
    OBVIOUS
  <2> HIDE DEF val, in
  <2>4. (\A b \in O : val[b] \in Nat) /\ Amount(val, O) = Amount(W, LyingIn(P, O))
    BY <1>2, <1>4, <2>1, <2>2, BucketsAddUp
  <2>5. \A b \in O : val[b] \in Int
    BY <2>4
  <2>6. val \in [O -> Int]
    BY <2>3, <2>5
  <2> QED
    BY <2>4, <2>6 DEF in
<1>7. Amount(W, K) + Amount(W, in) <= whole /\ Amount(W, in) \in Nat
  <2>1. in \subseteq Counted(cfg, P)
    <3>1. \A b \in O : ~Excluded(cfg, P, b)
      BY <1>1, <1>2
    <3> QED
      BY <3>1, ParticipantsCount
  <2>2. K \subseteq Counted(cfg, P)
    BY DEF Counted
  <2>3. K \cap in = {}
    BY DEF LyingIn
  <2>4. /\ whole = Amount(W, Counted(cfg, P)) /\ IsFiniteSet(Counted(cfg, P))
        /\ Counted(cfg, P) \subseteq DOMAIN W /\ \A a \in Counted(cfg, P) : W[a] \in Nat
    <3>1. Counted(cfg, P) \subseteq DOMAIN P
      BY DEF Counted
    <3> QED
      BY <3>1, WholeFacts
  <2> HIDE DEF K, in, W, whole
  <2>5. IsFiniteSet(K) /\ IsFiniteSet(in) /\ K \cup in \subseteq Counted(cfg, P)
    BY <2>1, <2>2, <2>4, FS_Subset
  <2> DEFINE both == K \cup in
  <2>6. both \subseteq DOMAIN W /\ (\A a \in both : W[a] \in Nat) /\ both \subseteq Counted(cfg, P)
    BY <2>4, <2>5
  <2>7. Amount(W, both) = Amount(W, K) + Amount(W, in)
    BY <2>3, <2>5, <2>6, AmountParts
  <2> HIDE DEF both
  <2>8. Amount(W, both) <= whole
    BY <2>4, <2>6, AmountPart
  <2>9. Amount(W, in) \in Nat
    BY <2>1, <2>4, <2>5, AmountNat
  <2> QED
    BY <2>7, <2>8, <2>9
<1>8. /\ part \in [O -> Int] /\ held \in [O -> Int]
      /\ Amount(part, O) = whole * Amount(t, O)
      /\ Amount(held, O) = q * Amount(val, O)
  <2>1. q \in Int /\ whole \in Int /\ t \in [O -> Int] /\ val \in [O -> Int]
    BY <1>3, <1>5, <1>6
  <2> HIDE DEF t, val, whole, q
  <2>2. O \subseteq DOMAIN part /\ \A b \in O : part[b] = whole * t[b]
    OBVIOUS
  <2>3. O \subseteq DOMAIN held /\ \A b \in O : held[b] = q * val[b]
    OBVIOUS
  <2>4. part \in [O -> Int] /\ held \in [O -> Int]
    <3>1. ASSUME NEW b \in O PROVE whole * t[b] \in Int /\ q * val[b] \in Int
      <4>1. t[b] \in Int /\ val[b] \in Int
        BY <2>1
      <4> QED
        BY <2>1, <4>1
    <3> QED
      BY <3>1
  <2> HIDE DEF part, held
  <2>5. Amount(part, O) = whole * Amount(t, O)
    BY <1>2, <2>1, <2>2, AmountTimes
  <2>6. Amount(held, O) = q * Amount(val, O)
    <3>1. IsFiniteSet(O) /\ q \in Int /\ val \in [O -> Int]
      BY <1>2, <2>1
    <3> QED
      BY <2>3, <3>1, AmountTimes
  <2> QED
    BY <2>4, <2>5, <2>6
<1>9. gap \in [O -> Int] /\ Amount(gap, O) = Amount(part, O) + Amount(held, O)
  <2> HIDE DEF part, held
  <2>1. O \subseteq DOMAIN gap /\ \A b \in O : gap[b] = part[b] + held[b]
    OBVIOUS
  <2>2. gap \in [O -> Int]
    BY <1>8
  <2>3. IsFiniteSet(O) /\ part \in [O -> Int] /\ held \in [O -> Int]
    BY <1>2, <1>8
  <2> HIDE DEF gap
  <2>4. Amount(gap, O) = Amount(part, O) + Amount(held, O)
    BY <2>1, <2>3, AmountPlus
  <2> QED
    BY <2>2, <2>4
<1>10. Amount(gap, O) >= 100 * cash /\ Amount(gap, O) \in Int
  <2> DEFINE total == Amount(gap, O)
             lying == Amount(W, in)
  <2>1. total = whole * 100 + q * lying /\ lying \in Int
    <3>1. total = Amount(part, O) + Amount(held, O)
      BY <1>9
    <3>2. Amount(part, O) = whole * 100 /\ Amount(held, O) = q * lying
      BY <1>5, <1>6, <1>8
    <3> HIDE DEF total, part, held, q, whole, lying
    <3>3. lying \in Int
      BY <1>7 DEF lying
    <3> QED
      BY <3>1, <3>2, <3>3
  <2> HIDE DEF total, lying, whole
  <2>2. total = 100 * whole - 100 * lying
    BY <1>3, <2>1 DEF q
  <2>3. Amount(W, K) + lying <= whole
    BY <1>7 DEF lying
  <2> HIDE DEF cash, K, W
  <2>4. total >= 100 * cash /\ total \in Int
    BY <1>3, <1>4, <2>1, <2>2, <2>3
  <2> QED
    BY <2>4 DEF total
<1>11. /\ Ranked(B, whole) /\ DOMAIN B = Buyable(C) /\ Buyable(C) \subseteq DOMAIN C
      /\ \A b \in Buyable(C) : B[b] = C[b]
  BY <1>1, CompetingRanked
<1>12. Amount(room, DOMAIN B) = Amount(cap, O) /\ cap \in [O -> Int]
  <2> DEFINE S == DOMAIN B
             T == {b \in O : ~C[b].maximum_breached}
  <2>1. T \subseteq O /\ T \subseteq S /\ T = O \cap S /\ IsFiniteSet(S)
    BY <1>2, <1>11, FS_Subset DEF Buyable
  <2>2. \A b \in DOMAIN C : Capacity(C[b], whole) \in Nat /\ (b \notin O => Capacity(C[b], whole) = 0)
    <3>1. ASSUME NEW b \in DOMAIN C
          PROVE Capacity(C[b], whole) \in Nat /\ (b \notin O => Capacity(C[b], whole) = 0)
      <4>1. CandidateOK(C[b], whole)
        BY <1>1 DEF CandidatesOK
      <4> HIDE DEF whole
      <4> QED
        BY <1>3, <4>1, CapacityFacts
    <3> QED
      BY <3>1
  <2>3. /\ S \subseteq DOMAIN room /\ \A b \in S : room[b] \in Nat /\ room[b] = Capacity(C[b], whole)
        /\ \A b \in S \ T : room[b] = 0
    BY <1>11, <2>1, <2>2 DEF Room
  <2>4. /\ O \subseteq DOMAIN cap /\ (\A b \in O : cap[b] \in Nat)
        /\ (\A b \in O \ T : cap[b] = 0) /\ (\A b \in T : cap[b] = Capacity(C[b], whole))
    BY <1>2, <2>2
  <2>5. cap = [b \in O |-> cap[b]]
    OBVIOUS
  <2> HIDE DEF S, T, room, cap
  <2>6. Amount(room, S) = Amount(room, T)
    BY <2>1, <2>3, AmountRest
  <2>7. Amount(cap, O) = Amount(cap, T)
    BY <1>2, <2>1, <2>4, AmountRest
  <2>8. Amount(room, T) = Amount(cap, T)
    BY <2>1, <2>3, <2>4, AmountSame
  <2>9. \A b \in O : cap[b] \in Int
    BY <2>4
  <2>10. cap \in [O -> Int]
    BY <2>5, <2>9
  <2> QED
    BY <2>6, <2>7, <2>8, <2>10 DEF S
<1>13. whole > 0 => \A b \in O : gap[b] <= cap[b]
  <2> SUFFICES ASSUME whole > 0, NEW b \in O PROVE gap[b] <= cap[b]
    OBVIOUS
  <2> DEFINE c == C[b]
  <2>1. CandidateOK(c, whole) /\ ~c.excluded /\ c.target # Absent /\ c.allow
        /\ (c.maximum # Absent => c.target <= c.maximum)
    BY <1>1, <1>2 DEF CandidatesOK
  <2>2. gap[b] = whole * c.target + q * c.value
    OBVIOUS
  <2>3. cap[b] = IF c.maximum_breached THEN 0 ELSE Capacity(c, whole)
    OBVIOUS
  <2> HIDE DEF c, gap, cap, whole, q
  <2>4. Gap(c, whole) <= IF c.maximum_breached THEN 0 ELSE Capacity(c, whole)
    BY <1>3, <2>1, LackIsRoom
  <2>5. c.target \in Int /\ c.value \in Int
    BY <2>1 DEF CandidateOK, Percentages, Absent
  <2>6. whole * c.target + q * c.value = Gap(c, whole)
    BY <1>3, <2>5 DEF Gap, q
  <2> QED
    BY <2>2, <2>3, <2>4, <2>6
<1>14. whole > 0 => Amount(room, DOMAIN B) >= 100 * cash
  <2> SUFFICES ASSUME whole > 0 PROVE Amount(room, DOMAIN B) >= 100 * cash
    OBVIOUS
  <2> HIDE DEF gap, cap
  <2>2. Amount(gap, O) <= Amount(cap, O) /\ Amount(cap, O) \in Int
    BY <1>2, <1>9, <1>12, <1>13, AmountLess
  <2> HIDE DEF room, B, cash
  <2> QED
    BY <1>4, <1>10, <1>12, <2>2
<1>15. Larger(0, 100 * cash - Amount(room, DOMAIN B)) = 0
  <2>1. Amount(room, DOMAIN B) \in Nat
    <3>1. IsFiniteSet(DOMAIN B) /\ DOMAIN B \subseteq DOMAIN room /\ \A b \in DOMAIN B : room[b] \in Nat
      BY <1>11 DEF Ranked, Room
    <3> HIDE DEF B, room
    <3> QED
      BY <3>1, AmountNat
  <2>2. whole = 0 => cash = 0
    <3> HIDE DEF whole, cash, K, W, in
    <3> QED
      BY <1>4, <1>7
  <2> HIDE DEF room, B, cash, whole
  <2>3. 100 * cash - Amount(room, DOMAIN B) <= 0 /\ 100 * cash - Amount(room, DOMAIN B) \in Int
    BY <1>3, <1>4, <1>14, <2>1, <2>2
  <2> QED
    BY <2>3 DEF Larger
<1> HIDE DEF whole, cash
<1>16. Bought(C, Rebalancing(C, whole, cash))
          = 100 * cash - Larger(0, 100 * cash - Amount(room, DOMAIN B))
  BY <1>1, <1>4, BoughtAddsUp
<1> HIDE DEF room, B
<1>17. Bought(C, Rebalancing(C, whole, cash)) = 100 * cash
  BY <1>4, <1>15, <1>16
<1> QED
  BY <1>17 DEF whole, cash

-----------------------------------------------------------------------------
(* The stored strategy. *)

\* A function on the columns with a value of the right kind in each is a row.
LEMMA RowsByColumn ==
    ASSUME NEW r, r = [f \in Fields |-> r[f]], NEW x \in Rules, NEW y \in Rules,
           \A f \in Fields : r[f] = x[f] \/ r[f] = y[f]
    PROVE  r \in Rules
<1>1. Fields = {"target", "minimum", "maximum", "allow", "priority", "active"}
  BY DEF Fields, Limits
<1>2. \A z \in Rules : /\ z["target"] \in 0 .. 100 \cup {Absent} /\ z["minimum"] \in 0 .. 100 \cup {Absent}
                       /\ z["maximum"] \in 0 .. 100 \cup {Absent} /\ z["allow"] \in BOOLEAN
                       /\ z["priority"] \in Int /\ z["active"] \in BOOLEAN
  BY DEF Rules
<1>3. /\ r["target"] \in 0 .. 100 \cup {Absent} /\ r["minimum"] \in 0 .. 100 \cup {Absent}
      /\ r["maximum"] \in 0 .. 100 \cup {Absent} /\ r["allow"] \in BOOLEAN
      /\ r["priority"] \in Int /\ r["active"] \in BOOLEAN
  <2>1. \A f \in {"target", "minimum", "maximum", "allow", "priority", "active"} : r[f] = x[f] \/ r[f] = y[f]
    BY <1>1
  <2>2. /\ r["target"] = x["target"] \/ r["target"] = y["target"]
        /\ r["minimum"] = x["minimum"] \/ r["minimum"] = y["minimum"]
        /\ r["maximum"] = x["maximum"] \/ r["maximum"] = y["maximum"]
        /\ r["allow"] = x["allow"] \/ r["allow"] = y["allow"]
        /\ r["priority"] = x["priority"] \/ r["priority"] = y["priority"]
        /\ r["active"] = x["active"] \/ r["active"] = y["active"]
    BY <2>1
  <2> QED
    BY <1>2, <2>2
<1>4. r = [f \in {"target", "minimum", "maximum", "allow", "priority", "active"} |-> r[f]]
  BY <1>1
<1> QED
  BY <1>3, <1>4 DEF Rules

\* A merge of what the schemas let through is a row, and so is what is written.
LEMMA MergedIsRow ==
    ASSUME NEW seen \in Rules, NEW request \in Requests
    PROVE  Merged(seen, request) \in Rules
<1> DEFINE r == Merged(seen, request)
           x == Merged(NoRule, request)
<1>1. x \in Rules
  BY AdminAssumption
<1>2. r = [f \in Fields |-> r[f]]
  BY DEF Merged
<1>3. \A f \in Fields : r[f] = x[f] \/ r[f] = seen[f]
  BY DEF Merged
<1> HIDE DEF r, x
<1>4. r \in Rules
  BY <1>1, <1>2, <1>3, RowsByColumn
<1> QED
  BY <1>4 DEF r

\* So is the row that an UPDATE leaves behind, whatever was written meanwhile.
LEMMA WrittenIsRow ==
    ASSUME NEW p, p.seen \in Rules, p.request \in Requests, NEW row \in Rules
    PROVE  Written(p, row) \in Rules
<1> DEFINE r == Written(p, row)
           x == Merged(p.seen, p.request)
<1>1. x \in Rules
  BY MergedIsRow
<1>2. r = [f \in Fields |-> r[f]]
  BY DEF Written
<1>3. \A f \in Fields : r[f] = x[f] \/ r[f] = row[f]
  BY DEF Written
<1> HIDE DEF r, x
<1>4. r \in Rules
  BY <1>1, <1>2, <1>3, RowsByColumn
<1> QED
  BY <1>4 DEF r

\* Buckets and rules keep their form, whoever edits them.
LEMMA AdminStep ==
    ASSUME AdminTypeOK, StrategyInv, [PlanNext]_planVars
    PROVE  AdminTypeOK'
<1>1. ASSUME NEW b \in Buckets, NEW n \in Names, CreateBucket(b, n) PROVE AdminTypeOK'
  <2>1. \A e \in DOMAIN bucket : bucket[e].name # n
    BY <1>1 DEF CreateBucket, NamesTaken
  <2>2. /\ DOMAIN bucket' = DOMAIN bucket \cup {b} /\ bucket'[b] = [name |-> n, active |-> TRUE]
        /\ \A e \in DOMAIN bucket : bucket'[e] = bucket[e]
    BY <1>1 DEF CreateBucket, Extended
  <2>3. UNCHANGED <<rule, patch>>
    BY <1>1 DEF CreateBucket
  <2>4. \A e \in DOMAIN bucket' : bucket'[e] \in [name : Names, active : BOOLEAN]
    <3>1. bucket'[b] \in [name : Names, active : BOOLEAN]
      <4>1. TRUE \in BOOLEAN
        OBVIOUS
      <4>2. [name |-> n, active |-> TRUE] \in [name : Names, active : BOOLEAN]
        BY <4>1, Zenon
      <4> QED
        BY <2>2, <4>2
    <3>2. \A e \in DOMAIN bucket : bucket'[e] \in [name : Names, active : BOOLEAN]
      BY <2>2 DEF AdminTypeOK
    <3> QED
      BY <2>2, <3>1, <3>2
  <2>5. bucket'[b].name = n /\ \A e \in DOMAIN bucket : bucket'[e].name = bucket[e].name
    BY <2>2
  <2>6. \A d, e \in DOMAIN bucket' : bucket'[d].name = bucket'[e].name => d = e
    BY <2>1, <2>2, <2>5 DEF AdminTypeOK
  <2>7. DOMAIN bucket' \subseteq Buckets /\ DOMAIN rule' \subseteq DOMAIN bucket'
    BY <2>2, <2>3 DEF AdminTypeOK
  <2> QED
    BY <2>3, <2>4, <2>6, <2>7 DEF AdminTypeOK
<1>2. ASSUME NEW b \in Buckets, NEW n \in Names, RenameBucket(b, n) PROVE AdminTypeOK'
  <2>1. \A e \in DOMAIN bucket : bucket[e].name # n
    BY <1>2 DEF RenameBucket, NamesTaken
  <2>2. /\ DOMAIN bucket' = DOMAIN bucket /\ bucket'[b] = [name |-> n, active |-> bucket[b].active]
        /\ \A e \in DOMAIN bucket : e # b => bucket'[e] = bucket[e]
    BY <1>2 DEF RenameBucket, AdminTypeOK
  <2>3. UNCHANGED <<rule, patch>> /\ b \in DOMAIN bucket
    BY <1>2 DEF RenameBucket
  <2> QED
    BY <2>1, <2>2, <2>3 DEF AdminTypeOK
<1>3. ASSUME NEW b \in Buckets, SwitchBucket(b) PROVE AdminTypeOK'
  <2>1. /\ DOMAIN bucket' = DOMAIN bucket /\ b \in DOMAIN bucket
        /\ bucket'[b] = [name |-> bucket[b].name, active |-> ~bucket[b].active]
        /\ \A e \in DOMAIN bucket : e # b => bucket'[e] = bucket[e]
    BY <1>3 DEF SwitchBucket, AdminTypeOK
  <2>2. UNCHANGED <<rule, patch>>
    BY <1>3 DEF SwitchBucket
  <2>3. \A e \in DOMAIN bucket' : bucket'[e] \in [name : Names, active : BOOLEAN]
    <3>1. bucket[b].name \in Names
      BY <2>1 DEF AdminTypeOK
    <3>2. (~bucket[b].active) \in BOOLEAN
      BY Zenon
    <3>3. [name |-> bucket[b].name, active |-> ~bucket[b].active] \in [name : Names, active : BOOLEAN]
      BY <3>1, <3>2, Zenon
    <3>4. \A e \in DOMAIN bucket : e # b => bucket'[e] \in [name : Names, active : BOOLEAN]
      BY <2>1 DEF AdminTypeOK
    <3>5. bucket'[b] \in [name : Names, active : BOOLEAN]
      BY <2>1, <3>3
    <3> QED
      BY <2>1, <3>4, <3>5
  <2>4. bucket'[b].name = bucket[b].name
    BY <2>1
  <2>5. \A d, e \in DOMAIN bucket' : bucket'[d].name = bucket'[e].name => d = e
    BY <2>1, <2>4 DEF AdminTypeOK
  <2>6. DOMAIN bucket' \subseteq Buckets /\ DOMAIN rule' \subseteq DOMAIN bucket'
    BY <2>1, <2>2 DEF AdminTypeOK
  <2> QED
    BY <2>2, <2>3, <2>5, <2>6 DEF AdminTypeOK
<1>4. ASSUME NEW b \in Buckets, NEW new \in NewRules, CreateTarget(b, new) PROVE AdminTypeOK'
  <2>1. /\ DOMAIN rule' = DOMAIN rule \cup {b} /\ b \in DOMAIN bucket /\ rule'[b] = new
        /\ \A e \in DOMAIN rule : rule'[e] = rule[e]
        /\ UNCHANGED <<bucket, patch>>
    BY <1>4 DEF CreateTarget, Extended
  <2>2. new \in Rules
    BY AdminAssumption
  <2> QED
    BY <2>1, <2>2 DEF AdminTypeOK
<1>5. ASSUME NEW s \in Admins, NEW b \in Buckets, NEW request \in Requests, ReadTarget(s, b, request)
      PROVE  AdminTypeOK'
  <2>1. /\ patch'[s] = [bucket |-> b, request |-> request, seen |-> rule[b]] /\ b \in DOMAIN rule
        /\ \A i \in Admins : i # s => patch'[i] = patch[i]
        /\ UNCHANGED <<bucket, rule>>
    BY <1>5 DEF ReadTarget, StrategyInv, PatchesAreTheirs
  <2> QED
    BY <2>1 DEF AdminTypeOK
<1>6. ASSUME NEW s \in Admins, CommitTarget(s) PROVE AdminTypeOK'
  <2> DEFINE p == patch[s]
             row == Written(p, rule[p.bucket])
  <2>1. p.bucket \in DOMAIN rule /\ p.request \in Requests /\ p.seen \in Rules /\ rule[p.bucket] \in Rules
    BY <1>6 DEF CommitTarget, AdminTypeOK
  <2>2. row \in Rules
    <3> HIDE DEF p
    <3> QED
      BY <2>1, WrittenIsRow
  <2>3. /\ patch'[s] = Idle /\ \A i \in Admins : i # s => patch'[i] = patch[i]
        /\ UNCHANGED bucket
    BY <1>6 DEF CommitTarget, StrategyInv, PatchesAreTheirs
  <2>4. DOMAIN rule' = DOMAIN rule /\ \A e \in DOMAIN rule : rule'[e] = rule[e] \/ rule'[e] = row
    <3>1. rule' = IF Refused(row) THEN rule ELSE [rule EXCEPT ![p.bucket] = row]
      BY <1>6 DEF CommitTarget
    <3> HIDE DEF row, p
    <3> QED
      BY <3>1
  <2> HIDE DEF row, p
  <2> QED
    BY <2>2, <2>3, <2>4 DEF AdminTypeOK
<1>7. CASE UNCHANGED adminVars
  BY <1>7 DEF adminVars, AdminTypeOK
<1> QED
  BY <1>1, <1>2, <1>3, <1>4, <1>5, <1>6, <1>7, AdminSteps

-----------------------------------------------------------------------------
(* The world and what is read of it. *)

Configs == [emergency : Assets \cup {NoAsset}, excluded : BOOLEAN]

WorldOK ==
    /\ holding \in [Assets -> [worth : Nat, book : Nat, quote : Quotes]]
    /\ listed \subseteq Assets
    /\ home \in [Assets -> Buckets \cup {Absent}]
    /\ config \in Configs
    /\ quiet \in BOOLEAN /\ rounds \in 0 .. 2 /\ changes \in 0 .. MaxChanges

\* A request under way: what it read, and that in a quiet world it is still so.
ReadingOK ==
    /\ reading.at \in {"config", "positions", "buckets", "targets"}
    /\ reading.at = "config" => reading = NotAsked
    /\ reading.at # "config" => reading.config \in Configs /\ (quiet => reading.config = config)
    /\ reading.at \in {"buckets", "targets"} =>
          /\ PositionsOK(reading.config, reading.positions)
          /\ quiet => reading.positions = Positions(config)
    /\ reading.at = "targets" => NamesOK(reading.names)

Holdings == [worth : Nat, book : Nat, quote : Quotes]

\* What build_positions makes of holdings H, of the assets of L, in buckets G.
PositionsOf(H, L, G, cfg) ==
    [a \in L |->
        Position([held |-> H[a].worth > 0, worth |-> H[a].worth, book |-> H[a].book,
                  quote |-> H[a].quote, foreign |-> a \in ForeignAssets],
                 G[a], a \in CashAssets, a = cfg.emergency)]

\* They are as the readers expect them, and a current price values a holding.
LEMMA PositionsOfFacts ==
    ASSUME NEW H \in [Assets -> Holdings], NEW L, L \subseteq Assets,
           NEW G \in [Assets -> Buckets \cup {Absent}], NEW cfg
    PROVE  LET P == PositionsOf(H, L, G, cfg)
           IN  /\ PositionsOK(cfg, P) /\ DOMAIN P = L
               /\ \A a \in L : /\ P[a].bucket = G[a]
                               /\ H[a].quote = "CURRENT" => P[a].value = H[a].worth
<1> DEFINE P == PositionsOf(H, L, G, cfg)
           h(a) == [held |-> H[a].worth > 0, worth |-> H[a].worth,
                    book |-> H[a].book, quote |-> H[a].quote, foreign |-> a \in ForeignAssets]
<1>1. DOMAIN P = L /\ \A a \in L : P[a] = Position(h(a), G[a], a \in CashAssets, a = cfg.emergency)
  BY DEF PositionsOf
<1>2. ASSUME NEW a \in L
      PROVE  /\ P[a].value \in Nat \cup {Unpriced} /\ P[a].bucket = G[a]
             /\ P[a].cash = (a \in CashAssets) /\ P[a].emergency = (a = cfg.emergency)
             /\ G[a] \in Buckets \cup {Absent}
             /\ H[a].quote = "CURRENT" => P[a].value = H[a].worth
  <2> DEFINE g == h(a)
  <2>1. H[a] \in Holdings /\ G[a] \in Buckets \cup {Absent}
    OBVIOUS
  <2>2. H[a].worth \in Nat /\ H[a].book \in Nat
    BY <2>1 DEF Holdings
  <2>3. g.worth = H[a].worth /\ g.book = H[a].book /\ g.quote = H[a].quote
    OBVIOUS
  <2>4. ~g.held => ~(H[a].worth > 0)
    BY Zenon
  <2>5. ~g.held => g.worth = 0
    BY <2>2, <2>3, <2>4
  <2> HIDE DEF g
  <2>6. ValueOf(g) \in Nat \cup {Unpriced} /\ (g.quote = "CURRENT" => ValueOf(g) = g.worth)
    BY <2>2, <2>3, <2>5 DEF ValueOf, Usable
  <2> DEFINE x == (a \in CashAssets)
             y == (a = cfg.emergency)
  <2>7. P[a] = Position(g, G[a], x, y)
    BY <1>1 DEF g
  <2> HIDE DEF P, x, y
  <2>8. P[a].value = ValueOf(g) /\ P[a].bucket = G[a] /\ P[a].cash = x /\ P[a].emergency = y
    BY <2>7 DEF Position
  <2> QED
    BY <2>1, <2>3, <2>6, <2>8 DEF x, y
<1> HIDE DEF P
<1>3. PositionsOK(cfg, P)
  BY <1>1, <1>2 DEF PositionsOK
<1> QED
  BY <1>1, <1>2, <1>3 DEF P

\* The positions of a typed world.
LEMMA PositionsRead ==
    ASSUME WorldOK, NEW cfg
    PROVE  /\ Positions(cfg) = PositionsOf(holding, listed, home, cfg)
           /\ PositionsOK(cfg, Positions(cfg)) /\ DOMAIN Positions(cfg) = listed
           /\ \A a \in listed : Positions(cfg)[a].bucket = home[a]
<1>1. Positions(cfg) = PositionsOf(holding, listed, home, cfg)
  BY DEF Positions, PositionsOf
<1>2. /\ holding \in [Assets -> Holdings] /\ listed \subseteq Assets
      /\ home \in [Assets -> Buckets \cup {Absent}]
  BY DEF WorldOK, Holdings
<1> DEFINE P == PositionsOf(holding, listed, home, cfg)
<1>3. PositionsOK(cfg, P) /\ DOMAIN P = listed /\ \A a \in listed : P[a].bucket = home[a]
  BY <1>2, PositionsOfFacts
<1> HIDE DEF P
<1>4. Positions(cfg) = P
  BY <1>1 DEF P
<1> QED
  BY <1>1, <1>3, <1>4

\* Whatever happens, values stay natural numbers and assets stay in a bucket.
LEMMA WorldStep ==
    ASSUME WorldOK, ReadingOK, [PlanNext]_planVars,
           \A b \in DOMAIN advice.left : advice.left[b] \in Nat
    PROVE  WorldOK'
<1> USE DEF WorldOK
<1>1. ASSUME NEW a \in Assets, NEW worth \in Levels, NEW quote \in Quotes, MarketMoves(a, worth, quote)
      PROVE  WorldOK'
  <2>1. worth \in Nat
    BY PlanningAssumption
  <2>2. holding' \in [Assets -> [worth : Nat, book : Nat, quote : Quotes]]
    BY <1>1, <2>1 DEF MarketMoves
  <2>3. UNCHANGED <<listed, home, config, rounds>> /\ quiet' = FALSE /\ changes' \in 0 .. MaxChanges
    BY <1>1, PlanningAssumption DEF MarketMoves, Change, askVars
  <2> QED
    BY <2>2, <2>3
<1>2. ASSUME NEW a \in Assets, NEW b \in Buckets \cup {Absent}, AssignBucket(a, b) PROVE WorldOK'
  <2>1. UNCHANGED <<holding, listed, config, rounds>> /\ quiet' = FALSE /\ changes' \in 0 .. MaxChanges
    BY <1>2, PlanningAssumption DEF AssignBucket, Change, askVars
  <2>2. home' \in [Assets -> Buckets \cup {Absent}]
    BY <1>2 DEF AssignBucket
  <2> QED
    BY <2>1, <2>2
<1>3. ASSUME NEW a \in Assets, SwitchAsset(a) PROVE WorldOK'
  <2>1. UNCHANGED <<holding, home, config, rounds>> /\ quiet' = FALSE /\ changes' \in 0 .. MaxChanges
    BY <1>3, PlanningAssumption DEF SwitchAsset, Change, askVars
  <2>2. listed' \subseteq Assets
    BY <1>3 DEF SwitchAsset
  <2> QED
    BY <2>1, <2>2
<1>4. ASSUME NEW e \in Assets \cup {NoAsset}, NEW x \in BOOLEAN, UpdateConfig(e, x) PROVE WorldOK'
  <2>1. UNCHANGED <<holding, listed, home, rounds>> /\ quiet' = FALSE /\ changes' \in 0 .. MaxChanges
    BY <1>4, PlanningAssumption DEF UpdateConfig, Change, askVars
  <2>2. config' \in Configs
    BY <1>4 DEF UpdateConfig, Configs
  <2> QED
    BY <2>1, <2>2
<1>5. CASE EditStrategy
  <2>1. Change /\ UNCHANGED <<worldVars, askVars>>
    BY <1>5 DEF EditStrategy
  <2>2. UNCHANGED <<holding, listed, home, config, rounds>>
    BY <2>1 DEF worldVars, askVars
  <2>3. quiet' = FALSE /\ changes' \in 0 .. MaxChanges
    BY <2>1, PlanningAssumption DEF Change
  <2> QED
    BY <2>2, <2>3
<1>6. CASE BeginPatch
  BY <1>6, PlanningAssumption DEF BeginPatch, worldVars, askVars
<1>7. CASE EndPatch
  BY <1>7 DEF EndPatch, worldVars, askVars
<1>8. CASE ReadConfig
  <2>1. rounds' \in 0 .. 2
    BY <1>8 DEF ReadConfig, Smaller
  <2> QED
    BY <1>8, <2>1 DEF ReadConfig, worldVars
<1>9. CASE ReadPositions
  BY <1>9 DEF ReadPositions, worldVars
<1>10. CASE ReadBuckets
  BY <1>10 DEF ReadBuckets, worldVars
<1>11. CASE Answer
  BY <1>11 DEF Answer, worldVars
<1>12. ASSUME NEW b \in Buckets, NEW a \in Assets, NEW k \in CashAssets, Buy(b, a, k) PROVE WorldOK'
  <2> DEFINE x == Smaller(advice.left[b], holding[k].worth)
  <2>1. k \in Assets /\ a # k
    BY <1>12, PlanningAssumption DEF Buy, Targets
  <2>2. holding' = [holding EXCEPT ![a].worth = @ + x, ![a].book = @ + x,
                                   ![k].worth = @ - x, ![k].book = Larger(0, @ - x)]
    BY <1>12 DEF Buy
  <2>3. advice.left[b] \in Nat /\ holding[k].worth \in Nat
    BY <1>12, <2>1 DEF Buy, Asked
  <2>4. x \in Nat /\ x <= holding[k].worth
    BY <2>3 DEF Smaller
  <2> HIDE DEF x
  <2>5. \A i \in Assets : holding[i].worth \in Nat /\ holding[i].book \in Nat
    OBVIOUS
  <2>6. Larger(0, holding[k].book - x) \in Nat
    BY <2>1, <2>4, <2>5 DEF Larger
  <2>7. holding' \in [Assets -> [worth : Nat, book : Nat, quote : Quotes]]
    <3> DEFINE ha == [holding[a] EXCEPT !.worth = @ + x, !.book = @ + x]
               hk == [holding[k] EXCEPT !.worth = @ - x, !.book = Larger(0, @ - x)]
    <3>1. /\ holding[a] \in [worth : Nat, book : Nat, quote : Quotes]
          /\ holding[k] \in [worth : Nat, book : Nat, quote : Quotes]
      BY <2>1
    <3>2. /\ ha \in [worth : Nat, book : Nat, quote : Quotes]
          /\ hk \in [worth : Nat, book : Nat, quote : Quotes]
      <4>1. holding[a].worth + x \in Nat /\ holding[a].book + x \in Nat
        BY <2>4, <3>1
      <4>2. holding[k].worth - x \in Nat
        BY <2>4, <3>1
      <4> QED
        BY <2>6, <3>1, <4>1, <4>2
    <3>3. holding' = [[holding EXCEPT ![a] = ha] EXCEPT ![k] = hk]
      BY <2>1, <2>2
    <3> HIDE DEF ha, hk
    <3> QED
      BY <2>1, <3>2, <3>3
  <2>8. UNCHANGED <<listed, home, config, quiet, rounds, changes>>
    BY <1>12 DEF Buy
  <2> QED
    BY <2>7, <2>8
<1>13. ASSUME NEW b \in Buckets, NEW a \in Assets, NEW k \in CashAssets, Sell(b, a, k) PROVE WorldOK'
  <2> DEFINE x == Smaller(advice.left[b], holding[a].worth)
             book == (holding[a].book * (holding[a].worth - x)) \div holding[a].worth
  <2>1. k \in Assets /\ a # k /\ holding[a].worth > 0
    BY <1>13, PlanningAssumption DEF Sell, Sellable, Targets
  <2>2. holding' = [holding EXCEPT ![a].worth = @ - x, ![a].book = book,
                                   ![k].worth = @ + x, ![k].book = @ + x]
    BY <1>13 DEF Sell
  <2>3. advice.left[b] \in Nat /\ holding[a].worth \in Nat
    BY <1>13, <2>1 DEF Sell, Asked
  <2>4. x \in Nat /\ x <= holding[a].worth
    BY <2>3 DEF Smaller
  <2> HIDE DEF x
  <2>5. \A i \in Assets : holding[i].worth \in Nat /\ holding[i].book \in Nat
    OBVIOUS
  <2>6. book \in Nat
    <3> DEFINE f == holding[a].book
               g == holding[a].worth - x
               w == holding[a].worth
    <3>1. f \in Nat /\ g \in Nat /\ w \in Nat /\ w > 0
      BY <2>1, <2>4, <2>5
    <3> HIDE DEF f, g, w
    <3>2. f * g \in Nat
      BY <3>1
    <3> DEFINE n == f * g
    <3> HIDE DEF n
    <3>3. n \in Nat
      BY <3>2 DEF n
    <3>4. n \div w \in Nat
      BY <3>1, <3>3
    <3> QED
      BY <3>4 DEF n, f, g, w
  <2> HIDE DEF book
  <2>7. holding' \in [Assets -> [worth : Nat, book : Nat, quote : Quotes]]
    <3> DEFINE ha == [holding[a] EXCEPT !.worth = @ - x, !.book = book]
               hk == [holding[k] EXCEPT !.worth = @ + x, !.book = @ + x]
    <3>1. /\ holding[a] \in [worth : Nat, book : Nat, quote : Quotes]
          /\ holding[k] \in [worth : Nat, book : Nat, quote : Quotes]
      BY <2>1
    <3>2. /\ ha \in [worth : Nat, book : Nat, quote : Quotes]
          /\ hk \in [worth : Nat, book : Nat, quote : Quotes]
      <4>1. holding[a].worth - x \in Nat
        BY <2>4, <3>1
      <4>2. holding[k].worth + x \in Nat /\ holding[k].book + x \in Nat
        BY <2>4, <3>1
      <4> QED
        BY <2>6, <3>1, <4>1, <4>2
    <3>3. holding' = [[holding EXCEPT ![a] = ha] EXCEPT ![k] = hk]
      BY <2>1, <2>2
    <3> HIDE DEF ha, hk
    <3> QED
      BY <2>1, <3>2, <3>3
  <2>8. UNCHANGED <<listed, home, config, quiet, rounds, changes>>
    BY <1>13 DEF Sell
  <2> QED
    BY <2>7, <2>8
<1>14. CASE UNCHANGED planVars
  BY <1>14 DEF planVars, worldVars, askVars
<1> QED
  BY <1>1, <1>2, <1>3, <1>4, <1>5, <1>6, <1>7, <1>8, <1>9, <1>10, <1>11, <1>12, <1>13, <1>14 DEF PlanNext

\* The steps of the world: nothing that is asked or read changes with them, and
\* it is no longer quiet.
WorldMoves == UNCHANGED askVars /\ quiet' = FALSE

\* What the other steps have in common.
LEMMA StepsOfTheWorld ==
    ASSUME [PlanNext]_planVars
    PROVE  \/ WorldMoves
           \/ UNCHANGED <<worldVars, askVars, quiet>>
           \/ ReadConfig \/ ReadPositions \/ ReadBuckets \/ Answer
           \/ \E b \in Buckets, a \in Assets, k \in CashAssets : Buy(b, a, k)
           \/ \E b \in Buckets, a \in Assets, k \in CashAssets : Sell(b, a, k)
<1>1. ASSUME \/ \E a \in Assets, worth \in Levels, quote \in Quotes : MarketMoves(a, worth, quote)
             \/ \E a \in Assets, b \in Buckets \cup {Absent} : AssignBucket(a, b)
             \/ \E a \in Assets : SwitchAsset(a)
             \/ \E e \in Assets \cup {NoAsset}, x \in BOOLEAN : UpdateConfig(e, x)
      PROVE  WorldMoves
  BY <1>1 DEF MarketMoves, AssignBucket, SwitchAsset, UpdateConfig, Change, WorldMoves
<1>2. CASE EditStrategy
  <2>1. Change /\ UNCHANGED askVars
    BY <1>2 DEF EditStrategy
  <2> QED
    BY <2>1 DEF Change, WorldMoves
<1>3. CASE BeginPatch
  BY <1>3 DEF BeginPatch
<1>4. CASE EndPatch
  BY <1>4 DEF EndPatch, WorldMoves
<1>5. CASE UNCHANGED planVars
  BY <1>5 DEF planVars
<1> QED
  BY <1>1, <1>2, <1>3, <1>4, <1>5 DEF PlanNext

\* What a request has read is in order, and in a quiet world still so.
LEMMA ReadingStep ==
    ASSUME AdminTypeOK, WorldOK, ReadingOK, [PlanNext]_planVars
    PROVE  ReadingOK'
<1>1. CASE WorldMoves
  <2>1. reading' = reading /\ quiet' = FALSE
    BY <1>1 DEF WorldMoves, askVars
  <2> QED
    BY <2>1 DEF ReadingOK
<1>2. CASE UNCHANGED <<worldVars, askVars, quiet>>
  <2>1. UNCHANGED <<holding, listed, home, config, reading, quiet>>
    BY <1>2 DEF worldVars, askVars
  <2>2. Positions(config)' = Positions(config)
    BY <2>1 DEF Positions
  <2> QED
    BY <2>1, <2>2 DEF ReadingOK
<1>3. CASE ReadConfig
  <2>1. reading' = [at |-> "positions", config |-> config] /\ config' = config
    BY <1>3 DEF ReadConfig, worldVars
  <2>2. reading'.at = "positions" /\ reading'.config = config
    BY <2>1
  <2> QED
    BY <2>1, <2>2 DEF ReadingOK, WorldOK
<1>4. CASE ReadPositions
  <2> DEFINE P == Positions(reading.config)
  <2>1. /\ reading.at = "positions"
        /\ reading' = [at |-> "buckets", config |-> reading.config, positions |-> P]
        /\ UNCHANGED <<holding, listed, home, config, quiet>>
    BY <1>4 DEF ReadPositions, worldVars
  <2>2. PositionsOK(reading.config, P)
    BY PositionsRead
  <2>3. Positions(config)' = Positions(config)
    BY <2>1 DEF Positions
  <2>4. reading.config \in Configs /\ (quiet => reading.config = config)
    BY <2>1 DEF ReadingOK
  <2>5. quiet => P = Positions(config)
    BY <2>4
  <2> HIDE DEF P
  <2>6. reading'.at = "buckets" /\ reading'.config = reading.config /\ reading'.positions = P
    BY <2>1
  <2> QED
    BY <2>1, <2>2, <2>3, <2>4, <2>5, <2>6 DEF ReadingOK
<1>5. CASE ReadBuckets
  <2> DEFINE names == [b \in ActiveBuckets |-> bucket[b].name]
  <2>1. /\ reading.at = "buckets"
        /\ reading' = [at |-> "targets", config |-> reading.config, positions |-> reading.positions,
                       names |-> names]
        /\ UNCHANGED <<holding, listed, home, config, quiet>>
    BY <1>5 DEF ReadBuckets, worldVars
  <2>2. NamesOK(names)
    BY DEF NamesOK, AdminTypeOK, ActiveBuckets
  <2>3. Positions(config)' = Positions(config)
    BY <2>1 DEF Positions
  <2> HIDE DEF names
  <2>4. /\ reading'.at = "targets" /\ reading'.config = reading.config
        /\ reading'.positions = reading.positions /\ reading'.names = names
    BY <2>1
  <2> QED
    BY <2>1, <2>2, <2>3, <2>4 DEF ReadingOK
<1>6. CASE Answer
  <2>1. reading' = NotAsked
    BY <1>6 DEF Answer
  <2>2. reading'.at = "config"
    BY <2>1 DEF NotAsked
  <2> QED
    BY <2>1, <2>2 DEF ReadingOK
<1>7. ASSUME NEW b \in Buckets, NEW a \in Assets, NEW k \in CashAssets, Buy(b, a, k) \/ Sell(b, a, k)
      PROVE  ReadingOK'
  <2>1. reading' = NotAsked
    BY <1>7 DEF Buy, Sell, Asked, Fresh
  <2>2. reading'.at = "config"
    BY <2>1 DEF NotAsked
  <2> QED
    BY <2>1, <2>2 DEF ReadingOK
<1> QED
  BY <1>1, <1>2, <1>3, <1>4, <1>5, <1>6, <1>7, StepsOfTheWorld

-----------------------------------------------------------------------------
(* The advice. *)

\* The advice is the answer that the engines gave to some reading.
AnswerTo(cfg, P, names, rules) ==
    /\ cfg \in Configs /\ PositionsOK(cfg, P) /\ NamesOK(names)
    /\ RulesOK(rules) /\ DOMAIN rules \subseteq DOMAIN names
    /\ advice.candidates = Candidates(cfg, P, names, rules)
    /\ advice.strategy = StrategySeen(cfg, P, rules)
    /\ advice.whole = Denominator(P, cfg.excluded)
    /\ advice.cash = Cash(P)
    /\ advice.answer = Rebalancing(advice.candidates, advice.whole, advice.cash)

\* What is left of it is what was advised, less what has been followed.
LeftOK ==
    /\ DOMAIN advice = {"candidates", "strategy", "whole", "cash", "answer", "left", "round"}
    /\ DOMAIN advice.left = DOMAIN advice.answer
    /\ \A b \in DOMAIN advice.left :
           advice.left[b] \in Nat /\ advice.left[b] <= Rounded(advice.answer[b].amount)

\* In a quiet world what lies in a bucket that is bought into is what the
\* answer saw there and what has been bought since.
StillSo(P) ==
    /\ DOMAIN P = listed
    /\ \A a \in listed : P[a].bucket = home[a]
    /\ \A b \in DOMAIN advice.left :
           advice.answer[b].action = "BUY" /\ (\A k \in Payers : home[k] # b) =>
              BucketValue(Positions(config), b)
                 <= advice.candidates[b].value + Rounded(advice.answer[b].amount) - advice.left[b]

AdviceOK ==
    \/ advice = NoAdvice
    \/ /\ LeftOK
       /\ \E cfg, P, names, rules : AnswerTo(cfg, P, names, rules) /\ (Fresh => StillSo(P))

\* Every bucket of the advice has its candidate and an amount.
LEMMA AnswerFacts ==
    ASSUME NEW cfg, NEW P, NEW names, NEW rules, AnswerTo(cfg, P, names, rules)
    PROVE  /\ CandidatesOK(advice.candidates, advice.whole)
           /\ advice.whole \in Nat /\ advice.cash \in Nat
           /\ DOMAIN advice.answer = DOMAIN advice.candidates
           /\ \A b \in DOMAIN advice.answer : /\ advice.answer[b].action \in RebalancingActions
                                              /\ advice.answer[b].amount \in Nat
           /\ \A b \in DOMAIN advice.candidates : advice.candidates[b].value = BucketValue(P, b)
<1>1. cfg.excluded \in BOOLEAN
  BY DEF AnswerTo, Configs
<1>2. /\ CandidatesOK(advice.candidates, advice.whole)
      /\ \A b \in DOMAIN advice.candidates : advice.candidates[b].value = BucketValue(P, b)
  BY <1>1, CandidatesFacts DEF AnswerTo
<1>3. advice.cash \in Nat
  <2> DEFINE K == {a \in DOMAIN P : P[a].cash /\ ~P[a].emergency}
  <2>1. advice.cash = ValueIn(P, K) /\ K \subseteq DOMAIN P /\ Valued(P)
    BY PositionsValued DEF AnswerTo, Cash
  <2> HIDE DEF K
  <2> QED
    BY <2>1, ValueInFacts
<1>4. advice.answer = Rebalancing(advice.candidates, advice.whole, advice.cash)
  BY DEF AnswerTo
<1> DEFINE C == advice.candidates
           whole == advice.whole
           cash == advice.cash
           R == advice.answer
<1> HIDE DEF C, whole, cash, R
<1>5. CandidatesOK(C, whole) /\ cash \in Nat /\ R = Rebalancing(C, whole, cash)
  BY <1>2, <1>3, <1>4 DEF C, whole, cash, R
<1>6. DOMAIN R = DOMAIN C /\ \A b \in DOMAIN C : R[b].action \in RebalancingActions /\ R[b].amount \in Nat
  BY <1>5, RebalancingFacts
<1> QED
  BY <1>2, <1>3, <1>6 DEF CandidatesOK, C, R

\* Where nothing that lies in a bucket changes its value the bucket does not,
\* and where one position does the bucket changes by as much.
LEMMA BucketChange ==
    ASSUME NEW P, Valued(P), NEW Q, Valued(Q), DOMAIN P = DOMAIN Q, NEW b,
           \A a \in DOMAIN P : P[a].bucket = Q[a].bucket
    PROVE  /\ BucketValue(P, b) \in Nat /\ BucketValue(Q, b) \in Nat
           /\ (\A a \in DOMAIN P : P[a].bucket = b => P[a].value = Q[a].value) =>
                 BucketValue(Q, b) = BucketValue(P, b)
           /\ \A t \in DOMAIN P :
                 /\ P[t].bucket = b /\ P[t].value # Unpriced /\ Q[t].value # Unpriced
                 /\ \A a \in DOMAIN P : P[a].bucket = b /\ a # t => P[a].value = Q[a].value
                 => BucketValue(Q, b) = BucketValue(P, b) + (Q[t].value - P[t].value)
<1> DEFINE S == {a \in DOMAIN P : P[a].bucket = b}
           v == Worths(P)
           w == Worths(Q)
           f == [a \in S |-> v[a]]
           g == [a \in S |-> w[a]]
<1>1. S \subseteq DOMAIN P /\ S \subseteq DOMAIN Q /\ IsFiniteSet(S)
  BY FS_Subset DEF Valued
<1>2. S = {a \in DOMAIN Q : Q[a].bucket = b}
  OBVIOUS
<1>3. BucketValue(P, b) = ValueIn(P, S) /\ BucketValue(Q, b) = ValueIn(Q, S)
  BY <1>2 DEF BucketValue
<1>4. \A a \in S : a \in DOMAIN P /\ P[a].bucket = b
  OBVIOUS
<1>5. /\ DOMAIN v = DOMAIN P /\ DOMAIN w = DOMAIN Q
      /\ \A a \in DOMAIN P : /\ v[a] = IF P[a].value = Unpriced THEN 0 ELSE P[a].value
                             /\ w[a] = IF Q[a].value = Unpriced THEN 0 ELSE Q[a].value
                             /\ v[a] \in Nat /\ w[a] \in Nat
  BY DEF Worths, Valued
<1> HIDE DEF S, v, w
<1>6. /\ BucketValue(P, b) = Amount(v, S) /\ BucketValue(Q, b) = Amount(w, S)
      /\ Amount(v, S) \in Nat /\ Amount(w, S) \in Nat
  BY <1>1, <1>3, ValueInFacts DEF v, w
<1>7. f \in [S -> Int] /\ g \in [S -> Int] /\ \A a \in S : f[a] = v[a] /\ g[a] = w[a]
  BY <1>1, <1>5
<1>8. DOMAIN f = S /\ DOMAIN g = S
  OBVIOUS
<1> HIDE DEF f, g
<1>9. Amount(f, S) = Amount(v, S) /\ Amount(g, S) = Amount(w, S)
  BY <1>1, <1>5, <1>7, <1>8, AmountSame
<1>10. ASSUME \A a \in DOMAIN P : P[a].bucket = b => P[a].value = Q[a].value
       PROVE  BucketValue(Q, b) = BucketValue(P, b)
  <2>1. \A a \in S : v[a] = w[a]
    BY <1>1, <1>4, <1>5, <1>10
  <2> QED
    BY <1>1, <1>5, <1>6, <2>1, AmountSame
<1>11. ASSUME NEW t \in DOMAIN P, P[t].bucket = b, P[t].value # Unpriced, Q[t].value # Unpriced,
              \A a \in DOMAIN P : P[a].bucket = b /\ a # t => P[a].value = Q[a].value
       PROVE  BucketValue(Q, b) = BucketValue(P, b) + (Q[t].value - P[t].value)
  <2>1. t \in S
    BY <1>11 DEF S
  <2>2. \A a \in S : a # t => f[a] = g[a]
    BY <1>4, <1>5, <1>7, <1>11
  <2>3. Amount(g, S) = Amount(f, S) + (g[t] - f[t])
    BY <1>1, <1>7, <2>1, <2>2, AmountChange
  <2>4. f[t] = P[t].value /\ g[t] = Q[t].value
    BY <1>5, <1>7, <1>11, <2>1
  <2> QED
    BY <1>6, <1>9, <2>3, <2>4
<1> QED
  BY <1>6, <1>10, <1>11

\* A trade moves the worth of two assets and the amount that is left of the
\* advice; all else stays.
Traded(b, a, k, x) ==
    /\ b \in DOMAIN advice.left /\ x \in Nat /\ x <= advice.left[b]
    /\ a \in Targets(b) /\ k \in Payers
    /\ UNCHANGED <<listed, home, config, reading, quiet>>
    /\ DOMAIN holding' = Assets
    /\ \A i \in Assets \ {a, k} : holding'[i] = holding[i]
    /\ holding'[a].quote = holding[a].quote /\ holding'[k].quote = holding[k].quote
    /\ \/ advice.answer[b].action = "REDUCE"
       \/ advice.answer[b].action # "REDUCE" /\ holding'[a].worth = holding[a].worth + x
    /\ advice' = [advice EXCEPT !.left[b] = @ - x]

\* That is what buying and selling do.
LEMMA TradesMove ==
    ASSUME WorldOK, NEW b, NEW a \in Assets, NEW k \in CashAssets, Buy(b, a, k) \/ Sell(b, a, k),
           \A e \in DOMAIN advice.left : advice.left[e] \in Nat
    PROVE  \E x \in Nat : Traded(b, a, k, x)
<1>1. /\ Fresh /\ b \in DOMAIN advice.left /\ advice.left[b] \in Nat
      /\ a \in Targets(b) /\ k \in Payers
      /\ UNCHANGED <<listed, home, config, reading, quiet>>
  BY DEF Buy, Sell, Asked, Sellable, Spendable
<1>2. a \in Assets /\ k \in Assets /\ a # k
  BY <1>1, PlanningAssumption DEF Targets
<1>3. CASE Buy(b, a, k)
  <2> DEFINE x == Smaller(advice.left[b], holding[k].worth)
  <2>1. x \in Nat /\ x <= advice.left[b]
    BY <1>1, <1>2 DEF Smaller, WorldOK
  <2>2. /\ holding' = [holding EXCEPT ![a].worth = @ + x, ![a].book = @ + x,
                                      ![k].worth = @ - x, ![k].book = Larger(0, @ - x)]
        /\ advice' = [advice EXCEPT !.left[b] = @ - x]
        /\ advice.answer[b].action # "REDUCE"
    BY <1>3 DEF Buy, Asked
  <2> HIDE DEF x
  <2>3. /\ DOMAIN holding' = Assets /\ \A i \in Assets \ {a, k} : holding'[i] = holding[i]
        /\ holding'[a].quote = holding[a].quote /\ holding'[k].quote = holding[k].quote
        /\ holding'[a].worth = holding[a].worth + x
    BY <1>2, <2>2 DEF WorldOK
  <2> QED
    BY <1>1, <2>1, <2>2, <2>3 DEF Traded
<1>4. CASE Sell(b, a, k)
  <2> DEFINE x == Smaller(advice.left[b], holding[a].worth)
             book == (holding[a].book * (holding[a].worth - x)) \div holding[a].worth
  <2>1. x \in Nat /\ x <= advice.left[b]
    BY <1>1, <1>2 DEF Smaller, WorldOK
  <2>2. /\ holding' = [holding EXCEPT ![a].worth = @ - x, ![a].book = book,
                                      ![k].worth = @ + x, ![k].book = @ + x]
        /\ advice' = [advice EXCEPT !.left[b] = @ - x]
        /\ advice.answer[b].action = "REDUCE"
    BY <1>4 DEF Sell, Asked
  <2> HIDE DEF x, book
  <2>3. /\ DOMAIN holding' = Assets /\ \A i \in Assets \ {a, k} : holding'[i] = holding[i]
        /\ holding'[a].quote = holding[a].quote /\ holding'[k].quote = holding[k].quote
    BY <1>2, <2>2 DEF WorldOK
  <2> QED
    BY <1>1, <2>1, <2>2, <2>3 DEF Traded
<1> QED
  BY <1>3, <1>4

\* A trade takes from what is left of the advice no less than it moves.
LEMMA TradeKeepsLimits ==
    ASSUME WorldOK, WorldOK', NEW P, LeftOK, StillSo(P),
           \A e \in DOMAIN advice.left : /\ advice.candidates[e].value \in Int
                                         /\ advice.answer[e].amount \in Nat,
           NEW b, NEW a \in Assets, NEW k \in CashAssets, NEW x \in Nat, Traded(b, a, k, x)
    PROVE  LeftOK' /\ StillSo(P)'
<1> DEFINE Q == Positions(config)
           N == PositionsOf(holding', listed, home, config)
           fields == {"candidates", "strategy", "whole", "cash", "answer", "left", "round"}
<1>1. /\ DOMAIN advice = fields /\ DOMAIN advice.left = DOMAIN advice.answer
      /\ \A e \in DOMAIN advice.left :
            advice.left[e] \in Nat /\ advice.left[e] <= Rounded(advice.answer[e].amount)
  BY DEF LeftOK
<1>2. /\ b \in DOMAIN advice.left /\ x <= advice.left[b]
      /\ a \in listed /\ k \in listed /\ home[a] = b /\ a # k
      /\ holding[a].quote = "CURRENT" /\ holding[k].quote = "CURRENT"
      /\ advice' = [advice EXCEPT !.left[b] = @ - x]
  BY PlanningAssumption DEF Traded, Targets, Payers, Tradable
<1>3. /\ DOMAIN advice' = fields /\ advice'.answer = advice.answer
      /\ advice'.candidates = advice.candidates
      /\ advice'.left = [advice.left EXCEPT ![b] = @ - x]
  BY <1>1, <1>2
<1>4. /\ DOMAIN advice'.left = DOMAIN advice.left
      /\ \A e \in DOMAIN advice.left : advice'.left[e] = IF e = b THEN advice.left[b] - x ELSE advice.left[e]
  BY <1>2, <1>3
<1>5. \A e \in DOMAIN advice.left : Rounded(advice.answer[e].amount) \in Int
  BY DEF Rounded
<1>6. LeftOK'
  BY <1>1, <1>2, <1>3, <1>4, <1>5 DEF LeftOK
<1>7. UNCHANGED <<listed, home, config>> /\ listed \subseteq Assets
  BY DEF Traded, WorldOK
<1>8. /\ holding \in [Assets -> Holdings] /\ holding' \in [Assets -> Holdings]
      /\ home \in [Assets -> Buckets \cup {Absent}]
  BY DEF WorldOK, Holdings
<1>9. Positions(config)' = N /\ Q = PositionsOf(holding, listed, home, config)
  BY <1>7 DEF Positions, PositionsOf
<1>10. /\ Valued(Q) /\ DOMAIN Q = listed
       /\ \A i \in listed : /\ Q[i].bucket = home[i]
                            /\ holding[i].quote = "CURRENT" => Q[i].value = holding[i].worth
  BY <1>7, <1>8, <1>9, PositionsOfFacts, PositionsValued
<1>11. /\ Valued(N) /\ DOMAIN N = listed
       /\ \A i \in listed : /\ N[i].bucket = home[i]
                            /\ holding'[i].quote = "CURRENT" => N[i].value = holding'[i].worth
  BY <1>7, <1>8, PositionsOfFacts, PositionsValued
<1>12. ASSUME NEW i \in listed, i # a, i # k PROVE Q[i].value = N[i].value
  <2>1. holding'[i] = holding[i]
    BY <1>7, <1>12 DEF Traded
  <2> QED
    BY <1>9, <2>1 DEF PositionsOf
<1>13. holding'[a].quote = "CURRENT" /\ holding'[k].quote = "CURRENT"
  BY <1>2 DEF Traded
<1>14. /\ Q[a].value = holding[a].worth /\ N[a].value = holding'[a].worth
       /\ holding[a].worth \in Nat /\ holding'[a].worth \in Nat
  BY <1>2, <1>7, <1>8, <1>10, <1>11, <1>13 DEF Holdings
<1>15. Payers' = Payers
  <2>1. \A i \in listed : holding'[i].quote = holding[i].quote
    BY <1>7, <1>13, <1>2 DEF Traded
  <2> QED
    BY <1>7, <2>1 DEF Payers, Tradable
<1> HIDE DEF Q, N
<1>16. ASSUME NEW e \in DOMAIN advice.left, advice.answer[e].action = "BUY", \A i \in Payers : home[i] # e
       PROVE  BucketValue(N, e)
                 <= advice.candidates[e].value + Rounded(advice.answer[e].amount) - advice'.left[e]
  <2>1. BucketValue(Q, e) <= advice.candidates[e].value + Rounded(advice.answer[e].amount) - advice.left[e]
    BY <1>16 DEF StillSo, Q
  <2>2. home[k] # e
    BY <1>16 DEF Traded
  <2>3. BucketValue(Q, e) \in Nat /\ BucketValue(N, e) \in Nat
    BY <1>10, <1>11, BucketChange
  <2>4. /\ advice.left[e] \in Nat /\ advice.candidates[e].value \in Int
        /\ Rounded(advice.answer[e].amount) \in Int
    BY <1>1, <1>5
  <2>5. CASE e # b
    <3>1. \A i \in DOMAIN Q : Q[i].bucket = e => Q[i].value = N[i].value
      BY <1>2, <1>10, <1>12, <2>2, <2>5
    <3>2. BucketValue(N, e) = BucketValue(Q, e)
      BY <1>10, <1>11, <3>1, BucketChange
    <3> QED
      BY <1>4, <2>1, <2>5, <3>2
  <2>6. CASE e = b
    <3>1. holding'[a].worth = holding[a].worth + x
      BY <1>16, <2>6 DEF Traded
    <3>2. \A i \in DOMAIN Q : Q[i].bucket = e /\ i # a => Q[i].value = N[i].value
      BY <1>10, <1>12, <2>2
    <3>3. a \in DOMAIN Q /\ Q[a].bucket = e /\ Q[a].value # Unpriced /\ N[a].value # Unpriced
      BY <1>2, <1>10, <1>14, <2>6 DEF Unpriced
    <3>4. BucketValue(N, e) = BucketValue(Q, e) + (N[a].value - Q[a].value)
      BY <1>10, <1>11, <3>2, <3>3, BucketChange
    <3>5. BucketValue(N, e) = BucketValue(Q, e) + x
      BY <1>14, <2>3, <3>1, <3>4
    <3>6. advice'.left[e] = advice.left[e] - x
      BY <1>4, <2>6
    <3> QED
      BY <2>1, <2>3, <2>4, <3>5, <3>6
  <2> QED
    BY <2>5, <2>6
<1>17. StillSo(P)'
  BY <1>3, <1>4, <1>7, <1>9, <1>15, <1>16 DEF StillSo
<1> QED
  BY <1>6, <1>17

\* The advice stays in order, whatever happens.
LEMMA AdviceStep ==
    ASSUME AdminTypeOK, WorldOK, WorldOK', ReadingOK, AdviceOK, [PlanNext]_planVars
    PROVE  AdviceOK'
<1>1. CASE advice' = advice /\ ~Fresh'
  BY <1>1 DEF AdviceOK, LeftOK, AnswerTo
<1>2. CASE WorldMoves
  <2>1. advice' = advice /\ ~Fresh'
    BY <1>2 DEF WorldMoves, askVars, Fresh
  <2> QED
    BY <1>1, <2>1
<1>3. CASE UNCHANGED <<worldVars, askVars, quiet>>
  <2>1. UNCHANGED <<holding, listed, home, config, reading, advice, quiet>>
    BY <1>3 DEF worldVars, askVars
  <2>2. Positions(config)' = Positions(config) /\ Payers' = Payers /\ Fresh' = Fresh
    BY <2>1 DEF Positions, Payers, Tradable, Fresh
  <2>3. \A P : StillSo(P) => StillSo(P)'
    BY <2>1, <2>2 DEF StillSo
  <2>4. \A cfg, P, names, rules : AnswerTo(cfg, P, names, rules) => AnswerTo(cfg, P, names, rules)'
    BY <2>1 DEF AnswerTo
  <2>5. LeftOK => LeftOK'
    BY <2>1 DEF LeftOK
  <2> QED
    BY <2>1, <2>2, <2>3, <2>4, <2>5 DEF AdviceOK
<1>4. CASE ReadConfig \/ ReadPositions \/ ReadBuckets
  <2>1. advice' = advice /\ reading'.at # "config"
    BY <1>4 DEF ReadConfig, ReadPositions, ReadBuckets
  <2>2. ~Fresh'
    BY <2>1 DEF Fresh, NotAsked
  <2> QED
    BY <1>1, <2>1, <2>2
<1>5. CASE Answer
  <2>1. PICK cfg, P, names, rules : /\ cfg = reading.config /\ P = reading.positions
                                    /\ names = reading.names /\ rules = RulesOf(DOMAIN names, rule)
    OBVIOUS
  <2> DEFINE whole == Denominator(P, cfg.excluded)
             C == Candidates(cfg, P, names, rules)
             cash == Cash(P)
             R == Rebalancing(C, whole, cash)
             left == [b \in DOMAIN R |-> Rounded(R[b].amount)]
             seen == StrategySeen(cfg, P, rules)
  <2>2. /\ reading.at = "targets"
        /\ advice' = [candidates |-> C, strategy |-> seen, whole |-> whole, cash |-> cash,
                      answer |-> R, left |-> left, round |-> rounds]
        /\ UNCHANGED <<holding, listed, home, config, quiet>>
    BY <1>5, <2>1 DEF Answer, worldVars
  <2>3. /\ cfg \in Configs /\ PositionsOK(cfg, P) /\ NamesOK(names)
        /\ quiet => P = Positions(config)
    BY <2>1, <2>2 DEF ReadingOK
  <2>4. RulesOK(rules) /\ DOMAIN rules \subseteq DOMAIN names
    BY <2>1 DEF RulesOf, RulesOK, AdminTypeOK
  <2>5. cfg.excluded \in BOOLEAN
    BY <2>3 DEF Configs
  <2>6. CandidatesOK(C, whole) /\ \A b \in DOMAIN C : C[b].value = BucketValue(P, b)
    BY <2>3, <2>4, <2>5, CandidatesFacts
  <2>7. cash \in Nat
    <3> DEFINE K == {a \in DOMAIN P : P[a].cash /\ ~P[a].emergency}
    <3>1. cash = ValueIn(P, K) /\ K \subseteq DOMAIN P /\ Valued(P)
      BY <2>3, PositionsValued DEF Cash
    <3> HIDE DEF K, cash
    <3> QED
      BY <3>1, ValueInFacts
  <2> HIDE DEF C, whole, cash
  <2>8. DOMAIN R = DOMAIN C /\ \A b \in DOMAIN C : R[b].amount \in Nat
    BY <2>6, <2>7, RebalancingFacts
  <2> HIDE DEF R
  <2>9. /\ DOMAIN left = DOMAIN R
        /\ \A b \in DOMAIN R : left[b] = Rounded(R[b].amount) /\ left[b] \in Nat
    BY <2>8 DEF Rounded
  <2> HIDE DEF left, seen
  <2>10. /\ DOMAIN advice' = {"candidates", "strategy", "whole", "cash", "answer", "left", "round"}
         /\ advice'.candidates = C /\ advice'.strategy = seen /\ advice'.whole = whole
         /\ advice'.cash = cash /\ advice'.answer = R /\ advice'.left = left
    BY <2>2
  <2>11. LeftOK'
    BY <2>9, <2>10 DEF LeftOK
  <2>12. AnswerTo(cfg, P, names, rules)'
    BY <2>3, <2>4, <2>10 DEF AnswerTo, C, whole, cash, seen, R, PositionsOK, NamesOK, RulesOK
  <2>13. ASSUME Fresh' PROVE StillSo(P)'
    <3>1. P = Positions(config) /\ Positions(config)' = Positions(config)
      BY <2>2, <2>3, <2>13 DEF Fresh, Positions
    <3>2. DOMAIN P = listed' /\ \A a \in listed' : P[a].bucket = home'[a]
      BY <2>2, <3>1, PositionsRead
    <3>3. ASSUME NEW b \in DOMAIN advice'.left
          PROVE  BucketValue(Positions(config)', b)
                   <= advice'.candidates[b].value + Rounded(advice'.answer[b].amount) - advice'.left[b]
      <4>1. BucketValue(Positions(config)', b) = C[b].value
        BY <2>6, <2>8, <2>9, <2>10, <3>1
      <4>2. b \in DOMAIN C /\ CandidateOK(C[b], whole)
        BY <2>6, <2>8, <2>9, <2>10 DEF CandidatesOK
      <4>3. C[b].value \in Int /\ left[b] \in Nat /\ Rounded(R[b].amount) = left[b]
        BY <2>8, <2>9, <4>2 DEF CandidateOK
      <4> QED
        BY <2>10, <4>1, <4>3
    <3> QED
      BY <3>2, <3>3 DEF StillSo
  <2> QED
    BY <2>11, <2>12, <2>13 DEF AdviceOK
<1>6. ASSUME NEW b \in Buckets, NEW a \in Assets, NEW k \in CashAssets, Buy(b, a, k) \/ Sell(b, a, k)
      PROVE  AdviceOK'
  <2>1. Fresh /\ Fresh' /\ b \in DOMAIN advice.left
    BY <1>6 DEF Buy, Sell, Asked, Fresh
  <2>2. advice # NoAdvice
    BY <2>1 DEF NoAdvice
  <2>3. LeftOK
    BY <2>2 DEF AdviceOK
  <2>4. PICK cfg, P, names, rules : AnswerTo(cfg, P, names, rules) /\ StillSo(P)
    BY <2>1, <2>2 DEF AdviceOK
  <2>5. PICK x \in Nat : Traded(b, a, k, x)
    BY <1>6, <2>3, TradesMove DEF LeftOK
  <2>6. \A e \in DOMAIN advice.left : advice.candidates[e].value \in Int /\ advice.answer[e].amount \in Nat
    <3>1. /\ CandidatesOK(advice.candidates, advice.whole)
          /\ DOMAIN advice.answer = DOMAIN advice.candidates
          /\ \A e \in DOMAIN advice.answer : advice.answer[e].amount \in Nat
      BY <2>4, AnswerFacts
    <3> QED
      BY <2>3, <3>1 DEF LeftOK, CandidatesOK, CandidateOK
  <2>7. LeftOK' /\ StillSo(P)'
    BY <2>3, <2>4, <2>5, <2>6, TradeKeepsLimits
  <2>8. /\ advice'.candidates = advice.candidates /\ advice'.strategy = advice.strategy
        /\ advice'.whole = advice.whole /\ advice'.cash = advice.cash /\ advice'.answer = advice.answer
    BY <2>3, <2>5 DEF LeftOK, Traded
  <2>9. AnswerTo(cfg, P, names, rules)'
    BY <2>4, <2>8 DEF AnswerTo
  <2> QED
    BY <2>7, <2>9 DEF AdviceOK
<1> QED
  BY <1>2, <1>3, <1>4, <1>5, <1>6, StepsOfTheWorld

-----------------------------------------------------------------------------
(* The invariant. *)

PlanningInv == AdminTypeOK /\ StrategyInv /\ WorldOK /\ ReadingOK /\ AdviceOK

\* It holds of every beginning.
LEMMA PlanningInvInit == PlanInit => PlanningInv
<1> SUFFICES ASSUME PlanInit PROVE PlanningInv
  OBVIOUS
<1>1. PICK start \in Beginnings :
         /\ holding = [a \in Assets |-> [worth |-> start.worth[a], book |-> start.worth[a],
                                         quote |-> "CURRENT"]]
         /\ home = start.home /\ config = start.config
         /\ bucket = start.bucket /\ rule = start.rule
  BY DEF PlanInit
<1>2. /\ listed = Assets /\ patch = [s \in Admins |-> Idle] /\ reading = NotAsked
      /\ advice = NoAdvice /\ quiet = FALSE /\ rounds = 0 /\ changes = 0
  BY DEF PlanInit
<1>3. AdminTypeOK
  BY <1>1, <1>2, PlanningAssumption DEF AdminTypeOK
<1>4. StrategyInv
  BY <1>1, <1>2, PlanningAssumption DEF StrategyInv, RowsAreChecked, PatchesAreTheirs
<1>5. holding \in [Assets -> [worth : Nat, book : Nat, quote : Quotes]]
  <2>1. \A a \in Assets : start.worth[a] \in Nat
    BY PlanningAssumption
  <2>2. "CURRENT" \in Quotes
    BY DEF Quotes
  <2>3. ASSUME NEW a \in Assets PROVE holding[a] \in [worth : Nat, book : Nat, quote : Quotes]
    <3>1. PICK w \in Nat : w = start.worth[a]
      BY <2>1
    <3>2. holding[a] = [worth |-> w, book |-> w, quote |-> "CURRENT"]
      BY <1>1, <3>1
    <3> QED
      BY <2>2, <3>2
  <2>4. holding = [a \in Assets |-> holding[a]]
    BY <1>1
  <2> QED
    BY <2>3, <2>4
<1>6. WorldOK
  <2>1. home \in [Assets -> Buckets \cup {Absent}]
    BY <1>1, PlanningAssumption
  <2>2. config \in Configs
    BY <1>1, PlanningAssumption DEF Configs
  <2>3. quiet \in BOOLEAN
    BY <1>2, Zenon
  <2>4. listed \subseteq Assets /\ rounds \in 0 .. 2 /\ changes \in 0 .. MaxChanges
    <3>1. MaxChanges \in Nat
      BY PlanningAssumption
    <3> QED
      BY <1>2, <3>1
  <2> QED
    BY <1>5, <2>1, <2>2, <2>3, <2>4 DEF WorldOK
<1>7. ReadingOK
  BY <1>2 DEF ReadingOK, NotAsked
<1> QED
  BY <1>2, <1>3, <1>4, <1>6, <1>7 DEF PlanningInv, AdviceOK

\* And no step breaks it.
LEMMA PlanningInvNext == PlanningInv /\ [PlanNext]_planVars => PlanningInv'
<1> SUFFICES ASSUME PlanningInv, [PlanNext]_planVars PROVE PlanningInv'
  OBVIOUS
<1>1. AdminTypeOK /\ StrategyInv /\ WorldOK /\ ReadingOK /\ AdviceOK
  BY DEF PlanningInv
<1>2. \A b \in DOMAIN advice.left : advice.left[b] \in Nat
  <2>1. CASE advice = NoAdvice
    <3>1. DOMAIN advice.left = {}
      BY <2>1 DEF NoAdvice
    <3> QED
      BY <3>1
  <2>2. CASE advice # NoAdvice
    BY <1>1, <2>2 DEF AdviceOK, LeftOK
  <2> QED
    BY <2>1, <2>2
<1>3. AdminTypeOK' /\ StrategyInv'
  BY <1>1, AdminStep, NextStrategy
<1>4. WorldOK'
  BY <1>1, <1>2, WorldStep
<1>5. ReadingOK'
  BY <1>1, ReadingStep
<1>6. AdviceOK'
  BY <1>1, <1>4, AdviceStep
<1> QED
  BY <1>3, <1>4, <1>5, <1>6 DEF PlanningInv

\* The strategy, the world, the reading and the advice stay in order.
THEOREM PlanningInvariant == PlanSpec => []PlanningInv
<1> QED
  BY PlanningInvInit, PlanningInvNext, PTL DEF PlanSpec

-----------------------------------------------------------------------------
(* What it gives. *)

\* Nothing has been advised, or what has been is what the engines answered to
\* a reading that was in order.
LEMMA NothingOrAnswered ==
    ASSUME PlanningInv
    PROVE  \/ /\ advice = NoAdvice
              /\ DOMAIN advice.answer = {} /\ DOMAIN advice.candidates = {} /\ DOMAIN advice.left = {}
           \/ LeftOK /\ \E cfg, P, names, rules : AnswerTo(cfg, P, names, rules) /\ (Fresh => StillSo(P))
<1>1. CASE advice = NoAdvice
  BY <1>1 DEF NoAdvice
<1> QED
  BY <1>1 DEF PlanningInv, AdviceOK

\* Every variable of the advice, of the strategy and of the world has its type.
THEOREM PlanningTypeCorrect == PlanSpec => []PlanningTypeOK
<1>1. PlanningInv => PlanningTypeOK
  <2> SUFFICES ASSUME PlanningInv PROVE PlanningTypeOK
    OBVIOUS
  <2>1. AdminTypeOK /\ WorldOK /\ ReadingOK
    BY DEF PlanningInv
  <2>2. /\ DOMAIN advice.answer = DOMAIN advice.candidates
        /\ \A b \in DOMAIN advice.answer : /\ advice.answer[b].action \in RebalancingActions
                                           /\ advice.answer[b].amount \in Nat
                                           /\ advice.left[b] \in Nat
    <3>1. CASE DOMAIN advice.answer = {} /\ DOMAIN advice.candidates = {}
      BY <3>1
    <3>2. ASSUME LeftOK, NEW cfg, NEW P, NEW names, NEW rules, AnswerTo(cfg, P, names, rules)
          PROVE  /\ DOMAIN advice.answer = DOMAIN advice.candidates
                 /\ \A b \in DOMAIN advice.answer : /\ advice.answer[b].action \in RebalancingActions
                                                    /\ advice.answer[b].amount \in Nat
                                                    /\ advice.left[b] \in Nat
      BY <3>2, AnswerFacts DEF LeftOK
    <3> QED
      BY <3>1, <3>2, NothingOrAnswered
  <2>3. \A a \in Assets : holding[a] \in [worth : Nat, book : Nat, quote : Quotes]
    BY <2>1 DEF WorldOK
  <2>4. /\ listed \subseteq Assets /\ home \in [Assets -> Buckets \cup {Absent}]
        /\ config \in [emergency : Assets \cup {NoAsset}, excluded : BOOLEAN]
        /\ quiet \in BOOLEAN /\ rounds \in 0 .. 2 /\ changes \in 0 .. MaxChanges
    BY <2>1 DEF WorldOK, Configs
  <2>5. reading.at \in {"config", "positions", "buckets", "targets"}
    BY <2>1 DEF ReadingOK
  <2> QED
    BY <2>1, <2>2, <2>3, <2>4, <2>5 DEF PlanningTypeOK
<1> QED
  BY <1>1, PlanningInvariant, PTL

\* What rebalancing advises fits what the allocation page says of the bucket.
THEOREM AdviceIsConsistent == PlanSpec => []AdviceFitsDistribution
<1>1. PlanningInv => AdviceFitsDistribution
  <2> SUFFICES ASSUME PlanningInv, NEW b \in DOMAIN advice.answer
               PROVE  LET c == advice.candidates[b]
                          r == advice.answer[b]
                      IN  /\ r.action = "BUY" => c.buy_allowed /\ ~c.excluded
                          /\ (r.action = "REDUCE") = c.maximum_breached
                          /\ c.excluded => r.amount = 0
    BY DEF AdviceFitsDistribution
  <2>1. PICK cfg, P, names, rules : AnswerTo(cfg, P, names, rules)
    BY NothingOrAnswered
  <2>2. /\ CandidatesOK(advice.candidates, advice.whole) /\ advice.cash \in Nat
        /\ b \in DOMAIN advice.candidates
    BY <2>1, AnswerFacts
  <2>3. advice.answer = Rebalancing(advice.candidates, advice.whole, advice.cash)
    BY <2>1 DEF AnswerTo
  <2> QED
    BY <2>2, <2>3, AnswerFits
<1> QED
  BY <1>1, PlanningInvariant, PTL

\* The healthy card is shown only where every bucket that takes part is on its
\* target and none has reached its maximum.
THEOREM HealthyIsHealthy == PlanSpec => []HealthyMeansOnTarget
<1>1. PlanningInv => HealthyMeansOnTarget
  <2> SUFFICES ASSUME PlanningInv, advice # NoAdvice,
                      Recommendations(advice.candidates, advice.answer)[1] = Healthy,
                      NEW b \in DOMAIN advice.candidates, ~advice.candidates[b].excluded
               PROVE  /\ advice.candidates[b].target # Absent =>
                            advice.candidates[b].target_status = "ON_TARGET"
                      /\ ~advice.candidates[b].maximum_breached
    BY DEF HealthyMeansOnTarget
  <2>1. PICK cfg, P, names, rules : AnswerTo(cfg, P, names, rules)
    BY NothingOrAnswered
  <2>2. CandidatesOK(advice.candidates, advice.whole) /\ advice.cash \in Nat
    BY <2>1, AnswerFacts
  <2>3. advice.answer = Rebalancing(advice.candidates, advice.whole, advice.cash)
    BY <2>1 DEF AnswerTo
  <2>4. CardType(advice.candidates[b], advice.answer[b]) = "none"
    BY <2>2, FirstCardIsMade
  <2> QED
    BY <2>2, <2>3, <2>4, NoCardOnTarget
<1> QED
  BY <1>1, PlanningInvariant, PTL

\* However the advice is followed, what is bought keeps a bucket within its
\* target and its maximum.
THEOREM BuysAreWithinLimits == PlanSpec => []BuysStayWithinLimits
<1>1. PlanningInv => BuysStayWithinLimits
  <2> SUFFICES ASSUME PlanningInv, Fresh, NEW b \in DOMAIN advice.answer,
                      advice.answer[b].action = "BUY", \A k \in Payers : home[k] # b
               PROVE  LET c == advice.candidates[b]
                          v == 100 * BucketValue(Positions(config), b)
                      IN  /\ v <= c.target * advice.whole + 50
                          /\ c.maximum # Absent => v <= c.maximum * advice.whole + 50
    BY DEF BuysStayWithinLimits
  <2>1. PICK cfg, P, names, rules : AnswerTo(cfg, P, names, rules) /\ LeftOK /\ StillSo(P)
    BY NothingOrAnswered
  <2> DEFINE c == advice.candidates[b]
             amount == advice.answer[b].amount
             whole == advice.whole
             value == BucketValue(Positions(config), b)
  <2>2. /\ CandidatesOK(advice.candidates, whole) /\ advice.cash \in Nat /\ whole \in Nat
        /\ b \in DOMAIN advice.candidates /\ amount \in Nat
    BY <2>1, AnswerFacts
  <2>3. advice.answer = Rebalancing(advice.candidates, whole, advice.cash)
    BY <2>1 DEF AnswerTo
  <2>4. amount <= Gap(c, whole) /\ amount <= Headroom(c, whole)
    BY <2>2, <2>3, AnswerFits
  <2>5. CandidateOK(c, whole)
    BY <2>2 DEF CandidatesOK
  <2>6. value <= c.value + Rounded(amount) - advice.left[b] /\ advice.left[b] \in Nat
    BY <2>1 DEF StillSo, LeftOK
  <2>7. value \in Nat
    <3>1. Valued(Positions(config))
      BY PositionsRead, PositionsValued DEF PlanningInv
    <3> QED
      BY <3>1, BucketChange
  <2> DEFINE low == c.target * whole
             high == c.maximum * whole
  <2>8. low \in Int /\ high \in Int /\ c.value \in Nat
    BY <2>2, <2>5 DEF CandidateOK, Percentages, Absent
  <2>9. amount <= low - 100 * c.value /\ (c.maximum # Absent => amount <= high - 100 * c.value)
    BY <2>4 DEF Gap, Headroom
  <2> HIDE DEF low, high, value, c, amount
  <2>10. Rounded(amount) \in Int /\ 100 * Rounded(amount) <= amount + 50
    BY <2>2 DEF Rounded
  <2>11. value <= c.value + Rounded(amount)
    BY <2>6, <2>7, <2>8, <2>10
  <2>12. 100 * value <= low + 50
    BY <2>2, <2>7, <2>8, <2>9, <2>10, <2>11
  <2>13. c.maximum # Absent => 100 * value <= high + 50
    BY <2>2, <2>7, <2>8, <2>9, <2>10, <2>11
  <2> QED
    BY <2>12, <2>13 DEF low, high, value, c
<1> QED
  BY <1>1, PlanningInvariant, PTL

\* Without candidates there are no shares.
LEMMA NoShares == ASSUME NEW C, DOMAIN C = {} PROVE ShareOf(C) = 0
<1> DEFINE D == DOMAIN C
           Eq(g) == g = [s \in SUBSET D |->
                           IF s = {} THEN 0
                           ELSE (IF C[CHOOSE x \in s : TRUE].excluded THEN 0
                                 ELSE C[CHOOSE x \in s : TRUE].value)
                                  + g[s \ {CHOOSE x \in s : TRUE}]]
           iter == CHOOSE g : Eq(g)
           zero == [s \in SUBSET D |-> 0]
<1>1. ShareOf(C) = iter[D]
  BY DEF ShareOf, MapThenSumSet, MapThenFoldSet
<1>2. \A s \in SUBSET D : s = {}
  OBVIOUS
<1>3. Eq(zero)
  BY <1>2
<1>4. Eq(iter)
  BY <1>3
<1>5. {} \in SUBSET D /\ D = {}
  OBVIOUS
<1> HIDE DEF D
<1>6. iter[{}] = 0
  <2> HIDE DEF iter
  <2> QED
    BY <1>4, <1>5
<1> QED
  BY <1>1, <1>5, <1>6

\* The buckets that take part never have more than the whole.
THEOREM SharesAreOfOneWhole == PlanSpec => []SharesWithinWhole
<1>1. PlanningInv => SharesWithinWhole
  <2> SUFFICES ASSUME PlanningInv PROVE ShareOf(advice.candidates) <= advice.whole
    BY DEF SharesWithinWhole, ShareOf
  <2>1. CASE advice = NoAdvice
    <3>1. advice.whole = 0 /\ DOMAIN advice.candidates = {}
      BY <2>1 DEF NoAdvice
    <3>2. ShareOf(advice.candidates) = 0
      BY <3>1, NoShares
    <3> QED
      BY <3>1, <3>2
  <2>2. ASSUME NEW cfg, NEW P, NEW names, NEW rules, AnswerTo(cfg, P, names, rules)
        PROVE  ShareOf(advice.candidates) <= advice.whole
    BY <2>2, ShareSum DEF AnswerTo, Configs
  <2> QED
    BY <2>1, <2>2, NothingOrAnswered
<1> QED
  BY <1>1, PlanningInvariant, PTL

\* What a bucket is given depends on what comes before it and on nothing else.
THEOREM SplitFollowsPriority == PlanSpec => []SplitIsByPriority
<1>1. PlanningInv => SplitIsByPriority
  <2> SUFFICES ASSUME PlanningInv, NEW b \in Buyable(advice.candidates)
               PROVE  LET C == Competing(advice.candidates)
                          before == {e \in DOMAIN C : C[e].priority < C[b].priority
                                        \/ (C[e].priority = C[b].priority /\ C[e].name < C[b].name)}
                      IN  advice.answer[b].amount =
                             Larger(0, Smaller(Capacity(C[b], advice.whole),
                                               100 * advice.cash - WantedBy(C, advice.whole, before)))
    BY DEF SplitIsByPriority, Competing, WantedBy
  <2> DEFINE A == advice.candidates
             C == Competing(A)
             whole == advice.whole
             cash == advice.cash
             before == {e \in DOMAIN C : C[e].priority < C[b].priority
                           \/ (C[e].priority = C[b].priority /\ C[e].name < C[b].name)}
  <2>1. b \in DOMAIN A
    BY DEF Buyable
  <2>2. PICK cfg, P, names, rules : AnswerTo(cfg, P, names, rules)
    BY <2>1, NothingOrAnswered
  <2>3. CandidatesOK(A, whole) /\ cash \in Nat
    BY <2>2, AnswerFacts
  <2>4. advice.answer = Rebalancing(A, whole, cash)
    BY <2>2 DEF AnswerTo
  <2>5. Ranked(C, whole) /\ DOMAIN C = Buyable(A)
    BY <2>3, CompetingRanked
  <2>6. before = EarlierIn(C, DOMAIN C, b)
    BY DEF EarlierIn, Ahead
  <2> HIDE DEF before
  <2> DEFINE to == Shared(C, whole, 100 * cash, Open(C, whole)).to
  <2>7. advice.answer[b].amount = to[b]
    <3> DEFINE R == advice.answer
    <3>1. R = Rebalancing(A, whole, cash) /\ b \in Buyable(A)
      BY <2>4
    <3> HIDE DEF A, whole, cash, R
    <3>2. R[b] = [action |-> BuySideAction(A[b], whole, to[b]), amount |-> to[b],
                  status |-> A[b].target_status]
      BY <2>3, <3>1, RebalancingFacts
    <3> HIDE DEF to
    <3>3. R[b].amount = to[b]
      BY <3>2
    <3> QED
      BY <3>3 DEF R
  <2> HIDE DEF C, A, whole, cash
  <2>8. 100 * cash \in Nat
    BY <2>3
  <2>9. to[b] = Given(C, whole, 100 * cash, DOMAIN C, b)
    BY <2>5, <2>8, GivenInAll DEF A
  <2>10. before \subseteq DOMAIN C
    BY DEF before
  <2>11. WantedBy(C, whole, before) = Amount(Room(C, whole), before)
    BY <2>5, <2>10, CapacitySum
  <2>12. to[b] = Larger(0, Smaller(Capacity(C[b], whole), 100 * cash - WantedBy(C, whole, before)))
    BY <2>6, <2>9, <2>11 DEF Given
  <2> QED
    BY <2>7, <2>12 DEF before, C, A, whole, cash
<1> QED
  BY <1>1, PlanningInvariant, PTL

\* What is shown of a split adds up, for any sum of cash.
THEOREM RoundedAmountsAddUp == PlanSpec => []RoundedSumsAgree
<1>1. PlanningInv => RoundedSumsAgree
  <2> SUFFICES ASSUME PlanningInv, NEW cash \in {advice.cash, 1, 10}
               PROVE  LET C     == advice.candidates
                          shown == InflowAnswer(C, advice.whole, cash)
                      IN  /\ ShownSum(C, shown) = shown.allocated
                          /\ shown.unallocated >= 0
                          /\ \A b \in DOMAIN C : shown.amounts[b] >= 0
    BY DEF RoundedSumsAgree, ShownSum
  <2>1. cash \in Nat /\ Ranked(advice.candidates, advice.whole)
    <3>1. CASE advice = NoAdvice
      <4>1. advice.cash = 0 /\ advice.whole = 0 /\ DOMAIN advice.candidates = {}
        BY <3>1 DEF NoAdvice
      <4>2. IsFiniteSet({})
        BY FS_EmptySet
      <4> QED
        BY <4>1, <4>2 DEF Ranked
    <3>2. ASSUME NEW cfg, NEW P, NEW names, NEW rules, AnswerTo(cfg, P, names, rules)
          PROVE  cash \in Nat /\ Ranked(advice.candidates, advice.whole)
      <4>1. CandidatesOK(advice.candidates, advice.whole) /\ advice.cash \in Nat
        BY <3>2, AnswerFacts
      <4> QED
        BY <4>1, CompetingRanked
    <3> QED
      BY <3>1, <3>2, NothingOrAnswered
  <2> QED
    BY <2>1, InflowFacts
<1> QED
  BY <1>1, PlanningInvariant, PTL

\* A strategy that is VALID, and not kept from it, puts all the cash to use.
THEOREM ValidMeansAllIsUsed == PlanSpec => []ValidStrategyUsesAllCash
<1>1. PlanningInv => ValidStrategyUsesAllCash
  <2> DEFINE A == advice.candidates
             open == {b \in DOMAIN A : ~A[b].excluded /\ A[b].target # Absent}
  <2> SUFFICES ASSUME PlanningInv, advice.strategy = "VALID",
                      \A b \in open : A[b].allow /\ (A[b].maximum # Absent => A[b].target <= A[b].maximum),
                      Fresh, \A k \in CashAssets : home[k] \notin open
               PROVE  Bought(A, advice.answer) = 100 * advice.cash
    BY DEF ValidStrategyUsesAllCash, Bought
  <2>1. advice # NoAdvice
    BY DEF NoAdvice
  <2>2. PICK cfg, P, names, rules : AnswerTo(cfg, P, names, rules) /\ StillSo(P)
    BY <2>1 DEF PlanningInv, AdviceOK
  <2>3. /\ cfg.excluded \in BOOLEAN /\ PositionsOK(cfg, P) /\ NamesOK(names) /\ RulesOK(rules)
        /\ DOMAIN rules \subseteq DOMAIN names
        /\ StrategySeen(cfg, P, rules) = "VALID"
        /\ A = Candidates(cfg, P, names, rules)
    BY <2>2 DEF AnswerTo, Configs
  <2>4. \A a \in DOMAIN P : P[a].cash => P[a].bucket \notin open
    BY <2>2, <2>3 DEF StillSo, PositionsOK
  <2> DEFINE whole == Denominator(P, cfg.excluded)
  <2>5. /\ open \subseteq DOMAIN A
        /\ \A b \in DOMAIN A : b \in open <=> (~A[b].excluded /\ A[b].target # Absent)
    OBVIOUS
  <2>6. advice.cash = Cash(P) /\ advice.answer = Rebalancing(A, whole, Cash(P))
    BY <2>2 DEF AnswerTo
  <2> HIDE DEF open, A
  <2>7. \A b \in open : A[b].allow /\ (A[b].maximum # Absent => A[b].target <= A[b].maximum)
    OBVIOUS
  <2>8. Bought(A, Rebalancing(A, whole, Cash(P))) = 100 * Cash(P)
    BY <2>3, <2>4, <2>5, <2>7, ValidUsesAll
  <2> QED
    BY <2>6, <2>8 DEF A
<1> QED
  BY <1>1, PlanningInvariant, PTL
=============================================================================
