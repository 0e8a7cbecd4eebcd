--------------------------- MODULE SettlingProofs ---------------------------
(***************************************************************************)
(* Why following the advice in a quiet world comes to an end.               *)
(*                                                                          *)
(* First of the engine alone: what one answer, followed to the end, leaves  *)
(* for the next one to ask.  An amount is rounded to a unit when it is      *)
(* shown, so each bucket ends up to half a unit off, and the halves of      *)
(* several buckets may meet in one.  Then of the specification: in a quiet  *)
(* world the next answer is given to what the last one, as far as it has    *)
(* been followed, makes of its own candidates.                              *)
(***************************************************************************)
EXTENDS PlanningProofs

-----------------------------------------------------------------------------
(* One answer and the next. *)

\* What the buckets ahead of b can take of the cash.
Demand(C, whole, b) ==
    [e \in DOMAIN C |-> IF ~C[e].maximum_breached /\ Ahead(C[e], C[b])
                        THEN Capacity(C[e], whole) ELSE 0]

\* The cash that bucket amounts h hand out.
Handouts(C, h) == [b \in DOMAIN C |-> IF C[b].maximum_breached THEN 0 ELSE h[b]]

\* The amounts h are the answer to candidates C.
Advised(C, whole, cash, h) ==
    /\ CandidatesOK(C, whole) /\ cash \in Nat /\ h \in [DOMAIN C -> Nat]
    /\ \A b \in DOMAIN C :
           h[b] = IF C[b].maximum_breached THEN RequiredReduction(C[b], whole)
                  ELSE Larger(0, Smaller(Capacity(C[b], whole),
                                         100 * cash - Amount(Demand(C, whole, b), DOMAIN C)))
    /\ Amount(Handouts(C, h), DOMAIN C) <= 100 * cash

\* What has been sold comes to the cash, and what has been bought goes from it.
Net(C, x) == [b \in DOMAIN C |-> IF C[b].maximum_breached THEN x[b] ELSE -x[b]]

\* A bucket with a target or a maximum.
Limited(c) == c.target # Absent \/ c.maximum # Absent

\* Two candidates for one bucket that differ only in what lies in it.
Alike(c, d) ==
    /\ d.target = c.target /\ d.maximum = c.maximum /\ d.allow = c.allow
    /\ d.priority = c.priority /\ d.name = c.name /\ d.excluded = c.excluded

\* Of the amounts h units x have been followed, and that makes E of C.
Carried(C, E, whole, h, x) ==
    /\ DOMAIN E = DOMAIN C /\ x \in [DOMAIN C -> Nat]
    /\ \A b \in DOMAIN C :
           /\ Alike(C[b], E[b]) /\ x[b] <= Rounded(h[b])
           /\ Limited(C[b]) => E[b].value = C[b].value - Net(C, x)[b]

\* They have been followed to the end: T are the buckets that can be bought
\* into, Q those that can be sold from, and next is the cash.
ToTheEnd(C, h, x, next, T, Q) ==
    \A b \in DOMAIN C : x[b] < Rounded(h[b]) =>
        IF C[b].maximum_breached THEN b \notin Q ELSE b \notin T \/ next = 0

\* A bucket that is bought up to its maximum.
Roomy(c, whole) ==
    /\ ~c.excluded /\ c.allow /\ whole > 0
    /\ c.target # Absent /\ c.maximum # Absent /\ c.maximum * whole <= c.target * whole

\* After one answer: the buckets of L, which are over their maximum, are so by
\* no more than half a unit, and a bucket of T that can still take more than
\* that comes after those that are half a unit over, or there is no cash.
Calm(C, whole, cash, h, T, L) ==
    /\ \A e \in L : h[e] <= 50 /\ (h[e] = 50 => Roomy(C[e], whole))
    /\ \A b \in T \cap DOMAIN C : ~C[b].maximum_breached =>
           \/ Capacity(C[b], whole) <= 50
           \/ cash = 0 /\ Capacity(C[b], whole) < 50 * Cardinality(DOMAIN C)
           \/ \A e \in L : h[e] = 50 => Ahead(C[e], C[b])

\* After two: nothing is asked but what rounding makes of it.
Settled(C, h, T, L) ==
    /\ \A e \in L : h[e] <= 50
    /\ \A b \in T \cap DOMAIN C : ~C[b].maximum_breached =>
           h[b] <= 50 \/ h[b] < 50 * Cardinality(DOMAIN C)

-----------------------------------------------------------------------------
(* Rounding. *)

\* Half a unit up.
LEMMA RoundedFacts ==
    ASSUME NEW a \in Nat
    PROVE  /\ Rounded(a) \in Nat
           /\ 100 * Rounded(a) <= a + 50 /\ a <= 100 * Rounded(a) + 49
           /\ Rounded(a) = 0 <=> a < 50
<1> QED
  BY DEF Rounded

\* No value of v but that at b exceeds the half.
AtMostHalf(v, b) == \A x \in DOMAIN v : x # b => v[x] <= 50

\* The halves of several buckets meet in one.
LEMMA AmountHalves ==
    ASSUME NEW S, IsFiniteSet(S), NEW b \in S, NEW v \in [S -> Int], AtMostHalf(v, b)
    PROVE  /\ Amount(v, S) \in Int /\ Cardinality(S) \in Nat \ {0}
           /\ Amount(v, S) <= v[b] + 50 * (Cardinality(S) - 1)
<1> DEFINE Good(s) == Amount(v, s) <= 50 * Cardinality(s)
           bad == {s \in SUBSET (S \ {b}) : ~Good(s)}
<1>1. ASSUME NEW s \in SUBSET S
      PROVE  IsFiniteSet(s) /\ Cardinality(s) \in Nat /\ Amount(v, s) \in Int
  <2>1. IsFiniteSet(s)
    BY FS_Subset
  <2>2. s \subseteq DOMAIN v /\ \A x \in s : v[x] \in Int
    OBVIOUS
  <2> QED
    BY <2>1, <2>2, FS_CardinalityType, AmountInt
<1>2. ASSUME NEW s \in SUBSET S, NEW t \in S, t \notin s
      PROVE  /\ Amount(v, s \cup {t}) = Amount(v, s) + v[t]
             /\ Cardinality(s \cup {t}) = Cardinality(s) + 1
  <2>1. s \cup {t} \subseteq DOMAIN v /\ \A x \in s \cup {t} : v[x] \in Int
    BY <1>2
  <2>2. Amount(v, s \cup {t}) = Amount(v, s) + v[t]
    BY <1>1, <1>2, <2>1, AmountAdd
  <2>3. Cardinality(s \cup {t}) = Cardinality(s) + 1
    BY <1>1, <1>2, FS_AddElement
  <2> QED
    BY <2>2, <2>3
<1>3. bad = {}
  <2> SUFFICES ASSUME bad # {} PROVE FALSE
    OBVIOUS
  <2>1. IsFiniteSet(S \ {b}) /\ bad \subseteq SUBSET (S \ {b})
    BY FS_Subset
  <2>2. PICK s \in bad : \A r \in bad : r \subseteq s => r = s
    <3> HIDE DEF bad
    <3> QED
      BY <2>1, LeastSubset
  <2>3. s \subseteq S \ {b} /\ ~Good(s)
    BY <2>2
  <2>4. Good({})
    <3>1. Amount(v, {}) = 0 /\ Cardinality({}) = 0
      BY AmountEmpty, FS_EmptySet
    <3> QED
      BY <3>1
  <2>5. PICK t \in s : TRUE
    BY <2>3, <2>4
  <2> DEFINE r == s \ {t}
  <2>6. r \in SUBSET S /\ t \in S /\ t \notin r /\ r \cup {t} = s /\ t # b
    BY <2>3, <2>5
  <2>7. r \notin bad /\ r \subseteq S \ {b}
    BY <2>2, <2>3, <2>5
  <2>8. Good(r)
    BY <2>7
  <2> HIDE DEF r
  <2>9. Amount(v, s) = Amount(v, r) + v[t] /\ Cardinality(s) = Cardinality(r) + 1
    BY <1>2, <2>6
  <2>10. v[t] \in Int /\ v[t] <= 50
    BY <2>6 DEF AtMostHalf
  <2>11. Cardinality(r) \in Nat /\ Amount(v, r) \in Int
    BY <1>1, <2>6
  <2> QED
    BY <2>3, <2>8, <2>9, <2>10, <2>11
<1> DEFINE rest == S \ {b}
<1>4. rest \in SUBSET S /\ b \notin rest /\ rest \cup {b} = S /\ rest \notin bad
  BY <1>3
<1>5. Good(rest)
  BY <1>4
<1> HIDE DEF rest
<1>6. Amount(v, S) = Amount(v, rest) + v[b] /\ Cardinality(S) = Cardinality(rest) + 1
  BY <1>2, <1>4
<1>7. Cardinality(rest) \in Nat /\ Amount(v, rest) \in Int /\ v[b] \in Int
  BY <1>1, <1>4
<1> QED
  BY <1>5, <1>6, <1>7

-----------------------------------------------------------------------------
(* One bucket. *)

\* Where a purchase stops: the target or, if that is lower, the maximum.
Ceiling(c, whole) ==
    IF c.maximum = Absent THEN c.target * whole ELSE Smaller(c.target * whole, c.maximum * whole)

\* A bucket that cannot be bought into whatever lies in it.
Closed(c, whole) == c.excluded \/ whole = 0 \/ c.target = Absent \/ ~c.allow

\* What a bucket can take, in one line, and what it means to be over the maximum.
LEMMA CapacityForm ==
    ASSUME NEW c, NEW whole \in Nat, CandidateOK(c, whole)
    PROVE  /\ c.value \in Nat /\ c.target * whole \in Int /\ c.maximum * whole \in Int
           /\ Ceiling(c, whole) \in Int
           /\ Capacity(c, whole) = IF Closed(c, whole) THEN 0
                                   ELSE Larger(0, Ceiling(c, whole) - 100 * c.value)
           /\ RequiredReduction(c, whole) = Larger(100 * c.value - c.maximum * whole, 0)
           /\ c.maximum_breached <=> /\ ~c.excluded /\ c.maximum # Absent
                                     /\ IF whole = 0 THEN c.maximum = 0
                                        ELSE c.maximum * whole <= 100 * c.value
<1>1. /\ c.value \in Nat /\ c.target \in Int /\ c.maximum \in Int /\ c.excluded \in BOOLEAN /\ c.allow \in BOOLEAN
      /\ c.maximum # Absent => c.maximum >= 0
  BY DEF CandidateOK, Percentages, Absent
<1> DEFINE t == c.target * whole
           m == c.maximum * whole
<1>2. t \in Int /\ m \in Int
  BY <1>1
<1>3. Gap(c, whole) = t - 100 * c.value
  BY DEF Gap
<1>4. Headroom(c, whole) = IF c.maximum = Absent THEN t - 100 * c.value ELSE m - 100 * c.value
  BY DEF Headroom, Gap
<1>5. Ceiling(c, whole) = IF c.maximum = Absent THEN t ELSE Smaller(t, m)
  BY DEF Ceiling
<1>6. RequiredReduction(c, whole) = Larger(100 * c.value - m, 0)
  BY DEF RequiredReduction
<1>7. BreachesMaximum(c.value, whole, c.maximum)
         <=> c.maximum # Absent /\ IF whole = 0 THEN -c.maximum >= 0 ELSE 100 * c.value - m >= 0
  BY DEF BreachesMaximum, Excess
<1> HIDE DEF t, m
<1>8. Ceiling(c, whole) \in Int
  BY <1>2, <1>5 DEF Smaller
<1>9. Capacity(c, whole) = IF Closed(c, whole) THEN 0 ELSE Larger(0, Ceiling(c, whole) - 100 * c.value)
  <2>1. CASE Closed(c, whole)
    <3>1. CapacityStatus(c, whole) \notin {"TARGET_GAP", "MAXIMUM_LIMIT"}
      BY <2>1 DEF Closed, CapacityStatus
    <3> QED
      BY <2>1, <3>1 DEF Capacity
  <2>2. CASE ~Closed(c, whole)
    <3>1. ~c.excluded /\ ~(whole <= 0) /\ c.target # Absent /\ c.allow
      BY <2>2 DEF Closed
    <3>2. CASE Gap(c, whole) <= 0
      <4>1. CapacityStatus(c, whole) \notin {"TARGET_GAP", "MAXIMUM_LIMIT"}
        <5>1. Gap(c, whole) = 0 \/ Gap(c, whole) < 0
          BY <1>1, <1>2, <1>3, <3>2
        <5> QED
          BY <3>1, <5>1 DEF CapacityStatus
      <4>2. Capacity(c, whole) = 0
        BY <4>1 DEF Capacity
      <4>3. Larger(0, Ceiling(c, whole) - 100 * c.value) = 0
        BY <1>1, <1>2, <1>3, <1>5, <3>2 DEF Larger, Smaller
      <4> QED
        BY <2>2, <4>2, <4>3
    <3>3. CASE ~(Gap(c, whole) <= 0)
      <4>1. CapacityStatus(c, whole) \in {"TARGET_GAP", "MAXIMUM_LIMIT"}
        <5>1. ~(Gap(c, whole) = 0) /\ ~(Gap(c, whole) < 0)
          BY <1>1, <1>2, <1>3, <3>3
        <5> QED
          BY <3>1, <5>1 DEF CapacityStatus
      <4>2. Capacity(c, whole) = Larger(0, Smaller(Gap(c, whole), Headroom(c, whole)))
        BY <4>1 DEF Capacity
      <4>3. Smaller(Gap(c, whole), Headroom(c, whole)) = Ceiling(c, whole) - 100 * c.value
        BY <1>1, <1>2, <1>3, <1>4, <1>5 DEF Smaller
      <4> QED
        BY <2>2, <4>2, <4>3
    <3> QED
      BY <3>2, <3>3
  <2> QED
    BY <2>1, <2>2
<1>10. c.maximum_breached <=> ~c.excluded /\ BreachesMaximum(c.value, whole, c.maximum)
  BY DEF CandidateOK
<1>11. c.maximum_breached <=> /\ ~c.excluded /\ c.maximum # Absent
                              /\ IF whole = 0 THEN c.maximum = 0 ELSE m <= 100 * c.value
  <2>1. c.maximum # Absent => ((-c.maximum >= 0) <=> c.maximum = 0)
    BY <1>1
  <2>2. 100 * c.value - m >= 0 <=> m <= 100 * c.value
    BY <1>1, <1>2
  <2> QED
    BY <1>7, <1>10, <2>1, <2>2
<1> QED
  BY <1>1, <1>2, <1>6, <1>8, <1>9, <1>11 DEF t, m

\* What has been bought lessens what the bucket can take; if that takes it past
\* its maximum it is by no more than half a unit, and by half a unit only if it
\* was bought up to the maximum.
LEMMA AfterBuying ==
    ASSUME NEW c, NEW d, NEW whole \in Nat, CandidateOK(c, whole), CandidateOK(d, whole), Alike(c, d),
           ~c.maximum_breached, NEW h \in Nat, h <= Capacity(c, whole),
           NEW x \in Nat, x <= Rounded(h), d.value = c.value + x
    PROVE  /\ Capacity(d, whole) = Larger(0, Capacity(c, whole) - 100 * x)
           /\ d.maximum_breached =>
                 /\ Capacity(d, whole) = 0 /\ RequiredReduction(d, whole) <= 50
                 /\ RequiredReduction(d, whole) = 50 =>
                       Roomy(d, whole) /\ h = Capacity(c, whole) /\ h > 0
<1> DEFINE t == c.target * whole
           m == c.maximum * whole
           u == Ceiling(c, whole)
<1>1. /\ c.value \in Nat /\ t \in Int /\ m \in Int /\ u \in Int
      /\ Capacity(c, whole) = IF Closed(c, whole) THEN 0 ELSE Larger(0, u - 100 * c.value)
      /\ c.maximum_breached <=> /\ ~c.excluded /\ c.maximum # Absent
                                /\ IF whole = 0 THEN c.maximum = 0 ELSE m <= 100 * c.value
  BY CapacityForm
<1>2. /\ Ceiling(d, whole) = u /\ (Closed(d, whole) <=> Closed(c, whole))
      /\ d.maximum * whole = m /\ d.target * whole = t
  BY DEF Alike, Ceiling, Closed
<1>3. /\ Capacity(d, whole) = IF Closed(c, whole) THEN 0 ELSE Larger(0, u - 100 * d.value)
      /\ RequiredReduction(d, whole) = Larger(100 * d.value - m, 0)
      /\ d.maximum_breached <=> /\ ~d.excluded /\ d.maximum # Absent
                                /\ IF whole = 0 THEN d.maximum = 0 ELSE m <= 100 * d.value
  BY <1>2, CapacityForm
<1>4. d.maximum = c.maximum /\ d.excluded = c.excluded
  BY DEF Alike
<1>5. Rounded(h) \in Nat /\ 100 * Rounded(h) <= h + 50 /\ (Rounded(h) = 0 <=> h < 50)
  BY RoundedFacts
<1>6. u = IF c.maximum = Absent THEN t ELSE Smaller(t, m)
  BY DEF Ceiling
<1> DEFINE cap == Capacity(c, whole)
<1> HIDE DEF t, m, u
<1>7. cap \in Nat
  BY <1>1 DEF Larger
<1>8. Capacity(d, whole) = Larger(0, cap - 100 * x)
  <2>1. CASE Closed(c, whole)
    <3>1. h = 0 /\ x = 0
      BY <1>1, <1>5, <2>1
    <3> QED
      BY <1>1, <1>3, <2>1, <3>1 DEF Larger
  <2>2. CASE ~Closed(c, whole) /\ cap = 0
    <3>1. h = 0 /\ x = 0
      BY <1>5, <2>2
    <3> QED
      BY <1>1, <1>3, <2>2, <3>1 DEF Larger
  <2>3. CASE ~Closed(c, whole) /\ cap # 0
    BY <1>1, <1>3, <2>3 DEF Larger
  <2> QED
    BY <2>1, <2>2, <2>3
<1>9. ASSUME d.maximum_breached
      PROVE  /\ Capacity(d, whole) = 0 /\ RequiredReduction(d, whole) <= 50
             /\ RequiredReduction(d, whole) = 50 => Roomy(d, whole) /\ h = cap /\ h > 0
  <2>1. c.maximum # Absent /\ whole # 0 /\ m <= 100 * d.value /\ 100 * c.value < m
    BY <1>1, <1>3, <1>4, <1>9
  <2>2. x > 0 /\ h >= 50
    BY <1>1, <1>5, <2>1
  <2>3. ~Closed(c, whole) /\ cap = u - 100 * c.value /\ u = Smaller(t, m)
    BY <1>1, <1>6, <2>1, <2>2 DEF Larger
  <2>4. u <= m /\ (u = m => m <= t)
    BY <1>1, <2>3 DEF Smaller
  <2>5. RequiredReduction(d, whole) = 100 * c.value + 100 * x - m
    BY <1>1, <1>3, <2>1 DEF Larger
  <2>6. Capacity(d, whole) = 0
    BY <1>1, <1>3, <2>1, <2>3, <2>4 DEF Larger
  <2>7. RequiredReduction(d, whole) <= 50
    BY <1>1, <1>5, <2>3, <2>4, <2>5
  <2>8. RequiredReduction(d, whole) = 50 => u = m /\ h = cap
    BY <1>1, <1>5, <2>3, <2>4, <2>5
  <2>9. u = m => Roomy(d, whole)
    <3>1. ~d.excluded /\ d.allow /\ d.target # Absent /\ d.maximum # Absent
      BY <2>1, <2>3 DEF Closed, Alike
    <3>2. whole > 0
      BY <2>1
    <3>3. u = m => d.maximum * whole <= d.target * whole
      BY <1>2, <2>4
    <3> QED
      BY <3>1, <3>2, <3>3 DEF Roomy
  <2> QED
    BY <2>2, <2>6, <2>7, <2>8, <2>9
<1> QED
  BY <1>8, <1>9

\* What has been sold leaves a bucket that can take no more than half a unit
\* and that, if all has been sold, is over its maximum by less; one that was
\* half a unit over and can be bought up to its maximum takes as much again.
LEMMA AfterSelling ==
    ASSUME NEW c, NEW d, NEW whole \in Nat, CandidateOK(c, whole), CandidateOK(d, whole), Alike(c, d),
           c.maximum_breached, NEW x \in Nat, x <= Rounded(RequiredReduction(c, whole)),
           d.value = c.value - x
    PROVE  /\ RequiredReduction(c, whole) \in Nat
           /\ Capacity(d, whole) <= 50
           /\ x = Rounded(RequiredReduction(c, whole)) /\ d.maximum_breached =>
                 RequiredReduction(d, whole) < 50
           /\ RequiredReduction(c, whole) = 50 /\ x = 1 /\ Roomy(c, whole) =>
                 ~d.maximum_breached /\ Capacity(d, whole) = 50
<1> DEFINE t == c.target * whole
           m == c.maximum * whole
           u == Ceiling(c, whole)
           r == RequiredReduction(c, whole)
<1>1. /\ c.value \in Nat /\ t \in Int /\ m \in Int /\ u \in Int
      /\ r = Larger(100 * c.value - m, 0)
      /\ c.maximum_breached <=> /\ ~c.excluded /\ c.maximum # Absent
                                /\ IF whole = 0 THEN c.maximum = 0 ELSE m <= 100 * c.value
  BY CapacityForm
<1>2. /\ Ceiling(d, whole) = u /\ (Closed(d, whole) <=> Closed(c, whole))
      /\ d.maximum * whole = m /\ d.target * whole = t
  BY DEF Alike, Ceiling, Closed
<1>3. /\ d.value \in Nat
      /\ Capacity(d, whole) = IF Closed(c, whole) THEN 0 ELSE Larger(0, u - 100 * d.value)
      /\ RequiredReduction(d, whole) = Larger(100 * d.value - m, 0)
      /\ d.maximum_breached <=> /\ ~d.excluded /\ d.maximum # Absent
                                /\ IF whole = 0 THEN d.maximum = 0 ELSE m <= 100 * d.value
  BY <1>2, CapacityForm
<1>4. u = Smaller(t, m)
  BY <1>1 DEF Ceiling
<1>5. Closed(c, whole) <=> c.excluded \/ whole = 0 \/ c.target = Absent \/ ~c.allow
  BY DEF Closed
<1>6. Roomy(c, whole) => ~Closed(c, whole) /\ whole # 0 /\ m <= t
  BY DEF Roomy, Closed
<1> HIDE DEF t, m, u
<1>7. r \in Nat
  BY <1>1 DEF Larger
<1> HIDE DEF r
<1>8. Rounded(r) \in Nat /\ 100 * Rounded(r) <= r + 50 /\ r <= 100 * Rounded(r) + 49
  BY <1>7, RoundedFacts
<1>9. x <= Rounded(r)
  BY DEF r
<1>10. u <= m
  BY <1>1, <1>4 DEF Smaller
<1>11. Capacity(d, whole) <= 50
  <2>1. CASE Closed(c, whole)
    BY <1>3, <2>1
  <2>2. CASE ~Closed(c, whole)
    <3>1. m <= 100 * c.value
      BY <1>1, <1>5, <2>2
    <3> QED
      BY <1>1, <1>3, <1>8, <1>9, <1>10, <2>2, <3>1 DEF Larger
  <2> QED
    BY <2>1, <2>2
<1>12. ASSUME x = Rounded(r) PROVE RequiredReduction(d, whole) < 50
  <2>1. 100 * c.value - m <= r
    BY <1>1 DEF Larger
  <2>2. 100 * d.value - m = 100 * c.value - m - 100 * x
    BY <1>1
  <2>3. r <= 100 * x + 49
    BY <1>8, <1>12
  <2>4. 100 * d.value - m < 50
    BY <1>1, <1>7, <2>1, <2>2, <2>3
  <2> QED
    BY <1>1, <1>3, <2>4 DEF Larger
<1>13. ASSUME r = 50, x = 1, Roomy(c, whole)
       PROVE  ~d.maximum_breached /\ Capacity(d, whole) = 50
  <2>1. u = m /\ whole # 0 /\ ~Closed(c, whole)
    BY <1>1, <1>4, <1>6, <1>13 DEF Smaller
  <2>2. 100 * c.value - m = 50
    BY <1>1, <1>13 DEF Larger
  <2>3. m - 100 * d.value = 50
    BY <1>1, <1>13, <2>2
  <2> QED
    BY <1>1, <1>3, <2>1, <2>3 DEF Larger
<1> QED
  BY <1>7, <1>11, <1>12, <1>13 DEF r

-----------------------------------------------------------------------------
(* One answer. *)

\* Demand is a sum of natural numbers.
LEMMA DemandFacts ==
    ASSUME NEW C, NEW whole, CandidatesOK(C, whole), NEW b
    PROVE  /\ IsFiniteSet(DOMAIN C) /\ Demand(C, whole, b) \in [DOMAIN C -> Nat]
           /\ Demand(C, whole, b) \in [DOMAIN C -> Int]
           /\ Amount(Demand(C, whole, b), DOMAIN C) \in Nat
           /\ \A e \in DOMAIN C : Demand(C, whole, b)[e]
                 = IF ~C[e].maximum_breached /\ Ahead(C[e], C[b]) THEN Capacity(C[e], whole) ELSE 0
<1> DEFINE v == Demand(C, whole, b)
<1>1. IsFiniteSet(DOMAIN C) /\ \A e \in DOMAIN C : Capacity(C[e], whole) \in Nat
  BY CapacityFacts DEF CandidatesOK
<1>2. /\ v \in [DOMAIN C -> Nat]
      /\ \A e \in DOMAIN C : v[e] = IF ~C[e].maximum_breached /\ Ahead(C[e], C[b])
                                    THEN Capacity(C[e], whole) ELSE 0
  BY <1>1 DEF Demand
<1> HIDE DEF v
<1>3. Amount(v, DOMAIN C) \in Nat
  BY <1>1, <1>2, AmountNat
<1> QED
  BY <1>1, <1>2, <1>3 DEF v

\* The answer of the engine is one.
LEMMA AnswerAdvised ==
    ASSUME NEW C, NEW whole, CandidatesOK(C, whole), NEW cash \in Nat, NEW R, R = Rebalancing(C, whole, cash),
           NEW h, h = [b \in DOMAIN C |-> R[b].amount]
    PROVE  Advised(C, whole, cash, h)
<1> DEFINE B == Competing(C)
           H == Shared(B, whole, 100 * cash, Open(B, whole))
           to == H.to
           D == DOMAIN C
           S == DOMAIN B
<1>1. /\ Ranked(B, whole) /\ S = Buyable(C) /\ S \subseteq D /\ IsFiniteSet(D)
      /\ \A b \in S : B[b] = C[b]
  BY CompetingRanked DEF CandidatesOK
<1>2. \A b \in D : b \in S <=> ~C[b].maximum_breached
  BY <1>1 DEF Buyable
<1>3. /\ \A b \in S : R[b].amount = to[b] /\ to[b] \in Nat
      /\ \A b \in D \ S : R[b].amount = RequiredReduction(C[b], whole)
      /\ \A b \in D : R[b].amount \in Nat
  <2>1. ASSUME NEW b \in Buyable(C) PROVE R[b].amount = to[b] /\ to[b] \in Nat
    <3> DEFINE action == BuySideAction(C[b], whole, to[b])
    <3>1. Rebalancing(C, whole, cash)[b]
             = [action |-> action, amount |-> to[b], status |-> C[b].target_status]
      BY RebalancingFacts
    <3>2. to[b] \in Nat
      BY RebalancingFacts
    <3> HIDE DEF to, action
    <3> QED
      BY <3>1, <3>2
  <2>2. ASSUME NEW b \in DOMAIN C \ Buyable(C) PROVE R[b].amount = RequiredReduction(C[b], whole)
    <3>1. Rebalancing(C, whole, cash)[b]
             = [action |-> "REDUCE", amount |-> RequiredReduction(C[b], whole),
                status |-> "MAXIMUM_BREACHED"]
      BY RebalancingFacts
    <3> QED
      BY <3>1
  <2>3. \A b \in DOMAIN C : R[b].amount \in Nat
    BY RebalancingFacts
  <2> HIDE DEF to
  <2> QED
    BY <1>1, <2>1, <2>2, <2>3
<1>4. h \in [D -> Nat] /\ \A b \in D : h[b] = R[b].amount
  BY <1>3
<1>5. ASSUME NEW b \in S
      PROVE  h[b] = Larger(0, Smaller(Capacity(C[b], whole), 100 * cash - Amount(Demand(C, whole, b), D)))
  <2> DEFINE v == Demand(C, whole, b)
             w == Room(B, whole)
             T == EarlierIn(B, S, b)
  <2>1. 100 * cash \in Nat
    OBVIOUS
  <2>2. to[b] = Given(B, whole, 100 * cash, S, b)
    <3> HIDE DEF B
    <3> QED
      BY <1>1, <2>1, GivenInAll
  <2>3. Given(B, whole, 100 * cash, S, b)
           = Larger(0, Smaller(Capacity(B[b], whole), 100 * cash - Amount(w, T)))
    BY DEF Given
  <2>4. /\ T \subseteq D /\ T \subseteq S
        /\ \A e \in D : e \in T <=> ~C[e].maximum_breached /\ Ahead(C[e], C[b])
    BY <1>1, <1>2 DEF EarlierIn
  <2>5. T \subseteq DOMAIN w /\ \A e \in T : w[e] = Capacity(C[e], whole)
    BY <1>1, <2>4 DEF Room
  <2>6. /\ v \in [D -> Nat]
        /\ \A e \in D : v[e] = IF ~C[e].maximum_breached /\ Ahead(C[e], C[b])
                               THEN Capacity(C[e], whole) ELSE 0
    BY DemandFacts
  <2> HIDE DEF v, w, T
  <2>7. Amount(v, D) = Amount(v, T)
    <3>1. D \subseteq DOMAIN v /\ (\A x \in D : v[x] \in Int) /\ \A x \in D \ T : v[x] = 0
      BY <2>4, <2>6
    <3> QED
      BY <1>1, <2>4, <3>1, AmountRest
  <2>8. Amount(v, T) = Amount(w, T)
    <3>1. T \subseteq DOMAIN v /\ \A x \in T : v[x] = w[x]
      BY <2>4, <2>5, <2>6
    <3> QED
      BY <2>5, <3>1, AmountSame
  <2> HIDE DEF to
  <2>9. h[b] = to[b]
    BY <1>1, <1>3, <1>4
  <2> QED
    BY <1>1, <2>2, <2>3, <2>7, <2>8, <2>9 DEF v
<1>6. Amount(Handouts(C, h), D) <= 100 * cash
  <2> DEFINE f == Handouts(C, h)
  <2>1. /\ H.left \in 0 .. 100 * cash /\ DOMAIN to = S
        /\ Amount(to, S) = 100 * cash - H.left
    <3>1. 100 * cash \in Nat
      OBVIOUS
    <3> HIDE DEF B
    <3>2. Handed(B, whole, 100 * cash) = H
      BY <1>1, <3>1, HandedFacts
    <3> QED
      BY <1>1, <3>1, <3>2, HandedAddsUp
  <2>2. /\ DOMAIN f = D
        /\ \A b \in D : f[b] = IF C[b].maximum_breached THEN 0 ELSE h[b]
    BY DEF Handouts
  <2> HIDE DEF f, H, B
  <2>3. /\ \A b \in D : f[b] \in Int
        /\ \A b \in D \ S : f[b] = 0
        /\ \A b \in S : f[b] = to[b]
    BY <1>1, <1>2, <1>3, <1>4, <2>2
  <2>4. Amount(f, D) = Amount(f, S)
    BY <1>1, <2>2, <2>3, AmountRest
  <2>5. Amount(f, S) = Amount(to, S)
    <3>1. S \subseteq DOMAIN f
      BY <1>1, <2>2
    <3> QED
      BY <2>1, <2>3, <3>1, AmountSame
  <2> QED
    BY <2>1, <2>4, <2>5 DEF f
<1>7. \A b \in D \ S : h[b] = RequiredReduction(C[b], whole)
  BY <1>3, <1>4
<1> HIDE DEF S, to
<1> QED
  BY <1>2, <1>4, <1>5, <1>6, <1>7 DEF Advised

\* A bucket is given no more than it can take and no more than there is.
LEMMA AdvisedBounds ==
    ASSUME NEW C, NEW whole, NEW cash, NEW h, Advised(C, whole, cash, h),
           NEW b \in DOMAIN C, ~C[b].maximum_breached
    PROVE  /\ h[b] \in Nat /\ Capacity(C[b], whole) \in Nat
           /\ h[b] <= Capacity(C[b], whole) /\ h[b] <= 100 * cash
           /\ h[b] <= Larger(0, 100 * cash - Amount(Demand(C, whole, b), DOMAIN C))
           /\ h[b] < Capacity(C[b], whole) =>
                 h[b] = Larger(0, 100 * cash - Amount(Demand(C, whole, b), DOMAIN C))
<1> DEFINE a == Amount(Demand(C, whole, b), DOMAIN C)
           cap == Capacity(C[b], whole)
<1>1. a \in Nat
  BY DemandFacts DEF Advised
<1>2. cap \in Nat
  BY CapacityFacts DEF Advised, CandidatesOK
<1>3. h[b] = Larger(0, Smaller(cap, 100 * cash - a)) /\ cash \in Nat
  BY DEF Advised
<1> HIDE DEF a, cap
<1>4. /\ h[b] \in Nat /\ h[b] <= cap /\ h[b] <= 100 * cash /\ h[b] <= Larger(0, 100 * cash - a)
      /\ h[b] < cap => h[b] = Larger(0, 100 * cash - a)
  BY <1>1, <1>2, <1>3 DEF Larger, Smaller
<1> QED
  BY <1>2, <1>4 DEF a, cap

\* When a bucket is not given all it can take those after it are given nothing.
LEMMA NothingAfter ==
    ASSUME NEW C, NEW whole, NEW cash, NEW h, Advised(C, whole, cash, h),
           NEW b \in DOMAIN C, ~C[b].maximum_breached, h[b] < Capacity(C[b], whole),
           NEW e \in DOMAIN C, ~C[e].maximum_breached, Ahead(C[b], C[e])
    PROVE  h[e] = 0
<1> DEFINE D == DOMAIN C
           v == Demand(C, whole, b)
           w == Demand(C, whole, e)
           cap == Capacity(C[b], whole)
           u == [v EXCEPT ![b] = cap]
<1>1. CandidatesOK(C, whole) /\ cash \in Nat
  BY DEF Advised
<1>2. /\ IsFiniteSet(D) /\ v \in [D -> Int] /\ w \in [D -> Int] /\ w \in [D -> Nat]
      /\ Amount(v, D) \in Nat /\ Amount(w, D) \in Nat
      /\ \A i \in D : v[i] = IF ~C[i].maximum_breached /\ Ahead(C[i], C[b]) THEN Capacity(C[i], whole) ELSE 0
      /\ \A i \in D : w[i] = IF ~C[i].maximum_breached /\ Ahead(C[i], C[e]) THEN Capacity(C[i], whole) ELSE 0
  BY <1>1, DemandFacts
<1>3. cap \in Nat /\ h[b] = Larger(0, 100 * cash - Amount(v, D))
  BY AdvisedBounds
<1>4. \A i \in D : C[i].priority \in Int /\ C[i].name \in Int
  BY <1>1 DEF CandidatesOK, CandidateOK
<1>5. ~Ahead(C[b], C[b]) /\ \A i \in D : Ahead(C[i], C[b]) => Ahead(C[i], C[e])
  BY <1>4 DEF Ahead
<1>6. v[b] = 0 /\ w[b] = cap
  BY <1>2, <1>5
<1> HIDE DEF v, w, cap
<1>7. u \in [D -> Int] /\ u[b] = cap /\ \A i \in D : i # b => v[i] = u[i]
  BY <1>2, <1>3
<1> HIDE DEF u
<1>8. Amount(u, D) = Amount(v, D) + (u[b] - v[b])
  <2>1. /\ IsFiniteSet(D) /\ v \in [D -> Int] /\ u \in [D -> Int] /\ b \in D
        /\ \A i \in D : i # b => v[i] = u[i]
    BY <1>2, <1>7
  <2> HIDE DEF D
  <2> QED
    BY <2>1, AmountChange
<1>9. \A i \in D : u[i] <= w[i]
  <2> SUFFICES ASSUME NEW i \in D, i # b PROVE v[i] <= w[i]
    BY <1>3, <1>6, <1>7
  <2>1. w[i] \in Nat
    BY <1>2
  <2> QED
    BY <1>2, <1>5, <2>1
<1>10. Amount(u, D) <= Amount(w, D)
  BY <1>2, <1>7, <1>9, AmountLess
<1>11. 100 * cash - Amount(w, D) <= 0
  <2>1. h[b] < cap
    BY DEF cap
  <2>2. 100 * cash - Amount(v, D) < cap
    BY <1>1, <1>2, <1>3, <2>1 DEF Larger
  <2>3. Amount(u, D) = Amount(v, D) + cap
    BY <1>2, <1>3, <1>6, <1>7, <1>8
  <2> QED
    BY <1>1, <1>2, <1>3, <1>10, <2>2, <2>3
<1>12. h[e] = Larger(0, Smaller(Capacity(C[e], whole), 100 * cash - Amount(w, D)))
  BY DEF Advised, w
<1>13. Capacity(C[e], whole) \in Nat
  BY AdvisedBounds
<1> QED
  BY <1>1, <1>2, <1>11, <1>12, <1>13 DEF Larger, Smaller

-----------------------------------------------------------------------------
(* From one answer to the next. *)

\* What following an answer does to each bucket.
LEMMA CarriedFacts ==
    ASSUME NEW C, NEW E, NEW whole, NEW cash, NEW h, NEW x,
           Advised(C, whole, cash, h), CandidatesOK(E, whole), Carried(C, E, whole, h, x), NEW b \in DOMAIN C
    PROVE  /\ Capacity(C[b], whole) \in Nat /\ Capacity(E[b], whole) \in Nat
           /\ h[b] \in Nat /\ x[b] \in Nat /\ x[b] <= Rounded(h[b])
           /\ ~C[b].maximum_breached =>
                 /\ h[b] <= Capacity(C[b], whole)
                 /\ Capacity(E[b], whole) = Larger(0, Capacity(C[b], whole) - 100 * x[b])
                 /\ E[b].maximum_breached =>
                       /\ Capacity(E[b], whole) = 0 /\ RequiredReduction(E[b], whole) <= 50
                       /\ RequiredReduction(E[b], whole) = 50 =>
                             Roomy(E[b], whole) /\ h[b] = Capacity(C[b], whole) /\ h[b] > 0
           /\ C[b].maximum_breached =>
                 /\ Capacity(E[b], whole) <= 50
                 /\ x[b] = Rounded(h[b]) /\ E[b].maximum_breached => RequiredReduction(E[b], whole) < 50
                 /\ h[b] = 50 /\ x[b] = 1 /\ Roomy(C[b], whole) =>
                       ~E[b].maximum_breached /\ Capacity(E[b], whole) = 50
<1> DEFINE c == C[b]
           d == E[b]
           n == h[b]
           y == x[b]
<1>1. /\ whole \in Nat /\ CandidateOK(c, whole) /\ CandidateOK(d, whole) /\ Alike(c, d)
      /\ n \in Nat /\ y \in Nat /\ y <= Rounded(n)
      /\ c.maximum_breached => n = RequiredReduction(c, whole)
      /\ ~c.maximum_breached => n <= Capacity(c, whole)
  <2>1. whole \in Nat /\ CandidateOK(c, whole)
    BY DEF Advised, CandidatesOK
  <2>2. CandidateOK(d, whole) /\ Alike(c, d) /\ y <= Rounded(n)
    BY DEF CandidatesOK, Carried
  <2>3. n \in Nat /\ y \in Nat
    BY DEF Advised, Carried
  <2>4. c.maximum_breached => n = RequiredReduction(c, whole)
    BY DEF Advised
  <2>5. ~c.maximum_breached => n <= Capacity(c, whole)
    BY AdvisedBounds
  <2> QED
    BY <2>1, <2>2, <2>3, <2>4, <2>5
<1>2. Limited(c) => d.value = IF c.maximum_breached THEN c.value - y ELSE c.value + y
  <2>1. Net(C, x)[b] = IF c.maximum_breached THEN y ELSE -y
    BY DEF Net
  <2>2. Limited(c) => d.value = c.value - Net(C, x)[b]
    BY DEF Carried
  <2>3. c.value \in Nat
    BY <1>1 DEF CandidateOK
  <2> HIDE DEF c, d, y
  <2> QED
    BY <1>1, <2>1, <2>2, <2>3
<1> HIDE DEF c, d, n, y
<1>3. Capacity(c, whole) \in Nat /\ Capacity(d, whole) \in Nat
  BY <1>1, CapacityFacts
<1>4. ASSUME ~c.maximum_breached
      PROVE  /\ Capacity(d, whole) = Larger(0, Capacity(c, whole) - 100 * y)
             /\ d.maximum_breached =>
                   /\ Capacity(d, whole) = 0 /\ RequiredReduction(d, whole) <= 50
                   /\ RequiredReduction(d, whole) = 50 =>
                         Roomy(d, whole) /\ n = Capacity(c, whole) /\ n > 0
  <2>1. CASE Limited(c)
    <3>1. d.value = c.value + y /\ n <= Capacity(c, whole)
      BY <1>1, <1>2, <1>4, <2>1
    <3> QED
      BY <1>1, <1>4, <3>1, AfterBuying
  <2>2. CASE ~Limited(c)
    <3>1. c.target = Absent /\ d.target = Absent /\ d.maximum = Absent
      BY <1>1, <2>2 DEF Limited, Alike
    <3>2. Closed(c, whole) /\ Closed(d, whole)
      BY <3>1 DEF Closed
    <3>3. Capacity(c, whole) = 0 /\ Capacity(d, whole) = 0 /\ ~d.maximum_breached
      BY <1>1, <3>1, <3>2, CapacityForm
    <3> QED
      BY <1>1, <3>3 DEF Larger
  <2> QED
    BY <2>1, <2>2
<1>5. ASSUME c.maximum_breached
      PROVE  /\ Capacity(d, whole) <= 50
             /\ y = Rounded(n) /\ d.maximum_breached => RequiredReduction(d, whole) < 50
             /\ n = 50 /\ y = 1 /\ Roomy(c, whole) => ~d.maximum_breached /\ Capacity(d, whole) = 50
  <2>1. Limited(c)
    BY <1>1, <1>5, CapacityForm DEF Limited
  <2>2. d.value = c.value - y /\ n = RequiredReduction(c, whole)
    BY <1>1, <1>2, <1>5, <2>1
  <2> QED
    BY <1>1, <1>5, <2>2, AfterSelling
<1> QED
  BY <1>1, <1>3, <1>4, <1>5 DEF c, d, n, y

\* Buckets that are alike come in the same order.
LEMMA SameOrder ==
    ASSUME NEW C, NEW E, NEW whole, NEW h, NEW x, Carried(C, E, whole, h, x),
           NEW b \in DOMAIN C, NEW e \in DOMAIN C
    PROVE  Ahead(E[b], E[e]) <=> Ahead(C[b], C[e])
<1> QED
  BY DEF Carried, Alike, Ahead

\* When all cash has been spent no bucket that could be bought into lacks as
\* much as half a unit for each bucket there is.
LEMMA AllIsSpent ==
    ASSUME NEW C, NEW whole, NEW cash, NEW h, Advised(C, whole, cash, h),
           NEW x \in [DOMAIN C -> Nat], \A e \in DOMAIN C : x[e] <= Rounded(h[e]),
           cash + Amount(Net(C, x), DOMAIN C) = 0,
           NEW b \in DOMAIN C, ~C[b].maximum_breached
    PROVE  /\ Cardinality(DOMAIN C) \in Nat \ {0}
           /\ h[b] - 100 * x[b] < 50 * Cardinality(DOMAIN C)
<1> DEFINE D == DOMAIN C
           f == Handouts(C, h)
           net == Net(C, x)
           p == [e \in D |-> IF C[e].maximum_breached THEN x[e] ELSE 0]
           y == [e \in D |-> IF C[e].maximum_breached THEN 0 ELSE x[e]]
           z == [e \in D |-> IF C[e].maximum_breached THEN 0 ELSE 100 * x[e]]
           v == [e \in D |-> IF C[e].maximum_breached THEN 0 ELSE 100 * x[e] - h[e]]
<1>1. IsFiniteSet(D) /\ cash \in Nat /\ h \in [D -> Nat] /\ Amount(f, D) <= 100 * cash
  BY DEF Advised, CandidatesOK
<1>2. /\ f \in [D -> Int] /\ net \in [D -> Int] /\ p \in [D -> Nat] /\ p \in [D -> Int] /\ y \in [D -> Int]
      /\ z \in [D -> Int] /\ v \in [D -> Int]
  BY <1>1 DEF Handouts, Net
<1>3. ASSUME NEW e \in D
      PROVE  /\ z[e] = 100 * y[e] /\ p[e] = y[e] + net[e] /\ z[e] = f[e] + v[e]
             /\ v[e] <= 50
  <2>1. f[e] = IF C[e].maximum_breached THEN 0 ELSE h[e]
    BY DEF Handouts
  <2>2. net[e] = IF C[e].maximum_breached THEN x[e] ELSE -x[e]
    BY DEF Net
  <2>3. x[e] \in Nat /\ h[e] \in Nat /\ x[e] <= Rounded(h[e])
    BY <1>1
  <2>4. Rounded(h[e]) \in Nat /\ 100 * Rounded(h[e]) <= h[e] + 50
    BY <2>3, RoundedFacts
  <2> HIDE DEF f, net
  <2> QED
    BY <2>1, <2>2, <2>3, <2>4
<1>4. v[b] = 100 * x[b] - h[b] /\ h[b] \in Nat /\ x[b] \in Nat
  BY <1>1
<1>5. Amount(net, D) + cash = 0
  BY <1>1, <1>2, AmountInt DEF net
<1> HIDE DEF f, net, p, y, z, v
<1>6. /\ Amount(y, D) \in Int /\ Amount(net, D) \in Int /\ Amount(p, D) = Amount(y, D) + Amount(net, D)
  <2>1. D \subseteq DOMAIN p /\ \A e \in D : p[e] = y[e] + net[e]
    BY <1>2, <1>3
  <2> QED
    BY <1>1, <1>2, <2>1, AmountPlus
<1>7. Amount(z, D) = 100 * Amount(y, D)
  <2>1. PICK hundred \in Int : hundred = 100
    OBVIOUS
  <2>2. D \subseteq DOMAIN z /\ \A e \in D : z[e] = hundred * y[e]
    BY <1>2, <1>3, <2>1
  <2>3. Amount(z, D) = hundred * Amount(y, D)
    BY <1>1, <1>2, <2>2, AmountTimes
  <2> QED
    BY <2>1, <2>3
<1>8. /\ Amount(v, D) \in Int /\ Amount(f, D) \in Int
      /\ Amount(z, D) = Amount(f, D) + Amount(v, D)
  <2>1. D \subseteq DOMAIN z /\ \A e \in D : z[e] = f[e] + v[e]
    BY <1>2, <1>3
  <2> QED
    BY <1>1, <1>2, <2>1, AmountPlus
<1>9. Amount(p, D) \in Nat
  <2>1. D \subseteq DOMAIN p /\ \A e \in D : p[e] \in Nat
    BY <1>2
  <2> QED
    BY <1>1, <2>1, AmountNat
<1>10. Amount(v, D) >= 0
  BY <1>1, <1>5, <1>6, <1>7, <1>8, <1>9
<1> DEFINE n == Cardinality(D)
<1>11. Amount(v, D) <= v[b] + 50 * (n - 1) /\ n \in Nat \ {0}
  <2>1. AtMostHalf(v, b)
    BY <1>2, <1>3 DEF AtMostHalf
  <2> QED
    BY <1>1, <1>2, <2>1, AmountHalves
<1> QED
  BY <1>2, <1>4, <1>8, <1>10, <1>11

\* One answer and, when it has been followed to the end, the next.
Round(C, E, whole, cash, next, h, g, x, T, Q) ==
    /\ Advised(C, whole, cash, h) /\ Advised(E, whole, next, g)
    /\ Carried(C, E, whole, h, x) /\ ToTheEnd(C, h, x, next, T, Q)
    /\ next = cash + Amount(Net(C, x), DOMAIN C)

\* After one answer all is calm.
LEMMA OneRound ==
    ASSUME NEW C, NEW E, NEW whole, NEW cash, NEW next, NEW h, NEW g, NEW x, NEW T, NEW Q,
           Round(C, E, whole, cash, next, h, g, x, T, Q),
           NEW L, L \subseteq DOMAIN E, \A e \in L : E[e].maximum_breached /\ e \in Q
    PROVE  Calm(E, whole, next, g, T, L)
<1>1. /\ Advised(C, whole, cash, h) /\ Advised(E, whole, next, g) /\ CandidatesOK(E, whole)
      /\ CandidatesOK(C, whole) /\ Carried(C, E, whole, h, x) /\ DOMAIN E = DOMAIN C
      /\ next = cash + Amount(Net(C, x), DOMAIN C) /\ cash \in Nat /\ next \in Nat
  BY DEF Round, Advised, Carried
<1>2. ASSUME NEW e \in DOMAIN C, E[e].maximum_breached PROVE g[e] = RequiredReduction(E[e], whole) /\ g[e] \in Nat
  BY <1>1, <1>2 DEF Advised
<1>3. ASSUME NEW e \in L
      PROVE  /\ e \in DOMAIN C /\ g[e] <= 50 /\ (g[e] = 50 => Roomy(E[e], whole))
             /\ g[e] = 50 => ~C[e].maximum_breached /\ h[e] > 0
  <2>1. e \in DOMAIN C /\ E[e].maximum_breached /\ e \in Q
    BY <1>1
  <2>2. g[e] = RequiredReduction(E[e], whole) /\ g[e] \in Nat
    BY <1>2, <2>1
  <2>3. CASE C[e].maximum_breached
    <3>1. x[e] <= Rounded(h[e]) /\ h[e] \in Nat /\ x[e] \in Nat
          /\ (x[e] = Rounded(h[e]) /\ E[e].maximum_breached => RequiredReduction(E[e], whole) < 50)
      BY <1>1, <2>1, <2>3, CarriedFacts
    <3>2. ~(x[e] < Rounded(h[e]))
      BY <2>1, <2>3 DEF Round, ToTheEnd
    <3>3. Rounded(h[e]) \in Nat
      BY <3>1, RoundedFacts
    <3>4. x[e] = Rounded(h[e])
      BY <3>1, <3>2, <3>3
    <3>5. RequiredReduction(E[e], whole) < 50
      BY <2>1, <3>1, <3>4
    <3> QED
      BY <2>1, <2>2, <3>5
  <2>4. CASE ~C[e].maximum_breached
    <3>1. /\ RequiredReduction(E[e], whole) <= 50
          /\ RequiredReduction(E[e], whole) = 50 => Roomy(E[e], whole) /\ h[e] > 0
      BY <1>1, <2>1, <2>4, CarriedFacts
    <3> QED
      BY <2>1, <2>2, <2>4, <3>1
  <2> QED
    BY <2>3, <2>4
<1>4. ASSUME NEW b \in T \cap DOMAIN E, ~E[b].maximum_breached
      PROVE  \/ Capacity(E[b], whole) <= 50
             \/ next = 0 /\ Capacity(E[b], whole) < 50 * Cardinality(DOMAIN E)
             \/ \A e \in L : g[e] = 50 => Ahead(E[e], E[b])
  <2>1. b \in DOMAIN C /\ b \in T
    BY <1>1
  <2> DEFINE cap == Capacity(C[b], whole)
             left == Capacity(E[b], whole)
             n == h[b]
             y == x[b]
  <2>2. CASE C[b].maximum_breached
    BY <1>1, <2>1, <2>2, CarriedFacts
  <2>3. CASE ~C[b].maximum_breached
    <3>1. /\ cap \in Nat /\ left \in Nat /\ n \in Nat /\ y \in Nat /\ y <= Rounded(n)
          /\ n <= cap /\ left = Larger(0, cap - 100 * y)
      BY <1>1, <2>1, <2>3, CarriedFacts
    <3>2. CASE n < cap
      <4>1. ASSUME NEW e \in L, g[e] = 50 PROVE Ahead(E[e], E[b])
        <5>1. e \in DOMAIN C /\ ~C[e].maximum_breached /\ h[e] > 0 /\ e # b
          BY <1>3, <1>4, <4>1
        <5>2. ~Ahead(C[b], C[e])
          <6>1. ASSUME Ahead(C[b], C[e]) PROVE h[e] = 0
            BY <1>1, <2>1, <2>3, <3>2, <5>1, <6>1, NothingAfter
          <6> QED
            BY <5>1, <6>1
        <5>3. /\ C[b].priority \in Int /\ C[b].name \in Int /\ C[e].priority \in Int /\ C[e].name \in Int
              /\ C[b].name # C[e].name
          BY <1>1, <2>1, <5>1 DEF CandidatesOK, CandidateOK
        <5>4. Ahead(C[e], C[b])
          BY <5>2, <5>3 DEF Ahead
        <5> QED
          BY <1>1, <2>1, <5>1, <5>4, SameOrder
      <4> QED
        BY <4>1
    <3>3. CASE n = cap /\ y = Rounded(n)
      <4>1. n <= 100 * Rounded(n) + 49 /\ Rounded(n) \in Nat
        BY <3>1, RoundedFacts
      <4> HIDE DEF cap, left, n, y
      <4>2. left <= 50
        BY <3>1, <3>3, <4>1 DEF Larger
      <4> QED
        BY <4>2 DEF left
    <3>4. CASE n = cap /\ y # Rounded(n)
      <4>1. Rounded(n) \in Nat
        BY <3>1, RoundedFacts
      <4>2. y < Rounded(n)
        BY <3>1, <3>4, <4>1
      <4>3. next = 0
        BY <2>1, <2>3, <4>2 DEF Round, ToTheEnd
      <4>4. /\ Cardinality(DOMAIN C) \in Nat \ {0}
            /\ n - 100 * y < 50 * Cardinality(DOMAIN C)
        <5>1. x \in [DOMAIN C -> Nat] /\ \A e \in DOMAIN C : x[e] <= Rounded(h[e])
          BY <1>1 DEF Carried
        <5>2. cash + Amount(Net(C, x), DOMAIN C) = 0
          BY <1>1, <4>3
        <5> QED
          BY <1>1, <2>1, <2>3, <5>1, <5>2, AllIsSpent
      <4> DEFINE size == Cardinality(DOMAIN C)
      <4>5. size = Cardinality(DOMAIN E)
        BY <1>1
      <4> HIDE DEF cap, left, n, y, size
      <4>6. left < 50 * size
        BY <3>1, <3>4, <4>4 DEF Larger, size
      <4> QED
        BY <4>3, <4>5, <4>6 DEF left
    <3> QED
      BY <3>1, <3>2, <3>3, <3>4
  <2> QED
    BY <2>2, <2>3
<1> QED
  BY <1>3, <1>4 DEF Calm

\* What the buckets ahead of b leave changes from one answer to the next by
\* what comes to the cash and by what those buckets can take less: at most by
\* half a unit for each bucket but b.
LEMMA LeftForOne ==
    ASSUME NEW C, NEW E, NEW whole, NEW cash, NEW next, NEW h, NEW x,
           Advised(C, whole, cash, h), CandidatesOK(E, whole), Carried(C, E, whole, h, x),
           next \in Nat, next = cash + Amount(Net(C, x), DOMAIN C),
           NEW b \in DOMAIN C, ~C[b].maximum_breached,
           \A e \in DOMAIN C : C[e].maximum_breached /\ x[e] > 0 =>
              h[e] <= 50 /\ (h[e] = 50 => Roomy(C[e], whole) /\ Ahead(C[e], C[b]))
    PROVE  /\ Cardinality(DOMAIN C) \in Nat \ {0}
           /\ Amount(Demand(C, whole, b), DOMAIN C) \in Nat /\ Amount(Demand(E, whole, b), DOMAIN E) \in Nat
           /\ 100 * next - Amount(Demand(E, whole, b), DOMAIN E)
                <= 100 * cash - Amount(Demand(C, whole, b), DOMAIN C)
                     - 100 * x[b] + 50 * (Cardinality(DOMAIN C) - 1)
<1> DEFINE D == DOMAIN C
           net == Net(C, x)
           v == Demand(C, whole, b)
           w == Demand(E, whole, b)
           gain == [e \in D |-> 100 * net[e]]
           had == [e \in D |-> gain[e] + v[e]]
           diff == [e \in D |-> had[e] - w[e]]
<1>1. CandidatesOK(C, whole) /\ DOMAIN E = D /\ IsFiniteSet(D) /\ cash \in Nat
  BY DEF Advised, Carried, CandidatesOK
<1>2. /\ v \in [D -> Int] /\ Amount(v, D) \in Nat
      /\ \A e \in D : v[e] = IF ~C[e].maximum_breached /\ Ahead(C[e], C[b]) THEN Capacity(C[e], whole) ELSE 0
  BY <1>1, DemandFacts
<1>3. /\ w \in [D -> Int] /\ Amount(w, D) \in Nat
      /\ \A e \in D : w[e] = IF ~E[e].maximum_breached /\ Ahead(E[e], E[b]) THEN Capacity(E[e], whole) ELSE 0
  <2>1. /\ w \in [DOMAIN E -> Int] /\ Amount(w, DOMAIN E) \in Nat
        /\ \A e \in DOMAIN E : w[e] = IF ~E[e].maximum_breached /\ Ahead(E[e], E[b])
                                      THEN Capacity(E[e], whole) ELSE 0
    BY DemandFacts
  <2> HIDE DEF w
  <2> QED
    BY <1>1, <2>1
<1>4. \A e \in D : x[e] \in Nat
  BY DEF Carried
<1>5. net \in [D -> Int] /\ \A e \in D : net[e] = IF C[e].maximum_breached THEN x[e] ELSE -x[e]
  BY <1>4 DEF Net
<1> HIDE DEF net, v, w
<1>6. gain \in [D -> Int] /\ had \in [D -> Int] /\ diff \in [D -> Int]
  BY <1>2, <1>3, <1>5
<1>7. \A e \in D : gain[e] = 100 * net[e] /\ had[e] = gain[e] + v[e] /\ had[e] = diff[e] + w[e]
                    /\ diff[e] = 100 * net[e] + v[e] - w[e]
  BY <1>2, <1>3, <1>5, <1>6
<1> HIDE DEF gain, had, diff
<1>8. ASSUME NEW e \in D, e # b PROVE diff[e] <= 50
  <2> DEFINE c == C[e]
             d == E[e]
             ca == Capacity(c, whole)
             cb == Capacity(d, whole)
             n == h[e]
             y == x[e]
  <2>1. /\ ca \in Nat /\ cb \in Nat /\ n \in Nat /\ y \in Nat /\ y <= Rounded(n)
        /\ ~c.maximum_breached =>
              /\ cb = Larger(0, ca - 100 * y)
              /\ d.maximum_breached => cb = 0
        /\ c.maximum_breached => (n = 50 /\ y = 1 /\ Roomy(c, whole) => ~d.maximum_breached /\ cb = 50)
    BY CarriedFacts
  <2>2. Ahead(d, E[b]) <=> Ahead(c, C[b])
    BY SameOrder
  <2>3. diff[e] = 100 * net[e] + v[e] - w[e]
    BY <1>7
  <2>4. v[e] = IF ~c.maximum_breached /\ Ahead(c, C[b]) THEN ca ELSE 0
    BY <1>2
  <2>5. w[e] = IF ~d.maximum_breached /\ Ahead(c, C[b]) THEN cb ELSE 0
    BY <1>3, <2>2
  <2>6. net[e] = IF c.maximum_breached THEN y ELSE -y
    BY <1>5
  <2>7. c.maximum_breached /\ y > 0 => n <= 50 /\ (n = 50 => Roomy(c, whole) /\ Ahead(c, C[b]))
    OBVIOUS
  <2>8. Rounded(n) \in Nat /\ 100 * Rounded(n) <= n + 50 /\ (Rounded(n) = 0 <=> n < 50)
    BY <2>1, RoundedFacts
  <2> HIDE DEF c, d, ca, cb, n, y
  <2>9. w[e] \in Nat
    BY <2>1, <2>5
  <2>10. CASE c.maximum_breached /\ y = 0
    BY <2>3, <2>4, <2>6, <2>9, <2>10
  <2>11. CASE c.maximum_breached /\ y > 0
    <3>1. n = 50 /\ y = 1
      BY <2>1, <2>7, <2>8, <2>11
    <3>2. Roomy(c, whole) /\ Ahead(c, C[b]) /\ ~d.maximum_breached /\ cb = 50
      BY <2>1, <2>7, <2>11, <3>1
    <3> QED
      BY <2>3, <2>4, <2>5, <2>6, <2>11, <3>1, <3>2
  <2>12. CASE ~c.maximum_breached
    <3>1. v[e] - w[e] <= 100 * y
      <4>1. CASE Ahead(c, C[b])
        <5>1. w[e] = cb
          BY <2>1, <2>5, <2>12, <4>1
        <5> QED
          BY <2>1, <2>4, <2>12, <4>1, <5>1 DEF Larger
      <4>2. CASE ~Ahead(c, C[b])
        BY <2>1, <2>4, <2>5, <4>2
      <4> QED
        BY <4>1, <4>2
    <3>2. v[e] \in Int
      BY <1>2
    <3> QED
      BY <2>1, <2>3, <2>6, <2>9, <2>12, <3>1, <3>2
  <2> QED
    BY <2>1, <2>10, <2>11, <2>12
<1>9. diff[b] = -100 * x[b]
  <2>1. C[b].priority \in Int /\ C[b].name \in Int
    BY <1>1 DEF CandidatesOK, CandidateOK
  <2>2. ~Ahead(C[b], C[b])
    BY <2>1 DEF Ahead
  <2>3. ~Ahead(E[b], E[b])
    BY <2>2, SameOrder
  <2>4. v[b] = 0 /\ w[b] = 0
    BY <1>2, <1>3, <2>2, <2>3
  <2>5. net[b] = -x[b] /\ x[b] \in Nat
    BY <1>4, <1>5
  <2> QED
    BY <1>7, <2>4, <2>5
<1> DEFINE size == Cardinality(D)
<1>10. /\ Amount(diff, D) \in Int /\ size \in Nat \ {0}
       /\ Amount(diff, D) <= diff[b] + 50 * (size - 1)
  <2>1. AtMostHalf(diff, b)
    BY <1>6, <1>8 DEF AtMostHalf
  <2> QED
    BY <1>1, <1>6, <2>1, AmountHalves
<1>11. Amount(net, D) \in Int /\ Amount(gain, D) = 100 * Amount(net, D)
  <2>1. PICK hundred \in Int : hundred = 100
    OBVIOUS
  <2>2. D \subseteq DOMAIN gain /\ \A e \in D : gain[e] = hundred * net[e]
    BY <1>6, <1>7, <2>1
  <2>3. Amount(net, D) \in Int /\ Amount(gain, D) = hundred * Amount(net, D)
    BY <1>1, <1>5, <2>2, AmountTimes
  <2> QED
    BY <2>1, <2>3
<1>12. Amount(had, D) = Amount(gain, D) + Amount(v, D)
  <2>1. D \subseteq DOMAIN had /\ \A e \in D : had[e] = gain[e] + v[e]
    BY <1>6, <1>7
  <2> QED
    BY <1>1, <1>2, <1>6, <2>1, AmountPlus
<1>13. Amount(had, D) = Amount(diff, D) + Amount(w, D)
  <2>1. D \subseteq DOMAIN had /\ \A e \in D : had[e] = diff[e] + w[e]
    BY <1>6, <1>7
  <2> QED
    BY <1>1, <1>3, <1>6, <2>1, AmountPlus
<1>14. next = cash + Amount(net, D)
  BY DEF net
<1>15. x[b] \in Nat /\ Amount(w, DOMAIN E) = Amount(w, D) /\ Amount(w, DOMAIN E) \in Nat
  BY <1>1, <1>3, <1>4
<1>16. 100 * next - Amount(w, D) <= 100 * cash - Amount(v, D) - 100 * x[b] + 50 * (size - 1)
  BY <1>1, <1>2, <1>3, <1>9, <1>10, <1>11, <1>12, <1>13, <1>14, <1>15
<1> QED
  BY <1>2, <1>10, <1>15, <1>16 DEF v, w

\* After two answers all is settled.
LEMMA TwoRounds ==
    ASSUME NEW C, NEW E, NEW whole, NEW cash, NEW next, NEW h, NEW g, NEW x, NEW T, NEW Q,
           Round(C, E, whole, cash, next, h, g, x, T, Q),
           NEW L, Calm(C, whole, cash, h, T, L), L \subseteq DOMAIN C,
           \A e \in DOMAIN C : C[e].maximum_breached /\ x[e] > 0 => e \in L,
           NEW M, M \subseteq DOMAIN E, \A e \in M : E[e].maximum_breached /\ e \in Q
    PROVE  Settled(E, g, T, M)
<1>1. /\ Advised(C, whole, cash, h) /\ Advised(E, whole, next, g) /\ CandidatesOK(E, whole)
      /\ CandidatesOK(C, whole) /\ Carried(C, E, whole, h, x) /\ DOMAIN E = DOMAIN C
      /\ next = cash + Amount(Net(C, x), DOMAIN C) /\ cash \in Nat /\ next \in Nat
  BY DEF Round, Advised, Carried
<1>2. \A e \in M : g[e] <= 50
  <2>1. Calm(E, whole, next, g, T, M)
    BY OneRound
  <2> QED
    BY <2>1 DEF Calm
<1>3. ASSUME NEW b \in T \cap DOMAIN E, ~E[b].maximum_breached
      PROVE  g[b] <= 50 \/ g[b] < 50 * Cardinality(DOMAIN E)
  <2>1. b \in DOMAIN C /\ b \in T
    BY <1>1
  <2> DEFINE cap == Capacity(C[b], whole)
             left == Capacity(E[b], whole)
             n == h[b]
             y == x[b]
             m == g[b]
             size == Cardinality(DOMAIN C)
             a == Amount(Demand(C, whole, b), DOMAIN C)
             k == Amount(Demand(E, whole, b), DOMAIN E)
  <2>2. /\ m \in Nat /\ left \in Nat /\ m <= left /\ m <= 100 * next
        /\ m <= Larger(0, 100 * next - k)
    BY <1>1, <1>3, AdvisedBounds
  <2>3. CASE C[b].maximum_breached
    <3>1. left <= 50
      BY <1>1, <2>1, <2>3, CarriedFacts
    <3> QED
      BY <2>2, <3>1
  <2>4. CASE ~C[b].maximum_breached
    <3>1. /\ cap \in Nat /\ n \in Nat /\ y \in Nat /\ y <= Rounded(n)
          /\ n <= cap /\ left = Larger(0, cap - 100 * y)
      BY <1>1, <2>1, <2>4, CarriedFacts
    <3>2. /\ n <= 100 * Rounded(n) + 49 /\ Rounded(n) \in Nat
      BY <3>1, RoundedFacts
    <3>3. \/ cap <= 50
          \/ cash = 0 /\ cap < 50 * size
          \/ \A e \in L : h[e] = 50 => Ahead(C[e], C[b])
      BY <2>1, <2>4 DEF Calm
    <3>4. CASE y # Rounded(n)
      <4>1. y < Rounded(n)
        BY <3>1, <3>2, <3>4
      <4>2. next = 0
        BY <2>1, <2>4, <4>1 DEF Round, ToTheEnd
      <4> HIDE DEF m
      <4>3. m <= 50
        BY <2>2, <4>2
      <4> QED
        BY <4>3 DEF m
    <3>5. CASE y = Rounded(n) /\ n = cap
      <4> HIDE DEF cap, left, n, y, m
      <4>1. m <= 50
        BY <2>2, <3>1, <3>2, <3>5 DEF Larger
      <4> QED
        BY <4>1 DEF m
    <3>6. CASE cap <= 50 \/ cap < 50 * size
      <4>1. size \in Nat
        BY <1>1, FS_CardinalityType DEF CandidatesOK
      <4> HIDE DEF cap, left, n, y, m, size
      <4>2. left <= cap
        BY <2>2, <3>1 DEF Larger
      <4>3. m <= 50 \/ m < 50 * size
        BY <2>2, <3>1, <3>6, <4>1, <4>2
      <4> QED
        BY <1>1, <4>3 DEF m, size
    <3>7. CASE y = Rounded(n) /\ n < cap /\ \A e \in L : h[e] = 50 => Ahead(C[e], C[b])
      <4>1. n = Larger(0, 100 * cash - a)
        BY <1>1, <2>1, <2>4, <3>7, AdvisedBounds
      <4>2. \A e \in DOMAIN C : C[e].maximum_breached /\ x[e] > 0 =>
               h[e] <= 50 /\ (h[e] = 50 => Roomy(C[e], whole) /\ Ahead(C[e], C[b]))
        BY <3>7 DEF Calm
      <4>3. /\ size \in Nat \ {0} /\ a \in Nat /\ k \in Nat
            /\ 100 * next - k <= 100 * cash - a - 100 * y + 50 * (size - 1)
        BY <1>1, <2>1, <2>4, <4>2, LeftForOne
      <4> HIDE DEF cap, left, n, y, m, size, a, k
      <4>4. 100 * cash - a <= n
        BY <1>1, <4>1, <4>3 DEF Larger
      <4>5. 100 * next - k <= 49 + 50 * (size - 1)
        BY <1>1, <3>1, <3>2, <3>7, <4>3, <4>4
      <4>6. m < 50 * size
        BY <1>1, <2>2, <4>3, <4>5 DEF Larger
      <4> QED
        BY <1>1, <4>6 DEF m, size
    <3> QED
      BY <3>1, <3>3, <3>4, <3>5, <3>6, <3>7
  <2> QED
    BY <2>3, <2>4
<1> QED
  BY <1>2, <1>3 DEF Settled

-----------------------------------------------------------------------------
(* Worth that moves from one asset to another. *)

\* A sum in which one value may change, if it is one of those added up.
LEMMA AmountChangeAt ==
    ASSUME NEW s, IsFiniteSet(s), NEW v \in [s -> Int], NEW w \in [s -> Int], NEW t,
           \A x \in s : x # t => v[x] = w[x]
    PROVE  /\ Amount(v, s) \in Int
           /\ Amount(w, s) = Amount(v, s) + IF t \in s THEN w[t] - v[t] ELSE 0
<1>1. CASE t \in s
  BY <1>1, AmountChange
<1>2. CASE t \notin s
  <2>1. s \subseteq DOMAIN v /\ s \subseteq DOMAIN w /\ \A x \in s : v[x] = w[x]
    BY <1>2
  <2>2. Amount(v, s) = Amount(w, s) /\ Amount(v, s) \in Int
    BY <2>1, AmountSame, AmountInt
  <2> QED
    BY <1>2, <2>2
<1> QED
  BY <1>1, <1>2

\* In N asset a is worth d more than in P, and k as much less.
Shifted(P, N, a, k, d) ==
    /\ Valued(P) /\ Valued(N) /\ DOMAIN N = DOMAIN P /\ a \in DOMAIN P /\ k \in DOMAIN P /\ a # k /\ d \in Int
    /\ \A i \in DOMAIN P : N[i].bucket = P[i].bucket /\ N[i].cash = P[i].cash /\ N[i].emergency = P[i].emergency
    /\ \A i \in DOMAIN P \ {a, k} : N[i].value = P[i].value
    /\ P[a].value \in Nat /\ N[a].value \in Nat /\ N[a].value = P[a].value + d
    /\ P[k].value \in Nat /\ N[k].value \in Nat /\ N[k].value = P[k].value - d

\* A sum of values changes by what comes in and what goes out.
LEMMA ValueMoves ==
    ASSUME NEW P, NEW N, NEW a, NEW k, NEW d, Shifted(P, N, a, k, d), NEW S, S \subseteq DOMAIN P
    PROVE  /\ ValueIn(P, S) \in Nat
           /\ ValueIn(N, S) = ValueIn(P, S) + (IF a \in S THEN d ELSE 0) - (IF k \in S THEN d ELSE 0)
<1> DEFINE v == Worths(P)
           w == Worths(N)
           f == [i \in S |-> v[i]]
           m == [i \in S |-> IF i = a THEN w[i] ELSE v[i]]
           g == [i \in S |-> w[i]]
<1>1. /\ IsFiniteSet(S) /\ Valued(P) /\ Valued(N) /\ S \subseteq DOMAIN N /\ d \in Int
      /\ a \in DOMAIN P /\ k \in DOMAIN P /\ a # k
  BY FS_Subset DEF Shifted, Valued
<1>2. ValueIn(P, S) = Amount(v, S) /\ ValueIn(N, S) = Amount(w, S) /\ Amount(v, S) \in Nat
  BY <1>1, ValueInFacts
<1>3. /\ DOMAIN v = DOMAIN P /\ DOMAIN w = DOMAIN P
      /\ \A i \in DOMAIN P : /\ v[i] = IF P[i].value = Unpriced THEN 0 ELSE P[i].value
                             /\ w[i] = IF N[i].value = Unpriced THEN 0 ELSE N[i].value
                             /\ v[i] \in Int /\ w[i] \in Int
  BY DEF Worths, Shifted, Valued
<1>4. /\ \A i \in DOMAIN P \ {a, k} : w[i] = v[i]
      /\ w[a] - v[a] = d /\ w[k] - v[k] = -d
  <2>1. \A i \in DOMAIN P \ {a, k} : N[i].value = P[i].value
    BY DEF Shifted
  <2>2. /\ P[a].value \in Nat /\ N[a].value = P[a].value + d
        /\ P[k].value \in Nat /\ N[k].value \in Nat /\ N[k].value = P[k].value - d
        /\ N[a].value \in Nat \cup {Unpriced} /\ N[k].value \in Nat \cup {Unpriced}
    BY <1>1 DEF Shifted, Valued
  <2>3. N[a].value \in Nat /\ N[k].value \in Nat
    BY DEF Shifted
  <2> HIDE DEF v, w
  <2> QED
    BY <1>1, <1>3, <2>1, <2>2, <2>3 DEF Unpriced
<1> HIDE DEF v, w
<1>5. f \in [S -> Int] /\ m \in [S -> Int] /\ g \in [S -> Int]
  BY <1>3
<1>6. /\ \A i \in S : f[i] = v[i] /\ m[i] = (IF i = a THEN w[i] ELSE v[i]) /\ g[i] = w[i]
      /\ DOMAIN f = S /\ DOMAIN g = S
  OBVIOUS
<1> HIDE DEF f, m, g
<1>7. Amount(f, S) = Amount(v, S) /\ Amount(g, S) = Amount(w, S)
  BY <1>3, <1>6, AmountSame
<1>8. Amount(m, S) = Amount(f, S) + IF a \in S THEN m[a] - f[a] ELSE 0
  <2>1. \A i \in S : i # a => f[i] = m[i]
    BY <1>6
  <2> QED
    BY <1>1, <1>5, <2>1, AmountChangeAt
<1>9. Amount(g, S) = Amount(m, S) + IF k \in S THEN g[k] - m[k] ELSE 0
  <2>1. \A i \in S : i # k => m[i] = g[i]
    BY <1>4, <1>6
  <2> QED
    BY <1>1, <1>5, <2>1, AmountChangeAt
<1>10. (a \in S => m[a] - f[a] = d) /\ (k \in S => g[k] - m[k] = -d)
  BY <1>1, <1>4, <1>6
<1>11. Amount(m, S) = Amount(f, S) + IF a \in S THEN d ELSE 0
  BY <1>8, <1>10
<1>12. Amount(g, S) = Amount(m, S) - IF k \in S THEN d ELSE 0
  BY <1>1, <1>2, <1>7, <1>9, <1>10, <1>11
<1> QED
  BY <1>1, <1>2, <1>7, <1>11, <1>12

\* The whole stays, the cash pays, and the bucket grows.
LEMMA ShiftedFacts ==
    ASSUME NEW P, NEW N, NEW a, NEW k, NEW d, Shifted(P, N, a, k, d),
           P[k].cash, ~P[k].emergency, ~P[a].cash, NEW excluded, excluded => ~P[a].emergency
    PROVE  /\ Denominator(N, excluded) = Denominator(P, excluded)
           /\ Cash(P) \in Nat /\ Cash(N) = Cash(P) - d
           /\ \A b : P[k].bucket # b =>
                 /\ BucketValue(P, b) \in Nat
                 /\ BucketValue(N, b) = BucketValue(P, b) + IF P[a].bucket = b THEN d ELSE 0
<1>1. /\ DOMAIN N = DOMAIN P /\ a \in DOMAIN P /\ k \in DOMAIN P /\ d \in Int
      /\ \A i \in DOMAIN P : N[i].bucket = P[i].bucket /\ N[i].cash = P[i].cash /\ N[i].emergency = P[i].emergency
  BY DEF Shifted
<1>2. Denominator(N, excluded) = Denominator(P, excluded)
  <2> DEFINE S == {i \in DOMAIN P : ~P[i].emergency}
             D == DOMAIN P
  <2>1. {i \in DOMAIN N : ~N[i].emergency} = S /\ S \subseteq D
    BY <1>1
  <2>2. /\ ValueIn(P, D) \in Nat
        /\ ValueIn(N, D) = ValueIn(P, D) + (IF a \in D THEN d ELSE 0) - (IF k \in D THEN d ELSE 0)
    BY ValueMoves
  <2>3. /\ ValueIn(P, S) \in Nat
        /\ ValueIn(N, S) = ValueIn(P, S) + (IF a \in S THEN d ELSE 0) - (IF k \in S THEN d ELSE 0)
    BY <2>1, ValueMoves
  <2>4. CASE excluded
    <3>1. a \in S /\ k \in S
      BY <1>1, <2>4
    <3>2. Denominator(N, excluded) = ValueIn(N, S) /\ Denominator(P, excluded) = ValueIn(P, S)
      BY <2>1, <2>4 DEF Denominator, Investable
    <3> HIDE DEF S
    <3> QED
      BY <1>1, <2>3, <3>1, <3>2
  <2>5. CASE ~excluded
    <3>1. Denominator(N, excluded) = ValueIn(N, D) /\ Denominator(P, excluded) = ValueIn(P, D)
      BY <1>1, <2>5 DEF Denominator, Total
    <3> QED
      BY <1>1, <2>2, <3>1
  <2> QED
    BY <2>4, <2>5
<1>3. Cash(P) \in Nat /\ Cash(N) = Cash(P) - d
  <2> DEFINE S == {i \in DOMAIN P : P[i].cash /\ ~P[i].emergency}
  <2>1. {i \in DOMAIN N : N[i].cash /\ ~N[i].emergency} = S /\ S \subseteq DOMAIN P
    BY <1>1
  <2>2. a \notin S /\ k \in S
    BY <1>1
  <2>3. Cash(N) = ValueIn(N, S) /\ Cash(P) = ValueIn(P, S)
    BY <2>1 DEF Cash
  <2> HIDE DEF S
  <2>4. /\ ValueIn(P, S) \in Nat
        /\ ValueIn(N, S) = ValueIn(P, S) + (IF a \in S THEN d ELSE 0) - (IF k \in S THEN d ELSE 0)
    BY <2>1, ValueMoves
  <2> QED
    BY <1>1, <2>2, <2>3, <2>4
<1>4. ASSUME NEW b, P[k].bucket # b
      PROVE  /\ BucketValue(P, b) \in Nat
             /\ BucketValue(N, b) = BucketValue(P, b) + IF P[a].bucket = b THEN d ELSE 0
  <2> DEFINE S == {i \in DOMAIN P : P[i].bucket = b}
  <2>1. {i \in DOMAIN N : N[i].bucket = b} = S /\ S \subseteq DOMAIN P
    BY <1>1
  <2>2. (a \in S <=> P[a].bucket = b) /\ k \notin S
    BY <1>1, <1>4
  <2>3. BucketValue(N, b) = ValueIn(N, S) /\ BucketValue(P, b) = ValueIn(P, S)
    BY <2>1 DEF BucketValue
  <2> HIDE DEF S
  <2>4. /\ ValueIn(P, S) \in Nat
        /\ ValueIn(N, S) = ValueIn(P, S) + (IF a \in S THEN d ELSE 0) - (IF k \in S THEN d ELSE 0)
    BY <2>1, ValueMoves
  <2> QED
    BY <1>1, <2>2, <2>3, <2>4
<1> QED
  BY <1>2, <1>3, <1>4

-----------------------------------------------------------------------------
(* The invariant: what a quiet world has in common with what the advice saw. *)

\* What the advice asks for, in hundredths of a unit.
Amounts == [b \in DOMAIN advice.candidates |-> advice.answer[b].amount]

\* What has been followed of the advice.
Moved == [b \in DOMAIN advice.candidates |-> Rounded(advice.answer[b].amount) - advice.left[b]]

\* The buckets with something to buy, and those over their maximum of which
\* something is or has been for sale.
Purchasable == {b \in Buckets : Targets(b) # {}}
Saleable == {b \in Buckets : Sellable(b) # {} /\ Payers # {}}
Live == {e \in DOMAIN advice.candidates :
            advice.candidates[e].maximum_breached /\ (Moved[e] > 0 \/ e \in Saleable)}

\* The candidates are those of the buckets and rules there are.
AsNow(C) ==
    /\ DOMAIN C = ActiveBuckets
    /\ \A b \in DOMAIN C :
          LET r == RuleFor(RulesOf(ActiveBuckets, rule), b)
          IN  /\ C[b].target = r.target /\ C[b].maximum = r.maximum /\ C[b].allow = r.allow
              /\ C[b].priority = r.priority /\ C[b].name = bucket[b].name
              /\ C[b].excluded = Excluded(config, Positions(config), b)

\* The whole is what it was, and the cash and the buckets have changed by what
\* has been followed.
Accounts ==
    LET C == advice.candidates
        P == Positions(config)
    IN  /\ Denominator(P, config.excluded) = advice.whole
        /\ Cash(P) = advice.cash + Amount(Net(C, Moved), DOMAIN C)
        /\ \A b \in DOMAIN C : (\A k \in Payers : home[k] # b) =>
              BucketValue(P, b) = C[b].value - Net(C, Moved)[b]

\* What one answer followed to the end, and what two, have come to.
CalmNow == Calm(advice.candidates, advice.whole, advice.cash, Amounts, Purchasable, Live)
SettledNow == Settled(advice.candidates, Amounts, Purchasable, Live)

\* The advice accounts for the world as it is.
Standing ==
    /\ advice.round \in 0 .. 2
    /\ AsNow(advice.candidates)
    /\ Accounts
    /\ advice.round >= 1 /\ CashApart => CalmNow
    /\ advice.round = 2 /\ CashApart => SettledNow

\* The advice stands: it was given in this world and has been followed since,
\* to the end if the next one has been asked for.
Current == quiet /\ (reading = NotAsked \/ rounds > 0)

\* rounds counts the answers followed, this one included once it has been.
RoundsOK ==
    IF reading = NotAsked THEN advice.round = rounds
    ELSE FollowedToTheEnd /\ rounds = Smaller(advice.round + 1, 2)

\* What ReadBuckets reads of a world.
NamesRead == [b \in ActiveBuckets |-> bucket[b].name]

\* The invariant.
SettlingInv ==
    /\ quiet /\ reading.at = "targets" => reading.names = NamesRead
    /\ Current => Standing /\ RoundsOK

\* The variables that Standing looks at.
StandsOn == <<bucket, rule, holding, listed, home, config, advice>>

\* While they stay, so does the advice.
LEMMA StandingStays ==
    ASSUME UNCHANGED StandsOn
    PROVE  /\ Standing => Standing'
           /\ FollowedToTheEnd => FollowedToTheEnd'
           /\ NamesRead' = NamesRead
<1>1. UNCHANGED <<bucket, rule, holding, listed, home, config, advice>>
  BY DEF StandsOn
<1>2. Positions(config)' = Positions(config)
  BY <1>1 DEF Positions
<1>3. ActiveBuckets' = ActiveBuckets /\ NamesRead' = NamesRead
  BY <1>1 DEF ActiveBuckets, NamesRead
<1>4. Payers' = Payers /\ Spendable' = Spendable
  BY <1>1 DEF Payers, Spendable, Tradable
<1>5. \A b : Targets(b)' = Targets(b) /\ Sellable(b)' = Sellable(b)
  BY <1>1 DEF Targets, Sellable, Tradable
<1>6. FollowedToTheEnd => FollowedToTheEnd'
  BY <1>1, <1>4, <1>5 DEF FollowedToTheEnd
<1>7. Purchasable' = Purchasable /\ Saleable' = Saleable
  BY <1>4, <1>5 DEF Purchasable, Saleable
<1>8. Amounts' = Amounts /\ Moved' = Moved
  BY <1>1 DEF Amounts, Moved
<1>9. Live' = Live
  BY <1>1, <1>7, <1>8 DEF Live
<1>10. (CashApart' <=> CashApart) /\ (CalmNow' <=> CalmNow) /\ (SettledNow' <=> SettledNow)
  <2>1. CashApart' <=> CashApart
    BY <1>1 DEF CashApart, Tradable
  <2>2. CalmNow' <=> CalmNow
    BY <1>1, <1>7, <1>8, <1>9 DEF CalmNow
  <2>3. SettledNow' <=> SettledNow
    BY <1>1, <1>7, <1>8, <1>9 DEF SettledNow
  <2> QED
    BY <2>1, <2>2, <2>3
<1>11. AsNow(advice.candidates)' <=> AsNow(advice.candidates)
  BY <1>1, <1>2, <1>3 DEF AsNow
<1>12. Accounts' <=> Accounts
  BY <1>1, <1>2, <1>4, <1>8 DEF Accounts
<1> QED
  BY <1>1, <1>3, <1>6, <1>10, <1>11, <1>12 DEF Standing

\* The steps, seen from a quiet world.
LEMMA QuietSteps ==
    ASSUME [PlanNext]_planVars
    PROVE  \/ quiet' = FALSE
           \/ UNCHANGED <<StandsOn, reading, quiet, rounds>>
           \/ ReadConfig \/ ReadPositions \/ ReadBuckets \/ Answer
           \/ \E b \in Buckets, a \in Assets, k \in CashAssets : Buy(b, a, k)
           \/ \E b \in Buckets, a \in Assets, k \in CashAssets : Sell(b, a, k)
<1>1. ASSUME \/ \E a \in Assets, worth \in Levels, quote \in Quotes : MarketMoves(a, worth, quote)
             \/ \E a \in Assets, b \in Buckets \cup {Absent} : AssignBucket(a, b)
             \/ \E a \in Assets : SwitchAsset(a)
             \/ \E e \in Assets \cup {NoAsset}, x \in BOOLEAN : UpdateConfig(e, x)
      PROVE  quiet' = FALSE
  BY <1>1 DEF MarketMoves, AssignBucket, SwitchAsset, UpdateConfig, Change
<1>2. CASE EditStrategy
  BY <1>2 DEF EditStrategy, Change
<1>3. CASE BeginPatch
  BY <1>3 DEF BeginPatch, ReadTarget, worldVars, askVars, StandsOn
<1>4. CASE EndPatch
  BY <1>4 DEF EndPatch
<1>5. CASE UNCHANGED planVars
  BY <1>5 DEF planVars, adminVars, worldVars, askVars, StandsOn
<1> QED
  BY <1>1, <1>2, <1>3, <1>4, <1>5 DEF PlanNext

-----------------------------------------------------------------------------
(* A trade. *)

\* x units of the advice for bucket b are followed: asset a is worth d more,
\* and the cash k as much less.
Trade(b, a, k, x, d) ==
    /\ b \in DOMAIN advice.left /\ advice.left[b] > 0
    /\ a \in Targets(b) /\ k \in Payers
    /\ IF advice.answer[b].action = "REDUCE" THEN d = -x /\ a \in Sellable(b) ELSE d = x
    /\ UNCHANGED <<bucket, rule, listed, home, config, reading, quiet, rounds>>
    /\ DOMAIN holding' = Assets
    /\ \A i \in Assets \ {a, k} : holding'[i] = holding[i]
    /\ holding'[a].quote = holding[a].quote /\ holding'[k].quote = holding[k].quote
    /\ holding'[a].worth = holding[a].worth + d
    /\ holding'[k].worth = holding[k].worth - d
    /\ advice' = [advice EXCEPT !.left[b] = @ - x]

\* That is what buying and selling do.
LEMMA TradesAre ==
    ASSUME WorldOK, NEW b, NEW a \in Assets, NEW k \in CashAssets, Buy(b, a, k) \/ Sell(b, a, k),
           \A e \in DOMAIN advice.left : advice.left[e] \in Nat
    PROVE  Fresh /\ a # k /\ k \in Assets /\ \E x \in Nat, d \in Int : Trade(b, a, k, x, d)
<1>1. /\ Fresh /\ b \in DOMAIN advice.left /\ advice.left[b] > 0 /\ advice.left[b] \in Nat
      /\ a \in Targets(b) /\ k \in Payers
      /\ UNCHANGED <<bucket, rule, listed, home, config, reading, quiet, rounds>>
  BY DEF Buy, Sell, Asked, Sellable, Spendable, adminVars
<1>2. a \in Assets /\ k \in Assets /\ a # k
  BY <1>1, PlanningAssumption DEF Targets
<1>3. CASE Buy(b, a, k)
  <2> DEFINE x == Smaller(advice.left[b], holding[k].worth)
  <2>1. x \in Nat
    BY <1>1, <1>2 DEF Smaller, WorldOK
  <2>2. /\ holding' = [holding EXCEPT ![a].worth = @ + x, ![a].book = @ + x,
                                      ![k].worth = @ - x, ![k].book = Larger(0, @ - x)]
        /\ advice' = [advice EXCEPT !.left[b] = @ - x]
        /\ advice.answer[b].action # "REDUCE"
    BY <1>3 DEF Buy, Asked
  <2> HIDE DEF x
  <2>3. /\ DOMAIN holding' = Assets /\ \A i \in Assets \ {a, k} : holding'[i] = holding[i]
        /\ holding'[a].quote = holding[a].quote /\ holding'[k].quote = holding[k].quote
        /\ holding'[a].worth = holding[a].worth + x /\ holding'[k].worth = holding[k].worth - x
    BY <1>2, <2>2 DEF WorldOK
  <2>4. x \in Int /\ Trade(b, a, k, x, x)
    BY <1>1, <2>1, <2>2, <2>3 DEF Trade
  <2> QED
    BY <1>1, <1>2, <2>1, <2>4
<1>4. CASE Sell(b, a, k)
  <2> DEFINE x == Smaller(advice.left[b], holding[a].worth)
             book == (holding[a].book * (holding[a].worth - x)) \div holding[a].worth
  <2>1. x \in Nat
    BY <1>1, <1>2 DEF Smaller, WorldOK
  <2>2. /\ holding' = [holding EXCEPT ![a].worth = @ - x, ![a].book = book,
                                      ![k].worth = @ + x, ![k].book = @ + x]
        /\ advice' = [advice EXCEPT !.left[b] = @ - x]
        /\ advice.answer[b].action = "REDUCE" /\ a \in Sellable(b)
    BY <1>4 DEF Sell, Asked
  <2> HIDE DEF x, book
  <2>3. /\ DOMAIN holding' = Assets /\ \A i \in Assets \ {a, k} : holding'[i] = holding[i]
        /\ holding'[a].quote = holding[a].quote /\ holding'[k].quote = holding[k].quote
        /\ holding'[a].worth = holding[a].worth - x /\ holding'[k].worth = holding[k].worth + x
    BY <1>2, <2>2 DEF WorldOK
  <2>4. holding[a].worth \in Nat /\ holding[k].worth \in Nat
    BY <1>2 DEF WorldOK
  <2>5. -x \in Int /\ Trade(b, a, k, x, -x)
    BY <1>1, <2>1, <2>2, <2>3, <2>4 DEF Trade
  <2> QED
    BY <1>1, <1>2, <2>1, <2>5
<1> QED
  BY <1>3, <1>4

\* In the positions worth moves from one asset to the other.
LEMMA TradeShifts ==
    ASSUME WorldOK, WorldOK', NEW b, NEW a \in Assets, NEW k \in Assets, a # k, k \in CashAssets,
           NEW x \in Nat, NEW d \in Int, Trade(b, a, k, x, d)
    PROVE  LET P == Positions(config)
               N == Positions(config)'
           IN  /\ Shifted(P, N, a, k, d)
               /\ P[k].cash /\ ~P[k].emergency /\ ~P[a].cash
               /\ P[a].emergency <=> a = config.emergency
               /\ P[a].bucket = b /\ P[k].bucket = home[k] /\ home[a] = b
               /\ DOMAIN P = listed /\ a \in listed
<1> DEFINE P == Positions(config)
           N == PositionsOf(holding', listed, home, config)
<1>1. UNCHANGED <<listed, home, config>> /\ listed \subseteq Assets
  BY DEF Trade, WorldOK
<1>2. /\ holding \in [Assets -> Holdings] /\ holding' \in [Assets -> Holdings]
      /\ home \in [Assets -> Buckets \cup {Absent}]
  BY DEF WorldOK, Holdings
<1>3. Positions(config)' = N /\ P = PositionsOf(holding, listed, home, config)
  BY <1>1 DEF Positions, PositionsOf
<1>4. /\ PositionsOK(config, P) /\ Valued(P) /\ DOMAIN P = listed
      /\ \A i \in listed : /\ P[i].bucket = home[i]
                           /\ holding[i].quote = "CURRENT" => P[i].value = holding[i].worth
  BY <1>1, <1>2, <1>3, PositionsOfFacts, PositionsValued
<1>5. /\ PositionsOK(config, N) /\ Valued(N) /\ DOMAIN N = listed
      /\ \A i \in listed : /\ N[i].bucket = home[i]
                           /\ holding'[i].quote = "CURRENT" => N[i].value = holding'[i].worth
  BY <1>1, <1>2, PositionsOfFacts, PositionsValued
<1>6. ASSUME NEW i \in listed, i # a, i # k PROVE N[i].value = P[i].value
  <2>1. holding'[i] = holding[i]
    BY <1>1, <1>6 DEF Trade
  <2> QED
    BY <1>3, <2>1 DEF PositionsOf
<1>7. /\ a \in listed /\ k \in listed /\ home[a] = b /\ a \notin CashAssets /\ k # config.emergency
      /\ holding[a].quote = "CURRENT" /\ holding[k].quote = "CURRENT"
      /\ holding'[a].quote = "CURRENT" /\ holding'[k].quote = "CURRENT"
  BY DEF Trade, Targets, Payers, Tradable
<1>8. /\ holding[a].worth \in Nat /\ holding'[a].worth \in Nat
      /\ holding[k].worth \in Nat /\ holding'[k].worth \in Nat
  BY <1>2 DEF Holdings
<1>9. holding'[a].worth = holding[a].worth + d /\ holding'[k].worth = holding[k].worth - d
  BY DEF Trade
<1> HIDE DEF P, N
<1>10. Shifted(P, N, a, k, d)
  <2>1. \A i \in DOMAIN P : /\ N[i].bucket = P[i].bucket /\ N[i].cash = P[i].cash
                            /\ N[i].emergency = P[i].emergency
    BY <1>4, <1>5 DEF PositionsOK
  <2> QED
    BY <1>4, <1>5, <1>6, <1>7, <1>8, <1>9, <2>1 DEF Shifted
<1>11. P[k].cash /\ ~P[k].emergency /\ ~P[a].cash /\ (P[a].emergency <=> a = config.emergency)
  BY <1>4, <1>7 DEF PositionsOK
<1>12. P[a].bucket = b /\ P[k].bucket = home[k]
  BY <1>4, <1>7
<1> QED
  BY <1>3, <1>4, <1>7, <1>10, <1>11, <1>12 DEF P

\* What is live can only become less, and what holds of more holds of less.
LEMMA FewerLive ==
    ASSUME NEW C, NEW whole, NEW cash, NEW h, NEW T, NEW L, NEW M, M \subseteq L
    PROVE  /\ Calm(C, whole, cash, h, T, L) => Calm(C, whole, cash, h, T, M)
           /\ Settled(C, h, T, L) => Settled(C, h, T, M)
<1>1. ASSUME Calm(C, whole, cash, h, T, L) PROVE Calm(C, whole, cash, h, T, M)
  <2>1. \A e \in M : h[e] <= 50 /\ (h[e] = 50 => Roomy(C[e], whole))
    BY <1>1 DEF Calm
  <2>2. ASSUME NEW b \in T \cap DOMAIN C, ~C[b].maximum_breached
        PROVE  \/ Capacity(C[b], whole) <= 50
               \/ cash = 0 /\ Capacity(C[b], whole) < 50 * Cardinality(DOMAIN C)
               \/ \A e \in M : h[e] = 50 => Ahead(C[e], C[b])
    <3>1. \/ Capacity(C[b], whole) <= 50
          \/ cash = 0 /\ Capacity(C[b], whole) < 50 * Cardinality(DOMAIN C)
          \/ \A e \in L : h[e] = 50 => Ahead(C[e], C[b])
      BY <1>1, <2>2 DEF Calm
    <3> QED
      BY <3>1, Zenon
  <2> QED
    BY <2>1, <2>2, Zenon DEF Calm
<1>2. ASSUME Settled(C, h, T, L) PROVE Settled(C, h, T, M)
  BY <1>2, Zenon DEF Settled
<1> QED
  BY <1>1, <1>2

\* The advice is one that the engine gives, and what is left of it fits it.
AdviceFits ==
    LET C == advice.candidates
    IN  /\ LeftOK
        /\ Advised(C, advice.whole, advice.cash, Amounts)
        /\ DOMAIN C \subseteq Buckets /\ DOMAIN advice.answer = DOMAIN C /\ DOMAIN advice.left = DOMAIN C
        /\ Moved \in [DOMAIN C -> Nat]
        /\ \A b \in DOMAIN C :
              /\ Amounts[b] = advice.answer[b].amount /\ advice.left[b] \in Nat
              /\ Moved[b] = Rounded(Amounts[b]) - advice.left[b] /\ Moved[b] <= Rounded(Amounts[b])
              /\ advice.answer[b].action = "REDUCE" <=> C[b].maximum_breached
              /\ C[b].excluded => advice.left[b] = 0

\* That is so of any advice the specification gives, and of none.
LEMMA AdviceSeen ==
    ASSUME PlanningInv
    PROVE  AdviceFits
<1> DEFINE C == advice.candidates
           whole == advice.whole
           cash == advice.cash
           R == advice.answer
           h == Amounts
<1>1. /\ DOMAIN h = DOMAIN C /\ \A b \in DOMAIN C : h[b] = R[b].amount
      /\ h = [b \in DOMAIN C |-> R[b].amount]
  BY DEF Amounts
<1> DEFINE Fits(b) == /\ R[b].amount \in Nat
                      /\ (R[b].action = "REDUCE") = C[b].maximum_breached
                      /\ C[b].excluded => R[b].amount = 0
<1>2. /\ CandidatesOK(C, whole) /\ DOMAIN R = DOMAIN C /\ DOMAIN C \subseteq Buckets
      /\ Advised(C, whole, cash, h) /\ LeftOK
      /\ \A b \in DOMAIN C : Fits(b)
  <2>1. CASE advice = NoAdvice
    <3>1. DOMAIN C = {} /\ DOMAIN R = {} /\ DOMAIN advice.left = {} /\ whole = 0 /\ cash = 0
      BY <2>1 DEF NoAdvice
    <3>2. LeftOK
      BY <2>1 DEF LeftOK, NoAdvice
    <3> HIDE DEF C, R, whole, cash, h
    <3>3. CandidatesOK(C, whole)
      BY <3>1, FS_EmptySet DEF CandidatesOK
    <3>4. Amount(Handouts(C, h), DOMAIN C) = 0
      BY <3>1, AmountEmpty
    <3>5. h \in [DOMAIN C -> Nat]
      BY <1>1, <3>1
    <3>6. Advised(C, whole, cash, h)
      BY <3>1, <3>3, <3>4, <3>5 DEF Advised
    <3> QED
      BY <3>1, <3>2, <3>3, <3>6
  <2>2. ASSUME LeftOK, NEW cfg, NEW P, NEW names, NEW rules, AnswerTo(cfg, P, names, rules)
        PROVE  /\ CandidatesOK(C, whole) /\ DOMAIN R = DOMAIN C /\ DOMAIN C \subseteq Buckets
               /\ Advised(C, whole, cash, h)
               /\ \A b \in DOMAIN C : Fits(b)
    <3>1. /\ CandidatesOK(C, whole) /\ cash \in Nat /\ DOMAIN R = DOMAIN C
          /\ \A b \in DOMAIN C : R[b].amount \in Nat
      BY <2>2, AnswerFacts
    <3>2. R = Rebalancing(C, whole, cash)
      BY <2>2 DEF AnswerTo
    <3>3. DOMAIN C \subseteq Buckets
      <4>1. cfg.excluded \in BOOLEAN /\ C = Candidates(cfg, P, names, rules)
        BY <2>2 DEF AnswerTo, Configs
      <4>2. PositionsOK(cfg, P) /\ NamesOK(names) /\ RulesOK(rules)
        BY <2>2 DEF AnswerTo
      <4> HIDE DEF C
      <4> QED
        BY <4>1, <4>2, CandidatesFacts
    <3> HIDE DEF C, whole, cash, R, h
    <3>4. Advised(C, whole, cash, h)
      BY <1>1, <3>1, <3>2, AnswerAdvised
    <3>5. ASSUME NEW b \in DOMAIN C PROVE Fits(b)
      <4>1. (R[b].action = "REDUCE") = C[b].maximum_breached
        BY <3>1, <3>2, AnswerFits
      <4>2. R[b].amount \in Nat /\ (C[b].excluded => R[b].amount = 0)
        BY <3>1, <3>2, AnswerFits
      <4> QED
        BY <4>1, <4>2, Zenon
    <3> HIDE DEF Fits
    <3> QED
      BY <2>2, <3>1, <3>3, <3>4, <3>5
  <2> HIDE DEF Fits
  <2> QED
    BY <2>1, <2>2, NothingOrAnswered
<1>3. /\ DOMAIN advice.left = DOMAIN C
      /\ \A b \in DOMAIN C : advice.left[b] \in Nat /\ advice.left[b] <= Rounded(R[b].amount)
  BY <1>2 DEF LeftOK
<1>4. /\ Moved = [b \in DOMAIN C |-> Moved[b]]
      /\ \A b \in DOMAIN C : Moved[b] = Rounded(h[b]) - advice.left[b]
  BY <1>1 DEF Moved
<1> HIDE DEF C, whole, cash, R, h
<1>5. ASSUME NEW b \in DOMAIN C
      PROVE  /\ R[b].action = "REDUCE" <=> C[b].maximum_breached
             /\ C[b].excluded => advice.left[b] = 0
             /\ Moved[b] \in Nat /\ Moved[b] <= Rounded(h[b])
  <2>1. R[b].action = "REDUCE" <=> C[b].maximum_breached
    BY <1>2, Zenon
  <2>2. Rounded(R[b].amount) \in Nat /\ (R[b].amount = 0 => Rounded(R[b].amount) = 0)
    <3>1. R[b].amount \in Nat
      BY <1>2
    <3> QED
      BY <3>1 DEF Rounded
  <2>3. C[b].excluded => advice.left[b] = 0
    BY <1>2, <1>3, <2>2
  <2>4. Moved[b] \in Nat /\ Moved[b] <= Rounded(h[b])
    BY <1>1, <1>3, <1>4, <2>2
  <2> QED
    BY <2>1, <2>3, <2>4
<1>6. Moved \in [DOMAIN C -> Nat]
  BY <1>4, <1>5
<1> QED
  BY <1>1, <1>2, <1>3, <1>4, <1>5, <1>6 DEF AdviceFits, C, whole, cash, R, h

\* A trade leaves the advice standing: the world changes by what is followed.
LEMMA TradeKeepsStanding ==
    ASSUME WorldOK, WorldOK', AdviceFits, Standing,
           NEW b, NEW a \in Assets, NEW k \in Assets, a # k, k \in CashAssets,
           NEW x \in Nat, NEW d \in Int, Trade(b, a, k, x, d)
    PROVE  Standing'
<1> DEFINE C == advice.candidates
           D == DOMAIN advice.candidates
           P == Positions(config)
           N == Positions(config)'
           y == Moved
           z == Moved'
           v == Net(C, y)
           w == Net(C, z)
<1>1. /\ UNCHANGED <<bucket, rule, listed, home, config, reading, quiet, rounds>>
      /\ b \in D /\ advice.left[b] > 0 /\ k \in Payers /\ a \in Targets(b)
  BY DEF Trade, AdviceFits
<1>2. /\ Shifted(P, N, a, k, d)
      /\ P[k].cash /\ ~P[k].emergency /\ ~P[a].cash
      /\ P[a].emergency <=> a = config.emergency
      /\ P[a].bucket = b /\ P[k].bucket = home[k] /\ home[a] = b
      /\ DOMAIN P = listed /\ a \in listed
  BY TradeShifts
<1>3. /\ DOMAIN advice = {"candidates", "strategy", "whole", "cash", "answer", "left", "round"}
      /\ advice' = [advice EXCEPT !.left[b] = @ - x]
      /\ DOMAIN advice.left = D
  BY DEF Trade, AdviceFits, LeftOK
<1>4. /\ advice'.candidates = C /\ advice'.whole = advice.whole /\ advice'.cash = advice.cash
      /\ advice'.answer = advice.answer /\ advice'.round = advice.round
      /\ advice'.left = [advice.left EXCEPT ![b] = @ - x]
  BY <1>3
<1>5. \A e \in D : /\ advice.left[e] \in Nat /\ y[e] \in Nat /\ y[e] = Rounded(Amounts[e]) - advice.left[e]
                   /\ Amounts[e] = advice.answer[e].amount
  BY DEF AdviceFits
<1>6. Amounts' = Amounts
  BY <1>4 DEF Amounts
<1>7. /\ DOMAIN z = D /\ y \in [D -> Nat] /\ z[b] = y[b] + x
      /\ \A e \in D : e # b => z[e] = y[e]
  <2>1. y \in [D -> Nat]
    BY DEF AdviceFits
  <2>2. DOMAIN z = D /\ \A e \in D : z[e] = Rounded(advice.answer[e].amount) - advice'.left[e]
    BY <1>4 DEF Moved
  <2>3. \A e \in D : y[e] = Rounded(advice.answer[e].amount) - advice.left[e]
    BY DEF Moved
  <2>4. advice'.left[b] = advice.left[b] - x /\ \A e \in D : e # b => advice'.left[e] = advice.left[e]
    BY <1>1, <1>3, <1>4
  <2>5. Rounded(advice.answer[b].amount) \in Int
    <3>1. Amounts[b] \in Nat
      BY <1>1 DEF AdviceFits, Advised
    <3>2. advice.answer[b].amount \in Nat
      BY <1>1, <1>5, <3>1
    <3> QED
      BY <3>2 DEF Rounded
  <2>6. z[b] = y[b] + x
    BY <1>1, <1>5, <2>2, <2>3, <2>4, <2>5
  <2> QED
    BY <2>1, <2>2, <2>3, <2>4, <2>6
<1>8. IF C[b].maximum_breached THEN d = -x /\ a \in Sellable(b) ELSE d = x
  <2>1. advice.answer[b].action = "REDUCE" <=> C[b].maximum_breached
    BY <1>1 DEF AdviceFits
  <2> QED
    BY <2>1 DEF Trade
<1>9. P = PositionsOf(holding, listed, home, config) /\ \A e \in listed : P[e].bucket = home[e]
  BY PositionsRead
<1>10. Payers' = Payers /\ \A e : Targets(e)' = Targets(e)
  <2>1. ASSUME NEW i \in Assets PROVE holding'[i].quote = holding[i].quote
    BY DEF Trade
  <2>2. \A i \in Assets : Tradable(i)' <=> Tradable(i)
    BY <1>1, <2>1 DEF Tradable
  <2>3. Payers' = Payers
    BY <1>1, <2>2, PlanningAssumption DEF Payers
  <2>4. \A e : Targets(e)' = Targets(e)
    BY <1>1, <2>2 DEF Targets
  <2> QED
    BY <2>3, <2>4
<1>11. CashApart' <=> CashApart
  <2>1. \A i \in CashAssets : Tradable(i)' <=> Tradable(i)
    <3>1. \A i \in Assets : holding'[i].quote = holding[i].quote
      BY DEF Trade
    <3> QED
      BY <1>1, <3>1, PlanningAssumption DEF Tradable
  <2> QED
    BY <1>1, <1>4, <2>1 DEF CashApart
<1>12. AsNow(advice.candidates)'
  <2>1. ActiveBuckets' = ActiveBuckets
    BY <1>1 DEF ActiveBuckets
  <2>2. DOMAIN N = listed /\ \A i \in listed : N[i].bucket = P[i].bucket
    BY <1>2 DEF Shifted
  <2> HIDE DEF P, N
  <2>3. \A e : Excluded(config', N, e) <=> Excluded(config, P, e)
    BY <1>1, <1>2, <2>2 DEF Excluded, EmergencyBucket
  <2> DEFINE Same(e) ==
          LET r == RuleFor(RulesOf(ActiveBuckets, rule), e)
          IN  /\ C[e].target = r.target /\ C[e].maximum = r.maximum /\ C[e].allow = r.allow
              /\ C[e].priority = r.priority /\ C[e].name = bucket[e].name
  <2>4. D = ActiveBuckets /\ \A e \in D : Same(e) /\ C[e].excluded = Excluded(config, P, e)
    BY DEF AsNow, Standing, P
  <2> HIDE DEF Same
  <2>5. \A e \in D : C[e].excluded = Excluded(config', N, e)
    BY <2>3, <2>4 DEF Excluded
  <2>6. \A e \in D : Same(e)'
    BY <1>1, <1>4, <2>1, <2>4 DEF Same
  <2> QED
    BY <1>4, <2>1, <2>4, <2>5, <2>6 DEF AsNow, N, Same
<1>13. Accounts'
  <2>1. ~C[b].excluded
    BY <1>1 DEF AdviceFits
  <2>2. config.excluded => ~P[a].emergency
    <3>1. C[b].excluded = Excluded(config, P, b)
      BY <1>1 DEF Standing, AsNow
    <3>2. ~Excluded(config, P, b)
      BY <2>1, <3>1
    <3> HIDE DEF P, N, C
    <3> SUFFICES ASSUME config.excluded, P[a].emergency PROVE FALSE
      OBVIOUS
    <3>3. EmergencyBucket(config, P) = b
      BY <1>2 DEF EmergencyBucket
    <3> QED
      BY <3>2, <3>3 DEF Excluded
  <2>3. /\ Denominator(P, config.excluded) = advice.whole
        /\ Cash(P) = advice.cash + Amount(v, D)
        /\ \A e \in D : (\A i \in Payers : home[i] # e) => BucketValue(P, e) = C[e].value - v[e]
    BY DEF Standing, Accounts
  <2>4. /\ v \in [D -> Int] /\ w \in [D -> Int] /\ w[b] = v[b] - d
        /\ \A e \in D : e # b => w[e] = v[e]
    <3>1. DOMAIN v = D /\ DOMAIN w = D
      BY DEF Net
    <3>2. \A e \in D : /\ v[e] = IF C[e].maximum_breached THEN y[e] ELSE -y[e]
                       /\ w[e] = IF C[e].maximum_breached THEN z[e] ELSE -z[e]
      BY DEF Net
    <3>3. \A e \in D : y[e] \in Nat /\ z[e] \in Int
      BY <1>5, <1>7
    <3> HIDE DEF v, w, y, z, C
    <3>4. \A e \in D : v[e] \in Int /\ w[e] \in Int
      BY <3>2, <3>3
    <3>5. w[b] = v[b] - d
      BY <1>1, <1>7, <1>8, <3>2, <3>3
    <3>6. \A e \in D : e # b => w[e] = v[e]
      BY <1>7, <3>2
    <3>7. v = [e \in D |-> v[e]] /\ w = [e \in D |-> w[e]]
      BY DEF v, w, Net, C
    <3> QED
      BY <3>4, <3>5, <3>6, <3>7
  <2>5. IsFiniteSet(D) /\ advice.cash \in Nat
    BY DEF AdviceFits, Advised, CandidatesOK
  <2> HIDE DEF P, N, v, w, y, z
  <2>6. Amount(w, D) = Amount(v, D) - d /\ Amount(v, D) \in Int
    <3>1. Amount(v, D) \in Int /\ Amount(w, D) = Amount(v, D) + (w[b] - v[b])
      BY <1>1, <2>4, <2>5, AmountChange
    <3> QED
      BY <1>1, <2>4, <3>1
  <2>7. config.excluded \in BOOLEAN
    BY DEF WorldOK, Configs
  <2>8. /\ Denominator(N, config.excluded) = Denominator(P, config.excluded)
        /\ Cash(N) = Cash(P) - d
        /\ \A e : P[k].bucket # e => /\ BucketValue(P, e) \in Nat
                                     /\ BucketValue(N, e) = BucketValue(P, e) + IF P[a].bucket = e THEN d ELSE 0
    BY <1>2, <2>2, <2>7, ShiftedFacts
  <2>9. Cash(N) = advice.cash + Amount(w, D)
    BY <2>3, <2>5, <2>6, <2>8
  <2>10. ASSUME NEW e \in D, \A i \in Payers : home[i] # e PROVE BucketValue(N, e) = C[e].value - w[e]
    <3>1. P[k].bucket # e
      BY <1>1, <1>2, <2>10
    <3>2. /\ BucketValue(P, e) \in Nat
          /\ BucketValue(N, e) = BucketValue(P, e) + IF b = e THEN d ELSE 0
      BY <1>2, <2>8, <3>1
    <3>3. BucketValue(P, e) = C[e].value - v[e]
      BY <2>3, <2>10
    <3>4. C[e].value \in Int
      BY DEF AdviceFits, Advised, CandidatesOK, CandidateOK
    <3> QED
      BY <2>4, <3>2, <3>3, <3>4
  <2> QED
    BY <1>1, <1>4, <1>10, <2>3, <2>8, <2>9, <2>10 DEF Accounts, N, w, z, P
<1>14. Purchasable' = Purchasable /\ Live' \subseteq Live
  <2>1. Purchasable' = Purchasable
    BY <1>10 DEF Purchasable
  <2>2. ASSUME NEW e \in D, e # b PROVE Sellable(e)' = Sellable(e)
    <3>1. \A i \in Targets(e) : i \in Assets \ {a, k}
      BY <1>2, <2>2 DEF Targets
    <3>2. \A i \in Targets(e) : holding'[i] = holding[i]
      BY <3>1 DEF Trade
    <3> QED
      BY <1>10, <3>2 DEF Sellable
  <2>3. ASSUME NEW e \in D, C[e].maximum_breached, z[e] > 0 \/ e \in Saleable' PROVE e \in Live
    <3>1. CASE e = b
      <4>1. a \in Sellable(b)
        BY <1>8, <2>3, <3>1
      <4>2. b \in Saleable
        BY <1>1, <4>1 DEF Saleable, AdviceFits
      <4> QED
        BY <2>3, <3>1, <4>2 DEF Live
    <3>2. CASE e # b
      <4>1. z[e] = y[e]
        BY <1>7, <3>2
      <4>2. e \in Saleable' => e \in Saleable
        BY <1>10, <2>2, <3>2 DEF Saleable
      <4> QED
        BY <2>3, <4>1, <4>2 DEF Live
    <3> QED
      BY <3>1, <3>2
  <2> QED
    BY <1>4, <2>1, <2>3 DEF Live
<1>15. advice'.round \in 0 .. 2
  BY <1>4 DEF Standing
<1>16. advice'.round >= 1 /\ CashApart' => CalmNow'
  <2>1. ASSUME advice'.round >= 1, CashApart' PROVE CalmNow'
    <3>1. CalmNow
      BY <1>4, <1>11, <2>1 DEF Standing
    <3> DEFINE L == Live
               M == Live'
               T == Purchasable
               h == Amounts
    <3>2. M \subseteq L /\ Calm(C, advice.whole, advice.cash, h, T, L)
      BY <1>14, <3>1 DEF CalmNow
    <3> HIDE DEF L, M, T, h
    <3>3. Calm(C, advice.whole, advice.cash, h, T, M)
      BY <3>2, FewerLive
    <3> QED
      BY <1>4, <1>6, <1>14, <3>3 DEF CalmNow, L, M, T, h
  <2> QED
    BY <2>1
<1>17. advice'.round = 2 /\ CashApart' => SettledNow'
  <2>1. ASSUME advice'.round = 2, CashApart' PROVE SettledNow'
    <3>1. SettledNow
      BY <1>4, <1>11, <2>1 DEF Standing
    <3> DEFINE L == Live
               M == Live'
               T == Purchasable
               h == Amounts
    <3>2. M \subseteq L /\ Settled(C, h, T, L)
      BY <1>14, <3>1 DEF SettledNow
    <3> HIDE DEF L, M, T, h
    <3>3. Settled(C, h, T, M)
      BY <3>2, FewerLive
    <3> QED
      BY <1>4, <1>6, <1>14, <3>3 DEF SettledNow, L, M, T, h
  <2> QED
    BY <2>1
<1> QED
  BY <1>12, <1>13, <1>15, <1>16, <1>17 DEF Standing

-----------------------------------------------------------------------------
(* The next answer. *)

\* It is given to the buckets and rules there are.
LEMMA CandidatesAsNow ==
    ASSUME NEW E, E = Candidates(config, Positions(config), NamesRead, RulesOf(ActiveBuckets, rule))
    PROVE  AsNow(E)
<1> DEFINE P == Positions(config)
           rules == RulesOf(ActiveBuckets, rule)
<1>1. DOMAIN NamesRead = ActiveBuckets /\ \A b \in ActiveBuckets : NamesRead[b] = bucket[b].name
  BY DEF NamesRead
<1> HIDE DEF P, rules
<1>2. E = Candidates(config, P, NamesRead, rules)
  BY DEF P, rules
<1>3. DOMAIN E = ActiveBuckets
  BY <1>1, <1>2 DEF Candidates
<1>4. ASSUME NEW b \in ActiveBuckets
      PROVE  /\ E[b].target = RuleFor(rules, b).target /\ E[b].maximum = RuleFor(rules, b).maximum
             /\ E[b].allow = RuleFor(rules, b).allow /\ E[b].priority = RuleFor(rules, b).priority
             /\ E[b].name = bucket[b].name /\ E[b].excluded = Excluded(config, P, b)
  <2> DEFINE r == RuleFor(rules, b)
             name == NamesRead[b]
  <2>1. E[b] = Candidate(config, P, b, name, r)
    BY <1>1, <1>2 DEF Candidates, RuleFor
  <2> HIDE DEF r, name
  <2>2. /\ E[b].target = r.target /\ E[b].maximum = r.maximum /\ E[b].allow = r.allow
        /\ E[b].priority = r.priority /\ E[b].name = name
    BY <2>1 DEF Candidate
  <2>3. E[b].excluded = Excluded(config, P, b)
    BY <2>1 DEF Candidate
  <2> QED
    BY <1>1, <2>2, <2>3 DEF r, name
<1> QED
  BY <1>3, <1>4 DEF AsNow, rules, P

\* Where all cash can be spent and none can, there is none.
LEMMA NoCash ==
    ASSUME WorldOK, CashApart, Spendable = {}
    PROVE  Cash(Positions(config)) = 0
<1> DEFINE P == Positions(config)
           K == {a \in DOMAIN P : P[a].cash /\ ~P[a].emergency}
           v == Worths(P)
<1>1. holding \in [Assets -> Holdings] /\ listed \subseteq Assets /\ home \in [Assets -> Buckets \cup {Absent}]
  BY DEF WorldOK, Holdings
<1>2. P = PositionsOf(holding, listed, home, config) /\ PositionsOK(config, P) /\ DOMAIN P = listed
  BY PositionsRead
<1>3. Valued(P)
  BY <1>2, PositionsValued
<1>4. ASSUME NEW a \in K PROVE P[a].value = 0
  <2>1. a \in listed /\ P[a].cash /\ ~P[a].emergency
    BY <1>2
  <2>2. a \in CashAssets /\ a # config.emergency
    BY <1>2, <2>1 DEF PositionsOK
  <2>3. Tradable(a) /\ a \in Payers
    BY <2>2 DEF CashApart, Payers
  <2>4. ~(holding[a].worth > 0) /\ holding[a].quote = "CURRENT"
    BY <2>3 DEF Spendable, Tradable
  <2>5. holding[a].worth \in Nat
    BY <1>1, <2>1 DEF Holdings
  <2>6. P[a].value = holding[a].worth
    BY <1>1, <1>2, <2>1, <2>4, PositionsOfFacts
  <2> QED
    BY <2>4, <2>5, <2>6
<1>5. Cash(P) = ValueIn(P, K) /\ K \subseteq DOMAIN P
  BY DEF Cash
<1>6. IsFiniteSet(K)
  BY <1>3, <1>5, FS_Subset DEF Valued
<1> HIDE DEF P, K
<1>7. ValueIn(P, K) = Amount(v, K)
  BY <1>3, <1>5, ValueInFacts
<1>8. K \subseteq DOMAIN v /\ \A a \in K : v[a] = 0
  BY <1>4, <1>5 DEF Worths, Unpriced
<1> HIDE DEF v
<1>9. Amount(v, K) = 0
  BY <1>6, <1>8, AmountZero
<1> QED
  BY <1>5, <1>7, <1>9 DEF P

\* What the engines are told next is what following the advice has made of
\* what they were told before.
LEMMA RoundFollowed ==
    ASSUME WorldOK, AdviceFits, Standing, FollowedToTheEnd, CashApart,
           NEW E, AsNow(E), NEW whole, whole = Denominator(Positions(config), config.excluded),
           CandidatesOK(E, whole), NEW next, next = Cash(Positions(config)),
           \A b \in DOMAIN E : E[b].value = BucketValue(Positions(config), b),
           NEW g, Advised(E, whole, next, g)
    PROVE  /\ DOMAIN E = DOMAIN advice.candidates
           /\ Round(advice.candidates, E, whole, advice.cash, next, Amounts, g, Moved, Purchasable, Saleable)
<1> DEFINE C == advice.candidates
           D == DOMAIN advice.candidates
           h == Amounts
           x == Moved
           P == Positions(config)
<1>1. /\ whole = advice.whole /\ next = advice.cash + Amount(Net(C, x), D)
      /\ \A b \in D : (\A k \in Payers : home[k] # b) => BucketValue(P, b) = C[b].value - Net(C, x)[b]
  BY DEF Standing, Accounts
<1>2. Advised(C, whole, advice.cash, h)
  BY <1>1 DEF AdviceFits
<1>3. AsNow(C)
  BY DEF Standing
<1>4. DOMAIN E = D /\ \A b \in D : Alike(C[b], E[b])
  <2>1. DOMAIN E = ActiveBuckets /\ D = ActiveBuckets
    BY <1>3 DEF AsNow
  <2> DEFINE r(b) == RuleFor(RulesOf(ActiveBuckets, rule), b)
  <2>2. ASSUME NEW b \in ActiveBuckets
        PROVE  /\ C[b].target = r(b).target /\ C[b].maximum = r(b).maximum /\ C[b].allow = r(b).allow
               /\ C[b].priority = r(b).priority /\ C[b].name = bucket[b].name
               /\ C[b].excluded = Excluded(config, P, b)
    BY <1>3, <2>1 DEF AsNow
  <2>3. ASSUME NEW b \in ActiveBuckets
        PROVE  /\ E[b].target = r(b).target /\ E[b].maximum = r(b).maximum /\ E[b].allow = r(b).allow
               /\ E[b].priority = r(b).priority /\ E[b].name = bucket[b].name
               /\ E[b].excluded = Excluded(config, P, b)
    BY <2>1 DEF AsNow
  <2> HIDE DEF r, P, C
  <2>4. ASSUME NEW b \in ActiveBuckets PROVE Alike(C[b], E[b])
    <3>1. E[b].excluded = C[b].excluded
      BY <2>2, <2>3, Zenon
    <3> QED
      BY <2>2, <2>3, <3>1 DEF Alike
  <2> QED
    BY <2>1, <2>4
<1>5. ASSUME NEW b \in D, Limited(C[b]) PROVE \A k \in Payers : home[k] # b
  <2> SUFFICES ASSUME NEW k \in Payers, home[k] = b PROVE FALSE
    OBVIOUS
  <2>1. k \in CashAssets \ {config.emergency}
    BY DEF Payers
  <2>2. C[b].target = Absent /\ C[b].maximum = Absent
    BY <1>5, <2>1 DEF CashApart
  <2> QED
    BY <1>5, <2>2 DEF Limited
<1>6. /\ x \in [D -> Nat]
      /\ \A b \in D : /\ x[b] <= Rounded(h[b]) /\ advice.left[b] \in Nat
                      /\ x[b] = Rounded(h[b]) - advice.left[b]
                      /\ advice.answer[b].action = "REDUCE" <=> C[b].maximum_breached
  BY DEF AdviceFits
<1>7. Carried(C, E, whole, h, x)
  <2>1. ASSUME NEW b \in D, Limited(C[b]) PROVE E[b].value = C[b].value - Net(C, x)[b]
    BY <1>1, <1>4, <1>5, <2>1
  <2> HIDE DEF C, h, x
  <2> QED
    BY <1>4, <1>6, <2>1 DEF Carried, C
<1>8. ToTheEnd(C, h, x, next, Purchasable, Saleable)
  <2> SUFFICES ASSUME NEW b \in D, x[b] < Rounded(h[b])
               PROVE  IF C[b].maximum_breached THEN b \notin Saleable ELSE b \notin Purchasable \/ next = 0
    BY DEF ToTheEnd
  <2>1. DOMAIN advice.left = D
    BY DEF AdviceFits
  <2>2. advice.left[b] > 0
    <3>1. h[b] \in Nat
      BY DEF AdviceFits, Advised
    <3>2. Rounded(h[b]) \in Int
      BY <3>1 DEF Rounded
    <3> HIDE DEF h, x
    <3> QED
      BY <1>6, <3>2
  <2>3. IF advice.answer[b].action = "REDUCE" THEN Sellable(b) = {} \/ Payers = {}
        ELSE Spendable = {} \/ Targets(b) = {}
    BY <2>1, <2>2 DEF FollowedToTheEnd
  <2>4. CASE C[b].maximum_breached
    <3>1. Sellable(b) = {} \/ Payers = {}
      BY <1>6, <2>3, <2>4
    <3> QED
      BY <2>4, <3>1 DEF Saleable
  <2>5. CASE ~C[b].maximum_breached
    <3>1. Spendable = {} \/ Targets(b) = {}
      BY <1>6, <2>3, <2>5
    <3>2. Spendable = {} => next = 0
      BY NoCash
    <3> QED
      BY <2>5, <3>1, <3>2 DEF Purchasable
  <2> QED
    BY <2>4, <2>5
<1> HIDE DEF C, h, x, P
<1>9. Round(C, E, whole, advice.cash, next, h, g, x, Purchasable, Saleable)
  BY <1>1, <1>2, <1>7, <1>8 DEF Round, C
<1> QED
  BY <1>4, <1>9 DEF C, h, x

\* An answer given in a quiet world stands.
LEMMA AnswerStands ==
    ASSUME AdminTypeOK, WorldOK, ReadingOK, AdviceFits, SettlingInv, Answer, quiet
    PROVE  Standing' /\ RoundsOK'
<1> DEFINE P == Positions(config)
           rules == RulesOf(ActiveBuckets, rule)
           whole == Denominator(P, config.excluded)
           next == Cash(P)
           E == Candidates(config, P, NamesRead, rules)
           R == Rebalancing(E, whole, next)
           g == [b \in DOMAIN E |-> R[b].amount]
           left == [b \in DOMAIN R |-> Rounded(R[b].amount)]
           seen == StrategySeen(config, P, rules)
           C == advice.candidates
           T == Purchasable
           Q == Saleable
           L == Live'
           z == Moved'
<1>1. /\ reading.at = "targets" /\ reading.config = config /\ reading.positions = P
      /\ reading.names = NamesRead /\ NamesOK(NamesRead) /\ reading # NotAsked
  <2>1. reading.at = "targets"
    BY DEF Answer
  <2>2. reading.names = NamesRead
    BY <2>1 DEF SettlingInv
  <2> QED
    BY <2>1, <2>2 DEF ReadingOK, NotAsked
<1>2. /\ advice' = [candidates |-> E, strategy |-> seen, whole |-> whole, cash |-> next,
                    answer |-> R, left |-> left, round |-> rounds]
      /\ reading' = NotAsked
      /\ UNCHANGED <<bucket, rule, holding, listed, home, config, quiet, rounds>>
  <2>1. DOMAIN reading.names = ActiveBuckets
    BY <1>1 DEF NamesRead
  <2> QED
    BY <1>1, <2>1 DEF Answer, adminVars, worldVars
<1>3. config.excluded \in BOOLEAN /\ PositionsOK(config, P)
  BY PositionsRead DEF WorldOK, Configs
<1>4. RulesOK(rules)
  BY DEF RulesOf, RulesOK, AdminTypeOK
<1>5. /\ CandidatesOK(E, whole)
      /\ \A b \in DOMAIN E : E[b].value = BucketValue(P, b)
  BY <1>1, <1>3, <1>4, CandidatesFacts
<1>6. next \in Nat
  <2> DEFINE K == {a \in DOMAIN P : P[a].cash /\ ~P[a].emergency}
  <2>1. next = ValueIn(P, K) /\ K \subseteq DOMAIN P /\ Valued(P)
    BY <1>3, PositionsValued DEF Cash
  <2> HIDE DEF K, next
  <2> QED
    BY <2>1, ValueInFacts
<1>7. AsNow(E)
  BY CandidatesAsNow
<1> HIDE DEF E, whole, next
<1>8. DOMAIN R = DOMAIN E /\ \A b \in DOMAIN E : R[b].amount \in Nat
  BY <1>5, <1>6, RebalancingFacts
<1> HIDE DEF R
<1>9. DOMAIN left = DOMAIN E /\ \A b \in DOMAIN E : left[b] = Rounded(R[b].amount) /\ left[b] \in Nat
  BY <1>8 DEF Rounded
<1> HIDE DEF left, seen
<1>10. /\ advice'.candidates = E /\ advice'.whole = whole /\ advice'.cash = next
       /\ advice'.answer = R /\ advice'.left = left /\ advice'.round = rounds
  BY <1>2
<1>11. g = Amounts' /\ Advised(E, whole, next, g)
  <2>1. g = Amounts'
    BY <1>10 DEF Amounts
  <2> QED
    BY <1>5, <1>6, <2>1, AnswerAdvised DEF R
<1>12. DOMAIN z = DOMAIN E /\ \A b \in DOMAIN E : z[b] = 0
  BY <1>9, <1>10 DEF Moved
<1>13. Positions(config)' = P /\ ActiveBuckets' = ActiveBuckets
  BY <1>2 DEF Positions, ActiveBuckets
<1>14. Payers' = Payers /\ Purchasable' = T /\ Saleable' = Q
  <2>1. Payers' = Payers
    BY <1>2 DEF Payers, Tradable
  <2>2. \A b : Targets(b)' = Targets(b) /\ Sellable(b)' = Sellable(b)
    BY <1>2 DEF Targets, Sellable, Tradable
  <2> QED
    BY <2>1, <2>2 DEF Purchasable, Saleable
<1>15. AsNow(advice.candidates)'
  BY <1>2, <1>7, <1>10, <1>13 DEF AsNow
<1>16. Accounts'
  <2> DEFINE w == Net(E, z)
  <2>1. DOMAIN w = DOMAIN E /\ \A b \in DOMAIN E : w[b] = 0
    BY <1>12 DEF Net
  <2>2. IsFiniteSet(DOMAIN E) /\ \A b \in DOMAIN E : E[b].value \in Nat
    BY <1>5 DEF CandidatesOK, CandidateOK
  <2> HIDE DEF w
  <2>3. Amount(w, DOMAIN E) = 0
    BY <2>1, <2>2, AmountZero
  <2>4. \A b \in DOMAIN E : BucketValue(P, b) = E[b].value - w[b]
    BY <1>5, <2>1, <2>2
  <2>5. next = next + Amount(w, DOMAIN E)
    BY <1>6, <2>3
  <2> HIDE DEF z, P
  <2> QED
    BY <1>2, <1>10, <1>13, <2>4, <2>5 DEF Accounts, w, z, whole, next
<1>17. L \subseteq DOMAIN E /\ \A e \in L : E[e].maximum_breached /\ e \in Q
  BY <1>10, <1>12, <1>14 DEF Live
<1>18. ASSUME rounds >= 1, CashApart'
       PROVE  /\ Standing /\ rounds = Smaller(advice.round + 1, 2)
              /\ CashApart /\ DOMAIN E = DOMAIN C
              /\ Round(C, E, whole, advice.cash, next, Amounts, g, Moved, T, Q)
  <2>1. Standing /\ FollowedToTheEnd /\ rounds = Smaller(advice.round + 1, 2)
    <3>1. Current
      BY <1>18 DEF Current, WorldOK
    <3> QED
      BY <1>1, <3>1 DEF SettlingInv, RoundsOK
  <2>2. CashApart
    <3>1. AsNow(C)
      BY <2>1 DEF Standing
    <3>2. DOMAIN E = DOMAIN C /\ \A b \in DOMAIN C : E[b].target = C[b].target /\ E[b].maximum = C[b].maximum
      BY <1>7, <3>1 DEF AsNow
    <3>3. \A k \in CashAssets : Tradable(k)' <=> Tradable(k)
      BY <1>2 DEF Tradable
    <3> QED
      BY <1>2, <1>10, <1>18, <3>2, <3>3 DEF CashApart
  <2> HIDE DEF g
  <2> QED
    BY <1>5, <1>7, <1>11, <2>1, <2>2, RoundFollowed DEF whole, next
<1> DEFINE h == Amounts
           x == Moved
           cash == advice.cash
           M == Live
<1>19. rounds >= 1 /\ CashApart' => CalmNow'
  <2> SUFFICES ASSUME rounds >= 1, CashApart' PROVE CalmNow'
    OBVIOUS
  <2>1. Round(C, E, whole, cash, next, h, g, x, T, Q)
    BY <1>18
  <2> HIDE DEF g, C, T, Q, h, x, cash, L
  <2>2. Calm(E, whole, next, g, T, L)
    BY <1>17, <2>1, OneRound
  <2> QED
    BY <1>10, <1>11, <1>14, <2>2 DEF CalmNow, L
<1>20. rounds = 2 /\ CashApart' => SettledNow'
  <2> SUFFICES ASSUME rounds = 2, CashApart' PROVE SettledNow'
    OBVIOUS
  <2>1. Round(C, E, whole, cash, next, h, g, x, T, Q) /\ Standing /\ CashApart /\ DOMAIN E = DOMAIN C
    BY <1>18
  <2>2. advice.round >= 1
    <3>1. advice.round \in 0 .. 2 /\ 2 = Smaller(advice.round + 1, 2)
      BY <1>18, <2>1 DEF Standing
    <3> QED
      BY <3>1 DEF Smaller
  <2>3. CalmNow
    BY <2>1, <2>2 DEF Standing
  <2>4. Calm(C, whole, cash, h, T, M)
    <3>1. advice.whole = whole
      BY <2>1 DEF Standing, Accounts, whole
    <3> QED
      BY <2>3, <3>1 DEF CalmNow
  <2>5. M \subseteq DOMAIN C /\ \A e \in DOMAIN C : C[e].maximum_breached /\ x[e] > 0 => e \in M
    BY DEF Live
  <2> HIDE DEF g, C, T, Q, h, x, cash, L, M
  <2>6. Settled(E, g, T, L)
    BY <1>17, <2>1, <2>4, <2>5, TwoRounds
  <2> QED
    BY <1>10, <1>11, <1>14, <2>6 DEF SettledNow, L
<1>21. advice'.round \in 0 .. 2
  BY <1>10 DEF WorldOK
<1>22. Standing'
  BY <1>10, <1>15, <1>16, <1>19, <1>20, <1>21 DEF Standing
<1>23. RoundsOK'
  BY <1>2, <1>10 DEF RoundsOK
<1> QED
  BY <1>22, <1>23

-----------------------------------------------------------------------------
(* The invariant holds. *)

\* Asking again, and being read to, leave the advice standing.
LEMMA ReadingKeepsSettling ==
    ASSUME SettlingInv, ReadConfig \/ ReadPositions \/ ReadBuckets
    PROVE  SettlingInv'
<1>1. UNCHANGED StandsOn /\ NamesRead' = NamesRead
  BY StandingStays DEF ReadConfig, ReadPositions, ReadBuckets, adminVars, worldVars, StandsOn
<1>2. (Standing => Standing') /\ (FollowedToTheEnd => FollowedToTheEnd') /\ advice' = advice
  BY <1>1, StandingStays DEF StandsOn
<1>3. CASE ReadConfig
  <2>1. reading = NotAsked /\ reading'.at = "positions" /\ reading' # NotAsked
    BY <1>3 DEF ReadConfig, NotAsked
  <2>2. ASSUME rounds' > 0 PROVE Standing' /\ RoundsOK'
    <3>1. quiet /\ FollowedToTheEnd /\ rounds' = Smaller(rounds + 1, 2)
      BY <1>3, <2>2 DEF ReadConfig
    <3>2. Standing /\ RoundsOK
      BY <2>1, <3>1 DEF SettlingInv, Current
    <3>3. rounds' = Smaller(advice.round + 1, 2)
      BY <2>1, <3>1, <3>2 DEF RoundsOK
    <3> QED
      BY <1>2, <2>1, <3>1, <3>2, <3>3 DEF RoundsOK
  <2> QED
    BY <2>1, <2>2 DEF SettlingInv, Current
<1>4. CASE ReadPositions \/ ReadBuckets
  <2>1. reading # NotAsked /\ reading' # NotAsked /\ quiet' = quiet /\ rounds' = rounds
    BY <1>4 DEF ReadPositions, ReadBuckets, NotAsked
  <2>2. reading'.at = "targets" => reading'.names = NamesRead'
    <3>1. CASE ReadPositions
      BY <3>1 DEF ReadPositions
    <3>2. CASE ReadBuckets
      BY <1>1, <3>2 DEF ReadBuckets, NamesRead
    <3> QED
      BY <1>4, <3>1, <3>2
  <2>3. Current' => Standing' /\ RoundsOK'
    BY <1>2, <2>1 DEF SettlingInv, Current, RoundsOK
  <2> QED
    BY <2>2, <2>3 DEF SettlingInv
<1> QED
  BY <1>3, <1>4

\* No step breaks it.
LEMMA SettlingStep ==
    ASSUME PlanningInv, PlanningInv', SettlingInv, [PlanNext]_planVars
    PROVE  SettlingInv'
<1>1. WorldOK /\ WorldOK' /\ ReadingOK /\ AdminTypeOK
  BY DEF PlanningInv
<1>2. AdviceFits
  BY AdviceSeen
<1>3. CASE quiet' = FALSE
  BY <1>3 DEF SettlingInv, Current
<1>4. CASE UNCHANGED <<StandsOn, reading, quiet, rounds>>
  <2>1. /\ UNCHANGED StandsOn /\ reading' = reading /\ quiet' = quiet /\ rounds' = rounds
    BY <1>4
  <2>2. /\ (Standing => Standing') /\ (FollowedToTheEnd => FollowedToTheEnd')
        /\ NamesRead' = NamesRead /\ advice' = advice
    BY <2>1, StandingStays DEF StandsOn
  <2>3. RoundsOK => RoundsOK'
    BY <2>1, <2>2 DEF RoundsOK
  <2> QED
    BY <2>1, <2>2, <2>3 DEF SettlingInv, Current
<1>5. CASE ReadConfig \/ ReadPositions \/ ReadBuckets
  BY <1>5, ReadingKeepsSettling
<1>6. CASE Answer
  <2>1. reading' = NotAsked /\ quiet' = quiet /\ reading'.at # "targets"
    BY <1>6 DEF Answer, NotAsked
  <2>2. quiet => Standing' /\ RoundsOK'
    BY <1>1, <1>2, <1>6, AnswerStands
  <2> QED
    BY <2>1, <2>2 DEF SettlingInv, Current
<1>7. ASSUME NEW b \in Buckets, NEW a \in Assets, NEW k \in CashAssets, Buy(b, a, k) \/ Sell(b, a, k)
      PROVE  SettlingInv'
  <2>1. \A e \in DOMAIN advice.left : advice.left[e] \in Nat
    BY <1>2 DEF AdviceFits
  <2>2. Fresh /\ a # k /\ k \in Assets /\ \E x \in Nat, d \in Int : Trade(b, a, k, x, d)
    BY <1>1, <1>7, <2>1, TradesAre
  <2>3. PICK x \in Nat, d \in Int : Trade(b, a, k, x, d)
    BY <2>2
  <2>4. Standing /\ RoundsOK /\ reading = NotAsked
    BY <2>2 DEF SettlingInv, Current, Fresh
  <2>5. Standing'
    BY <1>1, <1>2, <2>2, <2>3, <2>4, TradeKeepsStanding
  <2>6. reading' = NotAsked /\ reading'.at # "targets" /\ rounds' = rounds
    BY <2>3, <2>4 DEF Trade, NotAsked
  <2>7. advice'.round = advice.round
    BY <1>2, <2>3 DEF Trade, AdviceFits, LeftOK
  <2>8. RoundsOK'
    BY <2>4, <2>6, <2>7 DEF RoundsOK
  <2> QED
    BY <2>5, <2>6, <2>8 DEF SettlingInv
<1> QED
  BY <1>3, <1>4, <1>5, <1>6, <1>7, QuietSteps

\* In a quiet world the advice, as far as it has been followed, is what the
\* next answer starts from: the count of rounds is the advice's own.
THEOREM SettlingInvariant == PlanSpec => []SettlingInv
<1>1. PlanInit => SettlingInv
  BY DEF PlanInit, SettlingInv, Current
<1>2. PlanningInv /\ PlanningInv' /\ SettlingInv /\ [PlanNext]_planVars => SettlingInv'
  BY SettlingStep
<1> QED
  BY <1>1, <1>2, PlanningInvariant, PTL DEF PlanSpec

\* Advice that is followed settles: in a quiet world, after two answers that
\* were followed to the end, nothing is asked any more but what rounding makes
\* of it.
THEOREM FollowedAdviceSettles == PlanSpec => []AdviceSettles
<1>1. PlanningInv /\ SettlingInv => AdviceSettles
  <2> SUFFICES ASSUME PlanningInv, SettlingInv, Fresh, advice.round = 2, CashApart,
                      NEW b \in DOMAIN advice.answer
               PROVE  LET amount == advice.answer[b].amount
                      IN  IF advice.answer[b].action = "REDUCE"
                          THEN Sellable(b) # {} /\ Payers # {} => amount <= 50
                          ELSE Targets(b) # {} =>
                                 amount <= 50 \/ amount < 50 * Cardinality(DOMAIN advice.answer)
    BY DEF AdviceSettles
  <2> DEFINE C == advice.candidates
             amount == advice.answer[b].amount
             h == Amounts
  <2>1. SettledNow
    BY DEF SettlingInv, Current, Fresh, Standing
  <2>2. /\ b \in DOMAIN C /\ b \in Buckets /\ amount = h[b] /\ DOMAIN advice.answer = DOMAIN C
        /\ advice.answer[b].action = "REDUCE" <=> C[b].maximum_breached
    BY AdviceSeen DEF AdviceFits
  <2>3. ASSUME C[b].maximum_breached, Sellable(b) # {}, Payers # {} PROVE amount <= 50
    <3>1. b \in Live
      BY <2>2, <2>3 DEF Live, Saleable
    <3> QED
      BY <2>1, <2>2, <3>1 DEF SettledNow, Settled
  <2>4. ASSUME ~C[b].maximum_breached, Targets(b) # {}
        PROVE  amount <= 50 \/ amount < 50 * Cardinality(DOMAIN advice.answer)
    <3>1. b \in Purchasable \cap DOMAIN C
      BY <2>2, <2>4 DEF Purchasable
    <3> QED
      BY <2>1, <2>2, <2>4, <3>1 DEF SettledNow, Settled
  <2> HIDE DEF amount, h, C
  <2> QED
    BY <2>2, <2>3, <2>4 DEF amount
<1> QED
  BY <1>1, PlanningInvariant, SettlingInvariant, PTL
=============================================================================
