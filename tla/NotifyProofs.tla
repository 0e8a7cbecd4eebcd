---------------------------- MODULE NotifyProofs ----------------------------
(***************************************************************************)
(* What holds of notifications for any number of sessions, rules and        *)
(* recommendations, and of changes and crashes.                             *)
(***************************************************************************)
EXTENDS AlertNotify, SumFacts, SequenceTheorems

-----------------------------------------------------------------------------
(* Sequences of sequences.  FlattenSeq is a recursive function of how many  *)
(* of them have been joined, so that what it returns is a matter of         *)
(* induction, done once and for all here.                                   *)

\* What joins the first i of the sequences q.
Join(g, q, i) == IF i = 1 THEN q[i] ELSE g[i - 1] \o q[i]
Joins(g, q, n) == g = [i \in 1 .. n |-> Join(g, q, i)]

\* There is a function that does.
LEMMA JoinExists ==
    ASSUME NEW q, NEW n \in Nat
    PROVE  \E g : Joins(g, q, n)
<1> DEFINE bad == {m \in Nat : ~\E g : Joins(g, q, m)}
<1> SUFFICES ASSUME bad # {} PROVE FALSE
  OBVIOUS
<1>1. PICK m \in bad : \A k \in bad : m <= k
  <2>1. bad \subseteq Nat
    OBVIOUS
  <2> HIDE DEF bad
  <2> QED
    BY <2>1, LeastNumber
<1>2. m \in Nat /\ ~\E g : Joins(g, q, m)
  OBVIOUS
<1>3. CASE m = 0
  <2>1. Joins([i \in 1 .. 0 |-> q[i]], q, 0)
    BY DEF Joins
  <2> QED
    BY <1>2, <1>3, <2>1
<1>4. CASE m # 0
  <2>1. m - 1 \in Nat /\ ~(m <= m - 1)
    BY <1>2, <1>4
  <2>2. m - 1 \notin bad
    BY <1>1, <2>1
  <2>3. PICK g : Joins(g, q, m - 1)
    BY <2>1, <2>2
  <2> DEFINE h == [i \in 1 .. m |-> Join(g, q, i)]
  <2>4. \A i \in 1 .. m - 1 : g[i] = h[i]
    <3>1. g = [i \in 1 .. m - 1 |-> Join(g, q, i)]
      BY <2>3 DEF Joins
    <3>2. \A i \in 1 .. m - 1 : i \in 1 .. m /\ g[i] = Join(g, q, i)
      BY <2>1, <3>1
    <3> QED
      BY <3>2
  <2>5. \A i \in 1 .. m : Join(g, q, i) = Join(h, q, i)
    <3> TAKE i \in 1 .. m
    <3>1. CASE i = 1
      BY <3>1 DEF Join
    <3>2. CASE i # 1
      <4>1. i - 1 \in 1 .. m - 1
        BY <1>2, <3>2
      <4>2. g[i - 1] = h[i - 1]
        BY <2>4, <4>1
      <4> HIDE DEF h
      <4> QED
        BY <3>2, <4>2 DEF Join
    <3> QED
      BY <3>1, <3>2
  <2>6. Joins(h, q, m)
    <3>1. h = [i \in 1 .. m |-> Join(g, q, i)]
      OBVIOUS
    <3> HIDE DEF h
    <3>2. [i \in 1 .. m |-> Join(g, q, i)] = [i \in 1 .. m |-> Join(h, q, i)]
      BY <2>5
    <3> QED
      BY <3>1, <3>2 DEF Joins
  <2> QED
    BY <1>2, <2>6
<1> QED
  BY <1>3, <1>4

\* The place of an element of the flat sequence: which of the sequences it
\* comes from, and where it was in that.
Places(at, flat, q, n) ==
    /\ at \in [1 .. Len(flat) -> Nat \X Nat]
    /\ \A k \in 1 .. Len(flat) : /\ at[k][1] \in 1 .. n
                                 /\ at[k][2] \in 1 .. Len(q[at[k][1]])
                                 /\ flat[k] = q[at[k][1]][at[k][2]]
    /\ \A k, l \in 1 .. Len(flat) : at[k] = at[l] => k = l
    /\ \A i \in 1 .. n : \A j \in 1 .. Len(q[i]) : \E k \in 1 .. Len(flat) : at[k] = <<i, j>>

\* One more sequence, t, is joined to the first n.
LEMMA PlacesGrow ==
    ASSUME NEW S, NEW q \in Seq(Seq(S)), NEW n \in Nat, n + 1 <= Len(q),
           NEW s \in Seq(S), NEW at, Places(at, s, q, n)
    PROVE  \E new : Places(new, s \o q[n + 1], q, n + 1)
<1> DEFINE t    == q[n + 1]
           flat == s \o t
           new  == [k \in 1 .. Len(s) + Len(t) |->
                       IF k <= Len(s) THEN at[k] ELSE <<n + 1, k - Len(s)>>]
<1>1. t \in Seq(S) /\ Len(t) \in Nat /\ Len(s) \in Nat
  <2>1. n + 1 \in 1 .. Len(q)
    BY LenProperties
  <2> QED
    BY <2>1, ElementOfSeq, LenProperties
<1>2. /\ Len(flat) = Len(s) + Len(t)
      /\ \A k \in 1 .. Len(s) + Len(t) : flat[k] = IF k <= Len(s) THEN s[k] ELSE t[k - Len(s)]
  BY <1>1, ConcatProperties
<1> HIDE DEF flat, t
<1>3. ASSUME NEW k \in 1 .. Len(s) + Len(t)
      PROVE  /\ new[k] \in Nat \X Nat
             /\ new[k][1] \in 1 .. n + 1
             /\ new[k][2] \in 1 .. Len(q[new[k][1]])
             /\ flat[k] = q[new[k][1]][new[k][2]]
             /\ k <= Len(s) => k \in 1 .. Len(s) /\ new[k] = at[k] /\ new[k][1] # n + 1
             /\ ~(k <= Len(s)) => new[k][1] = n + 1 /\ new[k][2] = k - Len(s)
  <2>1. CASE k <= Len(s)
    <3>1. k \in 1 .. Len(s) /\ new[k] = at[k]
      BY <1>1, <2>1
    <3>2. /\ at[k] \in Nat \X Nat /\ at[k][1] \in 1 .. n
          /\ at[k][2] \in 1 .. Len(q[at[k][1]]) /\ s[k] = q[at[k][1]][at[k][2]]
      BY <3>1 DEF Places
    <3>3. flat[k] = s[k]
      BY <1>2, <2>1
    <3> HIDE DEF new
    <3> QED
      BY <2>1, <3>1, <3>2, <3>3
  <2>2. CASE ~(k <= Len(s))
    <3>1. new[k] = <<n + 1, k - Len(s)>>
      BY <2>2
    <3>2. flat[k] = t[k - Len(s)] /\ k - Len(s) \in 1 .. Len(t)
      BY <1>1, <1>2, <2>2
    <3> HIDE DEF new
    <3> QED
      BY <2>2, <3>1, <3>2 DEF t
  <2> QED
    BY <2>1, <2>2
<1>4. new \in [1 .. Len(flat) -> Nat \X Nat]
  BY <1>2, <1>3
<1>5. ASSUME NEW k \in 1 .. Len(s) + Len(t), NEW l \in 1 .. Len(s) + Len(t), new[k] = new[l]
      PROVE  k = l
  <2> HIDE DEF new
  <2>1. CASE k <= Len(s)
    <3>1. l <= Len(s)
      BY <1>3, <1>5, <2>1
    <3>2. at[k] = at[l] /\ k \in 1 .. Len(s) /\ l \in 1 .. Len(s)
      BY <1>3, <1>5, <2>1, <3>1
    <3> QED
      BY <3>2 DEF Places
  <2>2. CASE ~(k <= Len(s))
    <3>1. ~(l <= Len(s))
      BY <1>3, <1>5, <2>2
    <3>2. k - Len(s) = l - Len(s)
      BY <1>3, <1>5, <2>2, <3>1
    <3> QED
      BY <1>1, <3>2
  <2> QED
    BY <2>1, <2>2
<1>6. ASSUME NEW i \in 1 .. n + 1, NEW j \in 1 .. Len(q[i])
      PROVE  \E k \in 1 .. Len(s) + Len(t) : new[k] = <<i, j>>
  <2>1. CASE i = n + 1
    <3>1. j \in 1 .. Len(t)
      BY <1>6, <2>1 DEF t
    <3>2. /\ Len(s) + j \in 1 .. Len(s) + Len(t) /\ ~(Len(s) + j <= Len(s))
          /\ (Len(s) + j) - Len(s) = j
      BY <1>1, <3>1
    <3> QED
      BY <2>1, <3>2
  <2>2. CASE i # n + 1
    <3>1. i \in 1 .. n
      BY <2>2
    <3>2. PICK k \in 1 .. Len(s) : at[k] = <<i, j>>
      BY <1>6, <3>1 DEF Places
    <3>3. k \in 1 .. Len(s) + Len(t) /\ k <= Len(s)
      BY <1>1
    <3> QED
      BY <3>2, <3>3
  <2> QED
    BY <2>1, <2>2
<1> HIDE DEF new
<1>7. Places(new, flat, q, n + 1)
  <2>1. \A i \in 1 .. n + 1 : \A j \in 1 .. Len(q[i]) : \E k \in 1 .. Len(flat) : new[k] = <<i, j>>
    BY <1>2, <1>6
  <2> QED
    BY <1>2, <1>3, <1>4, <1>5, <2>1 DEF Places
<1> QED
  BY <1>7 DEF flat, t

\* What FlattenSeq returns: a sequence of elements of the sequences, each of
\* which is there once.
LEMMA FlattenFacts ==
    ASSUME NEW S, NEW q \in Seq(Seq(S))
    PROVE  FlattenSeq(q) \in Seq(S) /\ \E at : Places(at, FlattenSeq(q), q, Len(q))
<1>1. Len(q) \in Nat
  BY LenProperties
<1>2. CASE Len(q) = 0
  <2>1. q = <<>>
    BY <1>2, EmptySeq
  <2>2. FlattenSeq(q) = <<>>
    BY <1>2, <2>1 DEF FlattenSeq
  <2>3. Places(<<>>, <<>>, q, Len(q))
    BY <1>2 DEF Places
  <2> QED
    BY <2>2, <2>3
<1>3. CASE Len(q) # 0
  <2> DEFINE flatten == CHOOSE g : g = [i \in 1 .. Len(q) |-> IF i = 1 THEN q[i] ELSE g[i - 1] \o q[i]]
             Ready(i) == flatten[i] \in Seq(S) /\ \E at : Places(at, flatten[i], q, i)
             bad == {i \in 1 .. Len(q) : ~Ready(i)}
  <2>1. FlattenSeq(q) = flatten[Len(q)]
    BY <1>3 DEF FlattenSeq
  <2>2. flatten = [i \in 1 .. Len(q) |-> IF i = 1 THEN q[i] ELSE flatten[i - 1] \o q[i]]
    <3>1. \E g : g = [i \in 1 .. Len(q) |-> IF i = 1 THEN q[i] ELSE g[i - 1] \o q[i]]
      BY <1>1, JoinExists DEF Joins, Join
    <3> QED
      BY <3>1
  <2> HIDE DEF flatten
  <2>3. \A i \in 1 .. Len(q) : flatten[i] = IF i = 1 THEN q[i] ELSE flatten[i - 1] \o q[i]
    BY <2>2
  <2>4. Ready(1)
    <3>1. 1 \in 1 .. Len(q) /\ q[1] \in Seq(S)
      BY <1>1, <1>3, ElementOfSeq
    <3>2. flatten[1] = q[1] /\ Len(q[1]) \in Nat
      BY <2>3, <3>1, LenProperties
    <3>3. \E at : Places(at, q[1], q, 1)
      <4> DEFINE at == [k \in 1 .. Len(q[1]) |-> <<1, k>>]
      <4>1. /\ at \in [1 .. Len(q[1]) -> Nat \X Nat]
            /\ \A k \in 1 .. Len(q[1]) : at[k] = <<1, k>>
        BY <3>2
      <4> HIDE DEF at
      <4>2. \A k \in 1 .. Len(q[1]) : at[k][1] = 1 /\ at[k][2] = k /\ 1 \in 1 .. 1
        BY <4>1
      <4>3. \A i \in 1 .. 1 : \A j \in 1 .. Len(q[i]) : \E k \in 1 .. Len(q[1]) : at[k] = <<i, j>>
        <5>1. \A i \in 1 .. 1 : i = 1
          OBVIOUS
        <5> QED
          BY <4>1, <5>1
      <4>4. \A k, l \in 1 .. Len(q[1]) : at[k] = at[l] => k = l
        BY <4>2
      <4>5. Places(at, q[1], q, 1)
        BY <3>2, <4>1, <4>2, <4>3, <4>4 DEF Places
      <4> QED
        BY <4>5
    <3> QED
      BY <3>1, <3>2, <3>3
  <2>5. ASSUME NEW i \in Nat, i + 1 \in 1 .. Len(q), i # 0, Ready(i) PROVE Ready(i + 1)
    <3>1. flatten[i + 1] = flatten[i] \o q[i + 1]
      <4>1. (i + 1) - 1 = i /\ i + 1 # 1
        BY <2>5
      <4> QED
        BY <2>3, <2>5, <4>1
    <3>2. q[i + 1] \in Seq(S)
      BY <2>5, ElementOfSeq
    <3>3. flatten[i + 1] \in Seq(S)
      BY <2>5, <3>1, <3>2, ConcatProperties
    <3>4. i + 1 <= Len(q)
      BY <2>5
    <3>5. \E at : Places(at, flatten[i] \o q[i + 1], q, i + 1)
      <4>1. PICK at : Places(at, flatten[i], q, i)
        BY <2>5
      <4> QED
        BY <2>5, <3>4, <4>1, PlacesGrow
    <3> QED
      BY <3>1, <3>3, <3>5
  <2>6. bad = {}
    <3> SUFFICES ASSUME bad # {} PROVE FALSE
      OBVIOUS
    <3>1. bad \subseteq Nat
      BY <1>1
    <3>2. PICK m \in bad : \A k \in bad : m <= k
      <4> HIDE DEF bad
      <4> QED
        BY <3>1, LeastNumber
    <3>3. m \in 1 .. Len(q) /\ ~Ready(m)
      OBVIOUS
    <3> HIDE DEF Ready
    <3>4. m # 1
      BY <2>4, <3>3
    <3>5. /\ m - 1 \in Nat /\ (m - 1) + 1 = m /\ m - 1 # 0
          /\ m - 1 \in 1 .. Len(q) /\ ~(m <= m - 1)
      BY <1>1, <3>3, <3>4
    <3>6. Ready(m - 1)
      BY <3>2, <3>5
    <3> QED
      BY <2>5, <3>3, <3>5, <3>6
  <2>7. Len(q) \in 1 .. Len(q)
    BY <1>1, <1>3
  <2>8. Ready(Len(q))
    <3> HIDE DEF Ready
    <3> QED
      BY <2>6, <2>7
  <2> QED
    BY <2>1, <2>8
<1> QED
  BY <1>2, <1>3

\* A sequence is a function on the numbers up to its length.
LEMMA FunctionIsSeq ==
    ASSUME NEW S, NEW n \in Nat, NEW f \in [1 .. n -> S]
    PROVE  f \in Seq(S) /\ Len(f) = n
<1> QED
  OBVIOUS

\* A sequence of one element or none.
LEMMA OneOrNone ==
    ASSUME NEW S, NEW e \in S, NEW t \in {<<e>>, <<>>}
    PROVE  t \in Seq(S) /\ Len(t) <= 1 /\ (t # <<>> => t[1] = e)
<1>1. CASE t = <<e>>
  BY <1>1
<1>2. CASE t = <<>>
  BY <1>2
<1> QED
  BY <1>1, <1>2

\* Each element of the flat sequence comes from a sequence of its own.
PickedFrom(from, flat, q) ==
    /\ from \in [1 .. Len(flat) -> 1 .. Len(q)]
    /\ \A k \in 1 .. Len(flat) : q[from[k]] # <<>> /\ flat[k] = q[from[k]][1]
    /\ \A k, l \in 1 .. Len(flat) : from[k] = from[l] => k = l
    /\ \A i \in 1 .. Len(q) : q[i] # <<>> => \E k \in 1 .. Len(flat) : from[k] = i

\* A sequence that is picked element by element.
LEMMA PickedFacts ==
    ASSUME NEW S, NEW q \in Seq(Seq(S)), \A i \in 1 .. Len(q) : Len(q[i]) <= 1
    PROVE  FlattenSeq(q) \in Seq(S) /\ \E from : PickedFrom(from, FlattenSeq(q), q)
<1> DEFINE flat == FlattenSeq(q)
           n == Len(q)
<1>1. n \in Nat
  BY LenProperties
<1>2. flat \in Seq(S) /\ \E at : Places(at, flat, q, n)
  BY FlattenFacts
<1> HIDE DEF flat, n
<1>3. PICK at : Places(at, flat, q, n)
  BY <1>2
<1> DEFINE from == [k \in 1 .. Len(flat) |-> at[k][1]]
<1>4. ASSUME NEW k \in 1 .. Len(flat)
      PROVE  /\ from[k] = at[k][1] /\ at[k][1] \in 1 .. n /\ at[k][2] = 1
             /\ at[k] = <<from[k], 1>>
             /\ q[from[k]] # <<>> /\ flat[k] = q[from[k]][1]
  <2>1. /\ at[k] \in Nat \X Nat /\ at[k][1] \in 1 .. n
        /\ at[k][2] \in 1 .. Len(q[at[k][1]]) /\ flat[k] = q[at[k][1]][at[k][2]]
    BY <1>3 DEF Places
  <2>2. Len(q[at[k][1]]) \in Nat /\ Len(q[at[k][1]]) <= 1 /\ q[at[k][1]] \in Seq(S)
    BY <2>1, ElementOfSeq, LenProperties DEF n
  <2>3. at[k][2] = 1 /\ q[at[k][1]] # <<>>
    BY <2>1, <2>2, EmptySeq
  <2>4. from[k] = at[k][1]
    OBVIOUS
  <2>5. at[k] = <<at[k][1], at[k][2]>>
    BY <2>1
  <2> QED
    BY <2>1, <2>3, <2>4, <2>5
<1> HIDE DEF from
<1>5. from \in [1 .. Len(flat) -> 1 .. n]
  BY <1>4 DEF from
<1>6. ASSUME NEW k \in 1 .. Len(flat), NEW l \in 1 .. Len(flat), from[k] = from[l]
      PROVE  k = l
  <2>1. at[k] = at[l]
    BY <1>4, <1>6
  <2> QED
    BY <1>3, <2>1 DEF Places
<1>7. ASSUME NEW i \in 1 .. n, q[i] # <<>> PROVE \E k \in 1 .. Len(flat) : from[k] = i
  <2>1. 1 \in 1 .. Len(q[i])
    <3>1. q[i] \in Seq(S)
      BY <1>1, ElementOfSeq DEF n
    <3>2. Len(q[i]) \in Nat /\ Len(q[i]) # 0
      BY <1>7, <3>1, EmptySeq, LenProperties
    <3> QED
      BY <3>2
  <2>2. PICK k \in 1 .. Len(flat) : at[k] = <<i, 1>>
    BY <1>3, <2>1 DEF Places
  <2> QED
    BY <1>4, <2>2
<1>8. PickedFrom(from, flat, q)
  BY <1>4, <1>5, <1>6, <1>7 DEF n, PickedFrom
<1> QED
  BY <1>2, <1>8 DEF flat

-----------------------------------------------------------------------------
(* What there is to do about notifications. *)

\* A rule's checks are listed without repetition.
LEMMA ChecksFacts ==
    ASSUME NEW rule
    PROVE  /\ Checks(rule) \in Seq(Kinds)
           /\ \A i, j \in 1 .. Len(Checks(rule)) : Checks(rule)[i] = Checks(rule)[j] => i = j
<1> DEFINE a == IF "allocation" \in rule.flags THEN <<"ALLOCATION_BREACH", "REBALANCE_SUGGESTED">> ELSE <<>>
           b == IF "price_target" \in rule.flags THEN <<"PRICE_TARGET">> ELSE <<>>
           c == IF "dip_buy" \in rule.flags THEN <<"DIP_BUY">> ELSE <<>>
<1>1. /\ a \in Seq(Kinds) /\ b \in Seq(Kinds) /\ c \in Seq(Kinds)
      /\ \/ Len(a) = 0
         \/ Len(a) = 2 /\ a[1] = "ALLOCATION_BREACH" /\ a[2] = "REBALANCE_SUGGESTED"
      /\ \/ Len(b) = 0
         \/ Len(b) = 1 /\ b[1] = "PRICE_TARGET"
      /\ \/ Len(c) = 0
         \/ Len(c) = 1 /\ c[1] = "DIP_BUY"
  <2>1. \A k \in {"ALLOCATION_BREACH", "REBALANCE_SUGGESTED", "PRICE_TARGET", "DIP_BUY"} : k \in Kinds
    BY DEF Kinds, AllocationKinds, PriceKinds
  <2>2. a \in Seq(Kinds) /\ b \in Seq(Kinds) /\ c \in Seq(Kinds)
    BY <2>1
  <2> QED
    BY <2>2
<1>2. Checks(rule) = (a \o b) \o c
  BY DEF Checks
<1> HIDE DEF a, b, c
<1> DEFINE ab == a \o b
<1>3. /\ ab \in Seq(Kinds) /\ Len(ab) = Len(a) + Len(b)
      /\ \A i \in 1 .. Len(a) + Len(b) : ab[i] = IF i <= Len(a) THEN a[i] ELSE b[i - Len(a)]
  BY <1>1, ConcatProperties
<1> HIDE DEF ab
<1>4. /\ ab \o c \in Seq(Kinds) /\ Len(ab \o c) = Len(ab) + Len(c)
      /\ \A i \in 1 .. Len(ab) + Len(c) : (ab \o c)[i] = IF i <= Len(ab) THEN ab[i] ELSE c[i - Len(ab)]
  <2>1. ab \in Seq(Kinds) /\ c \in Seq(Kinds)
    BY <1>1, <1>3
  <2> QED
    BY <2>1, ConcatProperties
<1>5. ASSUME NEW i \in 1 .. Len(ab)
      PROVE  \/ ab[i] = "ALLOCATION_BREACH" /\ i = 1
             \/ ab[i] = "REBALANCE_SUGGESTED" /\ i = 2
             \/ ab[i] = "PRICE_TARGET" /\ i = Len(a) + 1
  <2>1. CASE Len(a) = 0
    BY <1>1, <1>3, <2>1
  <2>2. CASE Len(a) = 2 /\ a[1] = "ALLOCATION_BREACH" /\ a[2] = "REBALANCE_SUGGESTED"
    BY <1>1, <1>3, <2>2
  <2> QED
    BY <1>1, <2>1, <2>2
<1>6. ASSUME NEW i \in 1 .. Len(c) PROVE c[i] = "DIP_BUY" /\ i = 1
  <2>1. CASE Len(c) = 0
    BY <2>1
  <2>2. CASE Len(c) = 1 /\ c[1] = "DIP_BUY"
    BY <2>2
  <2> QED
    BY <1>1, <2>1, <2>2
<1>7. Len(ab) \in Nat /\ Len(c) \in Nat
  BY <1>1, <1>3, LenProperties
<1>8. ASSUME NEW i \in 1 .. Len(ab \o c), NEW j \in 1 .. Len(ab \o c), (ab \o c)[i] = (ab \o c)[j]
      PROVE  i = j
  <2> DEFINE Place(k) ==
          \/ (ab \o c)[k] = "ALLOCATION_BREACH" /\ k = 1
          \/ (ab \o c)[k] = "REBALANCE_SUGGESTED" /\ k = 2
          \/ (ab \o c)[k] = "PRICE_TARGET" /\ k = Len(a) + 1
          \/ (ab \o c)[k] = "DIP_BUY" /\ k = Len(ab) + 1
  <2>1. ASSUME NEW k \in 1 .. Len(ab \o c) PROVE Place(k)
    <3>1. CASE k <= Len(ab)
      <4>1. k \in 1 .. Len(ab) /\ (ab \o c)[k] = ab[k]
        BY <1>4, <1>7, <3>1
      <4> QED
        BY <1>5, <4>1
    <3>2. CASE ~(k <= Len(ab))
      <4>1. k - Len(ab) \in 1 .. Len(c) /\ (ab \o c)[k] = c[k - Len(ab)]
        BY <1>4, <1>7, <3>2
      <4>2. c[k - Len(ab)] = "DIP_BUY" /\ k - Len(ab) = 1
        BY <1>6, <4>1
      <4> QED
        BY <1>7, <4>1, <4>2
    <3> QED
      BY <3>1, <3>2
  <2>2. Place(i) /\ Place(j)
    BY <2>1
  <2> QED
    BY <1>8, <2>2
<1> QED
  BY <1>2, <1>4, <1>8 DEF ab

\* The sources of a list of tasks, each of which is there once.
OncePerSource(todo) == \A i, j \in 1 .. Len(todo) : todo[i].source = todo[j].source => i = j

\* Check kind of rule r has changed, as session s sees it.
Noted(s, r, kind) ==
    /\ kind \in ToSet(Checks(run[s].known[r]))
    /\ \/ Fires(kind, run[s].known[r], run[s].shares[r], priceOf[r])
       \/ Clears(kind, run[s].known[r], run[s].shares[r], priceOf[r])

\* The entries of a rule: tasks for those of its checks that have changed, one
\* for each.
LEMMA EntriesFacts ==
    ASSUME NEW s, NEW r \in Rules
    PROVE  /\ Entries(s, r) \in Seq(Task)
           /\ OncePerSource(Entries(s, r))
           /\ \A i \in 1 .. Len(Entries(s, r)) : /\ Entries(s, r)[i].source \in AlertSources
                                                 /\ Entries(s, r)[i].source.of = r
           /\ \A kind \in Kinds :
                 /\ Noted(s, r, kind) =>
                       \E i \in 1 .. Len(Entries(s, r)) : Entries(s, r)[i].source = AlertSource(r, kind)
                 /\ \A i \in 1 .. Len(Entries(s, r)) : Entries(s, r)[i].source = AlertSource(r, kind) =>
                       /\ Noted(s, r, kind)
                       /\ Entries(s, r)[i].open
                             <=> Fires(kind, run[s].known[r], run[s].shares[r], priceOf[r])
<1> DEFINE rule  == run[s].known[r]
           share == run[s].shares[r]
           price == priceOf[r]
           kinds == Checks(rule)
           Changed(kind) == Fires(kind, rule, share, price) \/ Clears(kind, rule, share, price)
           Entry(kind) == [source |-> AlertSource(r, kind), open |-> Fires(kind, rule, share, price)]
           q == [i \in DOMAIN kinds |-> IF Changed(kinds[i]) THEN <<Entry(kinds[i])>> ELSE <<>>]
<1>1. /\ kinds \in Seq(Kinds) /\ Len(kinds) \in Nat /\ DOMAIN kinds = 1 .. Len(kinds)
      /\ \A i, j \in 1 .. Len(kinds) : kinds[i] = kinds[j] => i = j
  BY ChecksFacts, LenProperties
<1>2. Entries(s, r) = FlattenSeq(q)
  BY DEF Entries, Those
<1>3. ASSUME NEW kind \in Kinds
      PROVE  /\ Entry(kind) \in Task
             /\ Entry(kind).source \in AlertSources
             /\ Entry(kind).source.of = r /\ Entry(kind).source.kind = kind
             /\ Entry(kind).source = AlertSource(r, kind)
             /\ Entry(kind).open <=> Fires(kind, rule, share, price)
  <2>1. Fires(kind, rule, share, price) \in BOOLEAN
    BY DEF Fires
  <2>2. AlertSource(r, kind) \in AlertSources /\ AlertSource(r, kind) \in Sources
    BY DEF AlertSources, Sources
  <2> QED
    BY <2>1, <2>2 DEF Task, AlertSource
<1> HIDE DEF kinds, Changed, Entry
<1>4. \A i \in 1 .. Len(kinds) : kinds[i] \in Kinds
  BY <1>1, ElementOfSeq
<1>5. /\ q \in Seq(Seq(Task)) /\ Len(q) = Len(kinds)
      /\ \A i \in 1 .. Len(kinds) : /\ Len(q[i]) <= 1
                                    /\ q[i] # <<>> <=> Changed(kinds[i])
                                    /\ q[i] # <<>> => q[i] = <<Entry(kinds[i])>>
  <2>1. ASSUME NEW i \in 1 .. Len(kinds)
        PROVE  /\ q[i] \in Seq(Task) /\ Len(q[i]) <= 1
               /\ q[i] # <<>> <=> Changed(kinds[i])
               /\ q[i] # <<>> => q[i] = <<Entry(kinds[i])>>
    <3>1. Entry(kinds[i]) \in Task
      BY <1>3, <1>4
    <3>2. q[i] = IF Changed(kinds[i]) THEN <<Entry(kinds[i])>> ELSE <<>>
      BY <1>1
    <3> HIDE DEF q
    <3> QED
      BY <3>1, <3>2
  <2>2. q = [i \in 1 .. Len(kinds) |-> q[i]]
    BY <1>1
  <2> HIDE DEF q
  <2>3. q \in [1 .. Len(kinds) -> Seq(Task)]
    BY <2>1, <2>2
  <2>4. q \in Seq(Seq(Task)) /\ Len(q) = Len(kinds)
    BY <1>1, <2>3, FunctionIsSeq
  <2> QED
    BY <2>1, <2>4
<1> HIDE DEF q
<1> DEFINE flat == FlattenSeq(q)
<1>6. flat \in Seq(Task) /\ \E from : PickedFrom(from, flat, q)
  <2>1. q \in Seq(Seq(Task)) /\ \A i \in 1 .. Len(q) : Len(q[i]) <= 1
    BY <1>5
  <2> QED
    BY <2>1, PickedFacts
<1> HIDE DEF flat
<1>7. PICK from : PickedFrom(from, flat, q)
  BY <1>6
<1>8. ASSUME NEW k \in 1 .. Len(flat)
      PROVE  /\ flat[k].source \in AlertSources /\ flat[k].source.of = r
             /\ flat[k].source.kind = kinds[from[k]] /\ from[k] \in 1 .. Len(kinds)
             /\ flat[k] = Entry(kinds[from[k]]) /\ Changed(kinds[from[k]])
  <2>1. from[k] \in 1 .. Len(kinds) /\ q[from[k]] # <<>> /\ flat[k] = q[from[k]][1]
    BY <1>5, <1>7 DEF PickedFrom
  <2>2. Changed(kinds[from[k]]) /\ q[from[k]] = <<Entry(kinds[from[k]])>>
    BY <1>5, <2>1
  <2>3. flat[k] = Entry(kinds[from[k]])
    BY <2>1, <2>2
  <2> QED
    BY <1>3, <1>4, <2>1, <2>2, <2>3
<1>9. ASSUME NEW k \in 1 .. Len(flat), NEW l \in 1 .. Len(flat), flat[k].source = flat[l].source
      PROVE  k = l
  <2>1. kinds[from[k]] = kinds[from[l]] /\ from[k] \in 1 .. Len(kinds) /\ from[l] \in 1 .. Len(kinds)
    BY <1>8, <1>9
  <2>2. from[k] = from[l]
    BY <1>1, <2>1
  <2> QED
    BY <1>7, <2>2 DEF PickedFrom
<1>10. ASSUME NEW kind \in Kinds, Noted(s, r, kind)
       PROVE  \E k \in 1 .. Len(flat) : flat[k].source = AlertSource(r, kind)
  <2>1. PICK i \in 1 .. Len(kinds) : kinds[i] = kind /\ Changed(kinds[i])
    <3>1. kind \in ToSet(kinds) /\ Changed(kind)
      BY <1>10 DEF Noted, kinds, Changed
    <3> QED
      BY <1>1, <3>1 DEF ToSet
  <2>2. PICK k \in 1 .. Len(flat) : from[k] = i
    BY <1>5, <1>7, <2>1 DEF PickedFrom
  <2> QED
    BY <1>3, <1>8, <2>1, <2>2
<1>11. ASSUME NEW kind \in Kinds, NEW k \in 1 .. Len(flat), flat[k].source = AlertSource(r, kind)
       PROVE  /\ Noted(s, r, kind)
              /\ flat[k].open <=> Fires(kind, rule, share, price)
  <2>1. kinds[from[k]] = kind
    BY <1>8, <1>11 DEF AlertSource
  <2>2. kind \in ToSet(kinds) /\ Changed(kind)
    BY <1>1, <1>8, <2>1 DEF ToSet
  <2>3. Noted(s, r, kind)
    BY <2>2 DEF Noted, kinds, Changed
  <2> QED
    BY <1>3, <1>8, <2>1, <2>3
<1> QED
  BY <1>2, <1>6, <1>8, <1>9, <1>10, <1>11 DEF flat, OncePerSource

\* An order of a finite set is a sequence without repetition of its members.
LEMMA OrderFacts ==
    ASSUME NEW T, IsFiniteSet(T), NEW order \in SetToSeqs(T)
    PROVE  /\ order \in Seq(T) /\ Len(order) \in Nat /\ DOMAIN order = 1 .. Len(order)
           /\ \A i, j \in 1 .. Len(order) : order[i] = order[j] => i = j
           /\ T = {order[i] : i \in 1 .. Len(order)}
<1> DEFINE n == Cardinality(T)
<1>1. n \in Nat
  BY FS_CardinalityType
<1>2. order \in [1 .. n -> T] /\ \A i, j \in 1 .. n : i # j => order[i] # order[j]
  BY DEF SetToSeqs
<1> HIDE DEF n
<1>3. order \in Seq(T) /\ Len(order) = n
  BY <1>1, <1>2
<1>4. T = {order[i] : i \in 1 .. n}
  <2> DEFINE R == {order[i] : i \in 1 .. n}
  <2>1. R \subseteq T
    BY <1>2
  <2>2. order \in Bijection(1 .. n, R)
    <3>1. order \in [1 .. n -> R]
      BY <1>2
    <3>2. order \in Injection(1 .. n, R) /\ order \in Surjection(1 .. n, R)
      BY <1>2, <3>1 DEF Injection, IsInjective, Surjection
    <3> QED
      BY <3>2 DEF Bijection
  <2>2a. ExistsBijection(1 .. n, R)
    <3> HIDE DEF R
    <3> QED
      BY <2>2 DEF ExistsBijection
  <2>3. IsFiniteSet(1 .. n) /\ Cardinality(1 .. n) = n
    BY <1>1, FS_Interval
  <2>4. Cardinality(R) = n
    <3> HIDE DEF R
    <3> QED
      BY <2>2a, <2>3, FS_Bijection
  <2> HIDE DEF R
  <2>5. R = T
    BY <2>1, <2>4, FS_Subset DEF n
  <2> QED
    BY <2>5 DEF R
<1> QED
  BY <1>1, <1>2, <1>3, <1>4

\* There is a task for each check that has changed, of the rules in T, and for
\* no other, and it says whether the check fires or clears.
Verdicts(s, T, todo) ==
    \A r \in Rules : \A kind \in Kinds :
        /\ r \in T /\ Noted(s, r, kind) =>
              \E k \in 1 .. Len(todo) : todo[k].source = AlertSource(r, kind)
        /\ \A k \in 1 .. Len(todo) : todo[k].source = AlertSource(r, kind) =>
              /\ r \in T /\ Noted(s, r, kind)
              /\ todo[k].open <=> Fires(kind, run[s].known[r], run[s].shares[r], priceOf[r])

\* The alerts of a sync, in whatever order the rules come.
LEMMA AlertTodo ==
    ASSUME NEW s, NEW T \in SUBSET Rules, NEW order \in SetToSeqs(T),
           NEW todo, todo = FlattenSeq([i \in DOMAIN order |-> Entries(s, order[i])])
    PROVE  /\ todo \in Seq(Task) /\ OncePerSource(todo)
           /\ \A k \in 1 .. Len(todo) : todo[k].source \in AlertSources
           /\ Verdicts(s, T, todo)
<1> DEFINE q == [i \in DOMAIN order |-> Entries(s, order[i])]
<1>1. IsFiniteSet(T)
  BY NotificationsAssumption, FS_Subset
<1>2. /\ order \in Seq(T) /\ Len(order) \in Nat /\ DOMAIN order = 1 .. Len(order)
      /\ \A i, j \in 1 .. Len(order) : order[i] = order[j] => i = j
  BY <1>1, OrderFacts
<1>3. \A i \in 1 .. Len(order) : order[i] \in Rules
  BY <1>2, ElementOfSeq
<1>4. ASSUME NEW i \in 1 .. Len(order)
      PROVE  /\ q[i] = Entries(s, order[i])
             /\ q[i] \in Seq(Task) /\ OncePerSource(q[i])
             /\ \A m \in 1 .. Len(q[i]) : q[i][m].source \in AlertSources /\ q[i][m].source.of = order[i]
  <2>1. q[i] = Entries(s, order[i]) /\ order[i] \in Rules
    BY <1>2, <1>3
  <2> HIDE DEF q
  <2> QED
    BY <2>1, EntriesFacts
<1>5. q = [i \in 1 .. Len(order) |-> q[i]]
  BY <1>2
<1>6. todo = FlattenSeq(q)
  OBVIOUS
<1> HIDE DEF q
<1>7. q \in Seq(Seq(Task)) /\ Len(q) = Len(order)
  <2>1. q \in [1 .. Len(order) -> Seq(Task)]
    BY <1>4, <1>5
  <2> QED
    BY <1>2, <2>1
<1>8. todo \in Seq(Task) /\ \E at : Places(at, todo, q, Len(q))
  BY <1>6, <1>7, FlattenFacts
<1>9. PICK at : Places(at, todo, q, Len(order))
  BY <1>7, <1>8
<1>10. ASSUME NEW k \in 1 .. Len(todo)
       PROVE  /\ at[k] = <<at[k][1], at[k][2]>> /\ at[k][1] \in 1 .. Len(order)
              /\ at[k][2] \in 1 .. Len(q[at[k][1]]) /\ todo[k] = q[at[k][1]][at[k][2]]
              /\ todo[k].source \in AlertSources /\ todo[k].source.of = order[at[k][1]]
  <2>1. /\ at[k] \in Nat \X Nat /\ at[k][1] \in 1 .. Len(order)
        /\ at[k][2] \in 1 .. Len(q[at[k][1]]) /\ todo[k] = q[at[k][1]][at[k][2]]
    BY <1>9 DEF Places
  <2> QED
    BY <1>4, <2>1
<1>11. ASSUME NEW k \in 1 .. Len(todo), NEW l \in 1 .. Len(todo), todo[k].source = todo[l].source
       PROVE  k = l
  <2>1. at[k][1] = at[l][1]
    <3>1. /\ at[k][1] \in 1 .. Len(order) /\ at[l][1] \in 1 .. Len(order)
          /\ order[at[k][1]] = order[at[l][1]]
      BY <1>10, <1>11
    <3> QED
      BY <1>2, <3>1
  <2>2. at[k][2] = at[l][2]
    <3>1. OncePerSource(q[at[k][1]])
      BY <1>4, <1>10
    <3>2. /\ at[k][2] \in 1 .. Len(q[at[k][1]]) /\ at[l][2] \in 1 .. Len(q[at[k][1]])
          /\ q[at[k][1]][at[k][2]].source = q[at[k][1]][at[l][2]].source
      BY <1>10, <1>11, <2>1
    <3> QED
      BY <3>1, <3>2 DEF OncePerSource
  <2>3. at[k] = at[l]
    BY <1>10, <2>1, <2>2
  <2> QED
    BY <1>9, <2>3 DEF Places
<1>12. ASSUME NEW r \in T, NEW kind \in Kinds, Noted(s, r, kind)
       PROVE  \E k \in 1 .. Len(todo) : todo[k].source = AlertSource(r, kind)
  <2>1. PICK i \in 1 .. Len(order) : order[i] = r
    <3>1. T = {order[i] : i \in 1 .. Len(order)}
      BY <1>1, OrderFacts
    <3> QED
      BY <3>1
  <2>2. PICK j \in 1 .. Len(q[i]) : q[i][j].source = AlertSource(r, kind)
    <3>1. q[i] = Entries(s, r) /\ r \in Rules
      BY <1>4, <2>1
    <3> QED
      BY <1>12, <3>1, EntriesFacts
  <2>3. PICK k \in 1 .. Len(todo) : at[k] = <<i, j>>
    BY <1>9 DEF Places
  <2>4. todo[k] = q[i][j]
    BY <1>10, <2>3
  <2> QED
    BY <2>2, <2>4
<1>13. ASSUME NEW r \in Rules, NEW kind \in Kinds,
              NEW k \in 1 .. Len(todo), todo[k].source = AlertSource(r, kind)
       PROVE  /\ r \in T /\ Noted(s, r, kind)
              /\ todo[k].open <=> Fires(kind, run[s].known[r], run[s].shares[r], priceOf[r])
  <2> DEFINE i == at[k][1]
             j == at[k][2]
  <2>1. /\ i \in 1 .. Len(order) /\ j \in 1 .. Len(q[i]) /\ todo[k] = q[i][j]
        /\ order[i] = r
    BY <1>10, <1>13 DEF AlertSource
  <2> HIDE DEF i, j
  <2>2. q[i] = Entries(s, r)
    BY <1>4, <2>1
  <2>3. r \in T
    BY <1>2, <2>1, ElementOfSeq
  <2> QED
    BY <1>13, <2>1, <2>2, <2>3, EntriesFacts
<1> QED
  BY <1>8, <1>10, <1>11, <1>12, <1>13 DEF OncePerSource, Verdicts

\* A recommendation is not an alert.
LEMMA SourcesDiffer == \A x \in RecommendationSources : x \notin AlertSources
<1>1. \A x \in RecommendationSources : x.kind = "RECOMMENDATION"
  BY DEF RecommendationSources, RecommendationSource
<1>2. \A x \in AlertSources : x.kind # "RECOMMENDATION"
  BY DEF AlertSources, AlertSource, Kinds, AllocationKinds, PriceKinds
<1> QED
  BY <1>1, <1>2

\* The recommendations of a sync, in the order of their priority.
LEMMA AdviceTodo ==
    ASSUME NEW todo,
           todo = Those(Recommendations, LAMBDA x : x \in recommended,
                        LAMBDA x : [source |-> RecommendationSource(x), open |-> TRUE])
    PROVE  /\ todo \in Seq(Task) /\ OncePerSource(todo)
           /\ \A k \in 1 .. Len(todo) : todo[k].source \in RecommendationSources
<1> DEFINE list == Recommendations
           T == ToSet(Recommendations)
           entry(x) == [source |-> RecommendationSource(x), open |-> TRUE]
           q == [i \in DOMAIN list |-> IF list[i] \in recommended THEN <<entry(list[i])>> ELSE <<>>]
<1>1. /\ list \in Seq(T) /\ Len(list) \in Nat /\ DOMAIN list = 1 .. Len(list)
      /\ \A i, j \in 1 .. Len(list) : list[i] = list[j] => i = j
  <2>1. list \in Seq(T) /\ IsInjective(list)
    BY NotificationsAssumption
  <2>2. Len(list) \in Nat /\ DOMAIN list = 1 .. Len(list)
    BY <2>1, LenProperties
  <2> QED
    BY <2>1, <2>2 DEF IsInjective
<1>2. todo = FlattenSeq(q)
  BY DEF Those
<1>3. ASSUME NEW x \in T
      PROVE  entry(x) \in Task /\ entry(x).source \in RecommendationSources /\ entry(x).source.of = x
  BY DEF Task, Sources, RecommendationSources, RecommendationSource
<1> HIDE DEF list, T, entry
<1>4. ASSUME NEW i \in 1 .. Len(list)
      PROVE  /\ list[i] \in T /\ q[i] \in Seq(Task) /\ Len(q[i]) <= 1
             /\ q[i] # <<>> => q[i][1] = entry(list[i])
  <2>1. list[i] \in T /\ entry(list[i]) \in Task
    BY <1>1, <1>3, ElementOfSeq
  <2>2. q[i] = IF list[i] \in recommended THEN <<entry(list[i])>> ELSE <<>>
    BY <1>1
  <2>3. q[i] \in {<<entry(list[i])>>, <<>>}
    BY <2>2
  <2> HIDE DEF q
  <2>4. q[i] \in Seq(Task) /\ Len(q[i]) <= 1 /\ (q[i] # <<>> => q[i][1] = entry(list[i]))
    BY <2>1, <2>3, OneOrNone
  <2> QED
    BY <2>1, <2>4
<1>5. q = [i \in 1 .. Len(list) |-> q[i]]
  BY <1>1
<1> HIDE DEF q
<1>6. q \in Seq(Seq(Task)) /\ Len(q) = Len(list)
  <2>1. q \in [1 .. Len(list) -> Seq(Task)] /\ Len(list) \in Nat
    BY <1>1, <1>4, <1>5
  <2> QED
    BY <2>1, FunctionIsSeq
<1>7. todo \in Seq(Task) /\ \E from : PickedFrom(from, todo, q)
  BY <1>2, <1>4, <1>6, PickedFacts
<1>8. PICK from : PickedFrom(from, todo, q)
  BY <1>7
<1>9. ASSUME NEW k \in 1 .. Len(todo)
      PROVE  /\ from[k] \in 1 .. Len(list)
             /\ todo[k].source \in RecommendationSources /\ todo[k].source.of = list[from[k]]
  <2>1. from[k] \in 1 .. Len(list) /\ q[from[k]] # <<>> /\ todo[k] = q[from[k]][1]
    BY <1>6, <1>8 DEF PickedFrom
  <2>3. todo[k] = entry(list[from[k]])
    BY <1>4, <2>1
  <2> QED
    BY <1>3, <1>4, <2>1, <2>3
<1>10. ASSUME NEW k \in 1 .. Len(todo), NEW l \in 1 .. Len(todo), todo[k].source = todo[l].source
       PROVE  k = l
  <2>1. /\ from[k] \in 1 .. Len(list) /\ from[l] \in 1 .. Len(list)
        /\ list[from[k]] = list[from[l]]
    BY <1>9, <1>10
  <2>2. from[k] = from[l]
    BY <1>1, <2>1
  <2> QED
    BY <1>8, <2>2 DEF PickedFrom
<1> QED
  BY <1>7, <1>9, <1>10 DEF OncePerSource

\* The recommendations that are gone, in whatever order they come.
LEMMA StaleTodo ==
    ASSUME NEW s, NEW order \in SetToSeqs(Stale(s)),
           NEW todo, todo = [i \in DOMAIN order |-> [source |-> order[i], open |-> FALSE]]
    PROVE  /\ todo \in Seq(Task) /\ OncePerSource(todo)
           /\ \A k \in 1 .. Len(todo) : ~todo[k].open /\ todo[k].source \in RecommendationSources
<1>1. IsFiniteSet(Stale(s)) /\ Stale(s) \subseteq Sources
  <2>1. Recommendations \in Seq(ToSet(Recommendations))
    BY NotificationsAssumption
  <2>2. DOMAIN Recommendations = 1 .. Len(Recommendations) /\ Len(Recommendations) \in Nat
    BY <2>1, LenProperties
  <2>3. IsFiniteSet(1 .. Len(Recommendations))
    BY <2>2, FS_Interval
  <2> DEFINE f == [i \in 1 .. Len(Recommendations) |-> RecommendationSource(Recommendations[i])]
  <2>4. RecommendationSources = {f[i] : i \in 1 .. Len(Recommendations)}
    BY <2>2 DEF RecommendationSources, ToSet
  <2>5. f \in Surjection(1 .. Len(Recommendations), RecommendationSources)
    BY <2>4 DEF Surjection
  <2>6. IsFiniteSet(RecommendationSources)
    BY <2>3, <2>5, FS_Surjection
  <2> QED
    BY <2>6, FS_Subset DEF Stale, Sources
<1>2. /\ order \in Seq(Stale(s)) /\ Len(order) \in Nat /\ DOMAIN order = 1 .. Len(order)
      /\ \A i, j \in 1 .. Len(order) : order[i] = order[j] => i = j
  BY <1>1, OrderFacts
<1>3. ASSUME NEW i \in 1 .. Len(order)
      PROVE  /\ todo[i] \in Task /\ todo[i].source = order[i] /\ ~todo[i].open
             /\ todo[i].source \in RecommendationSources
  <2>1. order[i] \in Sources /\ order[i] \in Stale(s)
    BY <1>1, <1>2, ElementOfSeq
  <2>2. order[i] \in RecommendationSources
    BY <2>1 DEF Stale
  <2> QED
    BY <1>2, <2>1, <2>2 DEF Task
<1>4. todo \in Seq(Task) /\ Len(todo) = Len(order)
  <2>1. todo = [i \in 1 .. Len(order) |-> todo[i]]
    BY <1>2
  <2>2. todo \in [1 .. Len(order) -> Task]
    BY <1>3, <2>1
  <2> QED
    BY <1>2, <2>2
<1> QED
  BY <1>2, <1>3, <1>4 DEF OncePerSource

\* The notifications that are due, in the order of their rows.
LEMMA DueQueue ==
    ASSUME NEW S, notifications \in Seq(S),
           NEW due, due = Those([i \in DOMAIN notifications |-> i],
                                LAMBDA i : Due(notifications[i]), LAMBDA i : i)
    PROVE  due \in Seq(DOMAIN notifications)
<1> DEFINE n == Len(notifications)
           id == [i \in DOMAIN notifications |-> i]
           q == [i \in DOMAIN id |-> IF Due(notifications[id[i]]) THEN <<id[i]>> ELSE <<>>]
<1>1. n \in Nat /\ DOMAIN notifications = 1 .. n
  BY LenProperties
<1>2. due = FlattenSeq(q)
  BY DEF Those
<1> HIDE DEF n
<1>3. ASSUME NEW i \in 1 .. n PROVE q[i] \in Seq(1 .. n) /\ Len(q[i]) <= 1
  <2>1. q[i] = IF Due(notifications[i]) THEN <<i>> ELSE <<>>
    BY <1>1
  <2>2. q[i] \in {<<i>>, <<>>}
    BY <2>1
  <2> HIDE DEF q
  <2> QED
    BY <2>2, OneOrNone
<1>4. q = [i \in 1 .. n |-> q[i]]
  BY <1>1
<1> HIDE DEF q
<1>5. q \in Seq(Seq(1 .. n)) /\ Len(q) = n
  <2>1. q \in [1 .. n -> Seq(1 .. n)]
    BY <1>3, <1>4
  <2> QED
    BY <1>1, <2>1
<1> QED
  BY <1>1, <1>2, <1>3, <1>5, PickedFacts

-----------------------------------------------------------------------------
(* What a session is doing. *)

Posting == {"consent", "send", "mark"}

\* What a session is going to insert is for different sources.
Apart(r) ==
    /\ OncePerSource(r.todo)
    /\ \A i, j \in 1 .. Len(r.inserted) : r.inserted[i] = r.inserted[j] => i = j
    /\ \A k \in 1 .. Len(r.todo) : r.todo[k].open => r.todo[k].source \notin ToSet(r.inserted)
    /\ r.write.what = "insert" =>
          /\ r.write.source \notin ToSet(r.inserted)
          /\ \A k \in 1 .. Len(r.todo) : r.todo[k].source # r.write.source

\* In the first half of a sync it is alerts.
AlertsFirst(r) ==
    r.step \in {"latch", "alerts"} =>
        /\ \A k \in 1 .. Len(r.todo) : r.todo[k].source \in AlertSources
        /\ r.write.what = "insert" => r.write.source \in AlertSources
        /\ ToSet(r.inserted) \subseteq AlertSources

\* Only in the middle of a sync has a session written anything, and it has
\* something to do only from its verdicts on.
WritesInPhases(r) ==
    /\ r.step \notin Phases => r.write = None /\ r.inserted = <<>> /\ r.resolved = {}
    /\ r.step \notin Phases \cup {"latch"} => r.todo = <<>>

RunOK(r) == r \in Runs /\ Apart(r) /\ AlertsFirst(r) /\ WritesInPhases(r)

\* An idle session.
LEMMA BlankOK == RunOK(Blank) /\ Blank.step \notin Posting /\ Blank.inserted = <<>>
<1>1. <<>> \in UNION {[S -> BOOLEAN] : S \in SUBSET Rules}
  <2>1. <<>> \in [{} -> BOOLEAN] /\ {} \in SUBSET Rules
    OBVIOUS
  <2> QED
    BY <2>1
<1>2. <<>> \in Seq(Task) /\ <<>> \in Seq(Sources)
  OBVIOUS
<1>3. Blank \in Runs
  BY <1>1, <1>2 DEF Blank, Runs, None
<1> QED
  BY <1>3 DEF RunOK, Blank, Apart, AlertsFirst, WritesInPhases, None, OncePerSource, Phases, Posting

\* The session has begun.
LEMMA BeginOK ==
    ASSUME NEW mode \in Modes \cup {"deliver"}, shareOf \in [Rules -> Shares]
    PROVE  RunOK([Blank EXCEPT !.step = "rules", !.mode = mode, !.shares = shareOf])
<1> DEFINE new == [Blank EXCEPT !.step = "rules", !.mode = mode, !.shares = shareOf]
<1>1. new \in Runs
  BY BlankOK DEF RunOK, Runs
<1> QED
  BY <1>1 DEF RunOK, Blank, Apart, AlertsFirst, WritesInPhases, None, OncePerSource, Phases

\* It has read the rules.
LEMMA ReadRulesOK ==
    ASSUME NEW s, RunOK(run[s]), ReadRules(s), rules \in [Rules -> Rule]
    PROVE  RunOK([run[s] EXCEPT !.step = "prices", !.known = rules])
<1> DEFINE new == [run[s] EXCEPT !.step = "prices", !.known = rules]
<1>1. run[s].step = "rules" /\ run[s] \in Runs
  BY DEF ReadRules, RunOK
<1>2. new \in Runs
  BY <1>1 DEF Runs
<1>3. /\ new.todo = run[s].todo /\ new.write = run[s].write /\ new.inserted = run[s].inserted
      /\ new.resolved = run[s].resolved /\ new.step = "prices"
  BY <1>1 DEF Runs
<1> HIDE DEF new
<1>4. Apart(new) /\ AlertsFirst(new)
  BY <1>3 DEF RunOK, Apart, AlertsFirst
<1>5. WritesInPhases(new)
  BY <1>1, <1>3 DEF RunOK, WritesInPhases, Phases
<1> QED
  BY <1>2, <1>4, <1>5 DEF RunOK, new

\* It has its verdicts.
LEMMA ReadPricesOK ==
    ASSUME NEW s, RunOK(run[s]), ReadPrices(s)
    PROVE  \E new : RunOK(new) /\ new.step = "latch" /\ new.inserted = run[s].inserted /\ Becomes(s, new)
<1> DEFINE T == {r \in Rules : Evaluated(run[s].known[r])}
           latched == [r \in T |-> LatchAfter(run[s].known[r], run[s].shares[r], priceOf[r])]
<1>1. PICK order \in SetToSeqs(T) :
          Becomes(s, [run[s] EXCEPT
              !.step = "latch", !.latched = latched,
              !.todo = FlattenSeq([i \in DOMAIN order |-> Entries(s, order[i])])])
  BY DEF ReadPrices
<1> DEFINE todo == FlattenSeq([i \in DOMAIN order |-> Entries(s, order[i])])
           new  == [run[s] EXCEPT !.step = "latch", !.latched = latched, !.todo = todo]
<1>2. Becomes(s, new)
  BY <1>1
<1>3. /\ todo \in Seq(Task) /\ OncePerSource(todo)
      /\ \A k \in 1 .. Len(todo) : todo[k].source \in AlertSources
  <2>1. /\ T \in SUBSET Rules /\ order \in SetToSeqs(T)
        /\ todo = FlattenSeq([i \in DOMAIN order |-> Entries(s, order[i])])
    OBVIOUS
  <2> HIDE DEF T, todo
  <2> QED
    BY <2>1, AlertTodo
<1>4. latched \in UNION {[S -> BOOLEAN] : S \in SUBSET Rules}
  <2>1. latched \in [T -> BOOLEAN] /\ T \in SUBSET Rules
    BY DEF LatchAfter
  <2> QED
    BY <2>1
<1> HIDE DEF todo, latched
<1>5. run[s].step = "prices" /\ run[s] \in Runs
  BY DEF ReadPrices, RunOK
<1>6. new \in Runs
  BY <1>3, <1>4, <1>5 DEF Runs
<1>7. /\ new.todo = todo /\ new.write = run[s].write /\ new.inserted = run[s].inserted
      /\ new.resolved = run[s].resolved /\ new.step = "latch"
  BY <1>5 DEF Runs
<1> HIDE DEF new
<1>8. RunOK(new)
  <2>1. /\ run[s].write = None /\ run[s].inserted = <<>> /\ run[s].resolved = {}
    BY <1>5 DEF RunOK, WritesInPhases, Phases
  <2> QED
    BY <1>3, <1>6, <1>7, <2>1 DEF RunOK, Apart, AlertsFirst, WritesInPhases, Phases, None, ToSet
<1> QED
  BY <1>2, <1>7, <1>8

\* It has saved the latches.
LEMMA SaveLatchOK ==
    ASSUME NEW s, RunOK(run[s]), run[s].step = "latch"
    PROVE  RunOK([run[s] EXCEPT !.step = "alerts", !.latched = <<>>])
<1> DEFINE new == [run[s] EXCEPT !.step = "alerts", !.latched = <<>>]
<1>1. run[s] \in Runs
  BY DEF RunOK
<1>2. <<>> \in UNION {[S -> BOOLEAN] : S \in SUBSET Rules}
  <2>1. <<>> \in [{} -> BOOLEAN] /\ {} \in SUBSET Rules
    OBVIOUS
  <2> QED
    BY <2>1
<1>3. new \in Runs
  BY <1>1, <1>2 DEF Runs, Phases
<1>4. /\ new.todo = run[s].todo /\ new.write = run[s].write /\ new.inserted = run[s].inserted
      /\ new.step = "alerts"
  BY <1>1 DEF Runs
<1> HIDE DEF new
<1>5. Apart(new) /\ AlertsFirst(new)
  BY <1>4 DEF RunOK, Apart, AlertsFirst
<1>6. WritesInPhases(new)
  BY <1>4 DEF WritesInPhases, Phases
<1> QED
  BY <1>3, <1>5, <1>6 DEF RunOK, new

\* It has looked up a notification, and knows what to write.
LEMMA LookupOK ==
    ASSUME NEW s, RunOK(run[s]), Lookup(s)
    PROVE  \E new : RunOK(new) /\ new.step = run[s].step /\ new.inserted = run[s].inserted /\ Becomes(s, new)
<1> DEFINE todo   == run[s].todo
           task   == Head(todo)
           active == Active(task.source)
           W      == IF task.open
                     THEN {IF active = {} THEN Insert(task.source) ELSE None}
                     ELSE IF active = {} THEN {None} ELSE {Resolve(i) : i \in active}
<1>1. PICK write \in W : Becomes(s, [run[s] EXCEPT !.todo = Tail(@), !.write = write])
  BY DEF Lookup
<1> DEFINE new == [run[s] EXCEPT !.todo = Tail(@), !.write = write]
<1>2. run[s] \in Runs /\ run[s].step \in Phases /\ todo \in Seq(Task) /\ todo # <<>>
  BY DEF Lookup, Busy, RunOK, Runs
<1>3. /\ task \in Task /\ Tail(todo) \in Seq(Task) /\ Len(Tail(todo)) = Len(todo) - 1
      /\ Len(todo) \in Nat \ {0} /\ task = todo[1]
      /\ \A i \in 1 .. Len(Tail(todo)) : Tail(todo)[i] = todo[i + 1]
  BY <1>2, HeadTailProperties, EmptySeq
<1>4. active \subseteq DOMAIN notifications
  BY DEF Active
<1>5. /\ write \in {None} \cup {Insert(x) : x \in Sources} \cup {Resolve(i) : i \in DOMAIN notifications}
      /\ write.what = "insert" => task.open /\ write.source = task.source
  <2>1. CASE task.open
    BY <1>1, <1>3, <2>1 DEF Task, Insert, None
  <2>2. CASE ~task.open
    BY <1>1, <1>4, <2>2 DEF Resolve, None
  <2> QED
    BY <2>1, <2>2
<1> HIDE DEF W, active
<1>6. new \in Runs
  BY <1>2, <1>3, <1>5 DEF Runs
<1>7. /\ new.todo = Tail(todo) /\ new.write = write /\ new.inserted = run[s].inserted
      /\ new.resolved = run[s].resolved /\ new.step = run[s].step
  BY <1>2 DEF Runs
<1>8. Becomes(s, new)
  BY <1>1
<1> HIDE DEF new, task
<1>9. Apart(run[s]) /\ AlertsFirst(run[s])
  BY DEF RunOK
<1>10. ASSUME NEW k \in 1 .. Len(Tail(todo))
       PROVE  /\ k + 1 \in 1 .. Len(todo) /\ Tail(todo)[k] = todo[k + 1]
              /\ 1 \in 1 .. Len(todo) /\ Tail(todo)[k].source # todo[1].source
  <2>1. k + 1 \in 1 .. Len(todo) /\ Tail(todo)[k] = todo[k + 1] /\ 1 \in 1 .. Len(todo) /\ k + 1 # 1
    BY <1>3
  <2> QED
    BY <1>9, <2>1 DEF Apart, OncePerSource
<1>11. 1 \in 1 .. Len(todo)
  BY <1>3
<1>12. Apart(new)
  <2>1. OncePerSource(new.todo)
    <3> SUFFICES ASSUME NEW i \in 1 .. Len(Tail(todo)), NEW j \in 1 .. Len(Tail(todo)),
                        Tail(todo)[i].source = Tail(todo)[j].source
                 PROVE  i = j
      BY <1>7 DEF OncePerSource
    <3>1. i + 1 = j + 1
      BY <1>9, <1>10 DEF Apart, OncePerSource
    <3> QED
      BY <1>3, <3>1
  <2>2. \A k \in 1 .. Len(new.todo) : new.todo[k].open => new.todo[k].source \notin ToSet(new.inserted)
    BY <1>7, <1>9, <1>10 DEF Apart
  <2>3. new.write.what = "insert" =>
           /\ new.write.source \notin ToSet(new.inserted)
           /\ \A k \in 1 .. Len(new.todo) : new.todo[k].source # new.write.source
    BY <1>3, <1>5, <1>7, <1>9, <1>10, <1>11 DEF Apart
  <2> QED
    BY <1>7, <1>9, <2>1, <2>2, <2>3 DEF Apart
<1>13. AlertsFirst(new)
  BY <1>3, <1>5, <1>7, <1>9, <1>10, <1>11 DEF AlertsFirst
<1>14. WritesInPhases(new)
  BY <1>2, <1>7 DEF WritesInPhases
<1> QED
  BY <1>6, <1>7, <1>8, <1>12, <1>13, <1>14 DEF RunOK

\* Its write is in the database, unless the index refuses it.
LEMMA FlushedOK ==
    ASSUME NEW s, RunOK(run[s]), run[s].write # None
    PROVE  /\ RunOK(Flushed(s)) /\ run[s].step \in Phases
           /\ Flushed(s).step \in Phases \cup {"idle"}
           /\ \/ Flushed(s).inserted \in {run[s].inserted, <<>>}
              \/ /\ run[s].write.what = "insert" /\ ~Refused(s)
                 /\ Flushed(s).inserted = Append(run[s].inserted, run[s].write.source)
<1> DEFINE write == run[s].write
           inserted == run[s].inserted
<1>1. /\ run[s] \in Runs /\ Apart(run[s]) /\ AlertsFirst(run[s]) /\ run[s].step \in Phases
      /\ inserted \in Seq(Sources)
      /\ write \in {Insert(x) : x \in Sources} \cup {Resolve(i) : i \in DOMAIN notifications}
  BY DEF RunOK, WritesInPhases, Runs
<1>2. CASE Refused(s)
  BY <1>1, <1>2, BlankOK DEF Flushed, Blank
<1>3. CASE ~Refused(s) /\ write.what = "insert"
  <2> DEFINE new == [run[s] EXCEPT !.write = None, !.inserted = Append(inserted, write.source)]
  <2>1. Flushed(s) = new
    BY <1>1, <1>3 DEF Flushed, Written, Runs
  <2>2. write.source \in Sources
    BY <1>1, <1>3 DEF Insert, Resolve
  <2>3. /\ Append(inserted, write.source) \in Seq(Sources)
        /\ Len(Append(inserted, write.source)) = Len(inserted) + 1
        /\ \A i \in 1 .. Len(inserted) : Append(inserted, write.source)[i] = inserted[i]
        /\ Append(inserted, write.source)[Len(inserted) + 1] = write.source
        /\ Len(inserted) \in Nat
    BY <1>1, <2>2, AppendProperties, LenProperties
  <2>4. ToSet(Append(inserted, write.source)) = ToSet(inserted) \cup {write.source}
    <3>1. /\ DOMAIN inserted = 1 .. Len(inserted)
          /\ DOMAIN Append(inserted, write.source) = 1 .. Len(inserted) + 1
      BY <1>1, <2>3, LenProperties
    <3> QED
      BY <2>3, <3>1 DEF ToSet
  <2>5. new \in Runs
    BY <1>1, <2>3 DEF Runs
  <2>6. /\ new.todo = run[s].todo /\ new.write = None
        /\ new.inserted = Append(inserted, write.source) /\ new.step = run[s].step
    BY <1>1 DEF Runs
  <2> HIDE DEF new
  <2>7. \A i \in 1 .. Len(inserted) : inserted[i] \in ToSet(inserted)
    BY <1>1, LenProperties DEF ToSet
  <2>8. Apart(new)
    <3>1. \A i, j \in 1 .. Len(new.inserted) : new.inserted[i] = new.inserted[j] => i = j
      BY <1>1, <1>3, <2>3, <2>6, <2>7 DEF Apart
    <3>2. \A k \in 1 .. Len(new.todo) : new.todo[k].open => new.todo[k].source \notin ToSet(new.inserted)
      BY <1>1, <1>3, <2>4, <2>6 DEF Apart
    <3>3. new.write.what # "insert"
      BY <2>6 DEF None
    <3> QED
      BY <1>1, <2>6, <3>1, <3>2, <3>3 DEF Apart
  <2>9. AlertsFirst(new)
    BY <1>1, <1>3, <2>4, <2>6 DEF AlertsFirst, None
  <2>10. WritesInPhases(new)
    BY <1>1, <2>6 DEF WritesInPhases
  <2> QED
    BY <1>1, <1>3, <2>1, <2>5, <2>6, <2>8, <2>9, <2>10 DEF RunOK
<1>4. CASE write.what # "insert"
  <2>1. write.what = "resolve" /\ write.row \in DOMAIN notifications
    BY <1>1, <1>4 DEF Insert, Resolve
  <2> DEFINE new == [run[s] EXCEPT !.write = None, !.resolved = @ \cup {write.row}]
  <2>2. Flushed(s) = new
    <3>1. Flushed(s) = Written(s)
      BY <1>4 DEF Flushed, Refused
    <3> QED
      BY <1>1, <2>1, <3>1 DEF Written, Runs
  <2>3. new \in Runs
    BY <1>1, <2>1 DEF Runs
  <2>4. /\ new.todo = run[s].todo /\ new.write = None
        /\ new.inserted = inserted /\ new.step = run[s].step
    BY <1>1 DEF Runs
  <2> HIDE DEF new
  <2>5. Apart(new) /\ AlertsFirst(new) /\ WritesInPhases(new)
    BY <1>1, <2>4 DEF Apart, AlertsFirst, WritesInPhases, None
  <2> QED
    BY <1>1, <2>2, <2>3, <2>4, <2>5 DEF RunOK
<1> QED
  BY <1>2, <1>3, <1>4

\* It has read the recommendations.
LEMMA ReadRecommendationsOK ==
    ASSUME NEW s, RunOK(run[s]), ReadRecommendations(s), recommended \subseteq ToSet(Recommendations)
    PROVE  \E new : /\ RunOK(new) /\ new.step = "recommendations"
                    /\ new.inserted = run[s].inserted /\ Becomes(s, new)
<1> DEFINE todo == Those(Recommendations, LAMBDA x : x \in recommended,
                         LAMBDA x : [source |-> RecommendationSource(x), open |-> TRUE])
           new  == [run[s] EXCEPT !.step = "recommendations", !.current = recommended, !.todo = todo]
<1>1. Becomes(s, new)
  BY DEF ReadRecommendations
<1>2. /\ todo \in Seq(Task) /\ OncePerSource(todo)
      /\ \A k \in 1 .. Len(todo) : todo[k].source \in RecommendationSources
  BY AdviceTodo
<1> HIDE DEF todo
<1>3. run[s].step = "alerts" /\ run[s].write = None /\ run[s] \in Runs
  BY DEF ReadRecommendations, Settled, RunOK
<1>4. new \in Runs
  BY <1>2, <1>3 DEF Runs, Phases
<1>5. /\ new.todo = todo /\ new.write = None /\ new.inserted = run[s].inserted
      /\ new.step = "recommendations"
  BY <1>3 DEF Runs
<1> HIDE DEF new
<1>6. \A x \in RecommendationSources : x \notin AlertSources
  BY SourcesDiffer
<1>7. ToSet(new.inserted) \subseteq AlertSources
  BY <1>3, <1>5 DEF RunOK, AlertsFirst
<1>8. \A k \in 1 .. Len(new.todo) : new.todo[k].source \notin ToSet(new.inserted)
  BY <1>2, <1>5, <1>6, <1>7
<1>9. Apart(new)
  BY <1>2, <1>5, <1>8 DEF RunOK, Apart, None
<1>10. AlertsFirst(new) /\ WritesInPhases(new)
  BY <1>5 DEF AlertsFirst, WritesInPhases, Phases
<1> QED
  BY <1>1, <1>4, <1>5, <1>9, <1>10 DEF RunOK

\* It has read which recommendations have a notification.
LEMMA ReadActiveOK ==
    ASSUME NEW s, RunOK(run[s]), ReadActive(s)
    PROVE  \E new : /\ RunOK(new) /\ new.step = "stale"
                    /\ new.inserted = run[s].inserted /\ Becomes(s, new)
<1>1. PICK order \in SetToSeqs(Stale(s)) :
          Becomes(s, [run[s] EXCEPT
              !.step = "stale",
              !.todo = [i \in DOMAIN order |-> [source |-> order[i], open |-> FALSE]]])
  BY DEF ReadActive
<1> DEFINE todo == [i \in DOMAIN order |-> [source |-> order[i], open |-> FALSE]]
           new  == [run[s] EXCEPT !.step = "stale", !.todo = todo]
<1>2. Becomes(s, new)
  BY <1>1
<1>3. todo \in Seq(Task) /\ OncePerSource(todo) /\ \A k \in 1 .. Len(todo) : ~todo[k].open
  BY StaleTodo
<1> HIDE DEF todo
<1>4. run[s].write = None /\ run[s] \in Runs
  BY DEF ReadActive, Settled, RunOK
<1>5. new \in Runs
  BY <1>3, <1>4 DEF Runs, Phases
<1>6. new.todo = todo /\ new.write = None /\ new.inserted = run[s].inserted /\ new.step = "stale"
  BY <1>4 DEF Runs
<1> HIDE DEF new
<1>7. Apart(new)
  BY <1>3, <1>6 DEF RunOK, Apart, None
<1>8. AlertsFirst(new) /\ WritesInPhases(new)
  BY <1>6 DEF AlertsFirst, WritesInPhases, Phases
<1> QED
  BY <1>2, <1>5, <1>6, <1>7, <1>8 DEF RunOK

\* It has committed, and remembers the rules it read.
LEMMA CommittedOK ==
    ASSUME NEW r, RunOK(r)
    PROVE  RunOK([Blank EXCEPT !.step = "committed", !.mode = r.mode, !.known = r.known])
<1> DEFINE new == [Blank EXCEPT !.step = "committed", !.mode = r.mode, !.known = r.known]
<1>1. new \in Runs
  BY BlankOK DEF RunOK, Runs
<1> QED
  BY <1>1 DEF RunOK, Blank, Apart, AlertsFirst, WritesInPhases, None, OncePerSource, Phases

\* A worker goes on with its messages.
LEMMA PostingOK ==
    ASSUME NEW r, RunOK(r), r.step \in {"committed"} \cup Posting, NEW step \in Posting
    PROVE  RunOK([r EXCEPT !.step = step])
<1> DEFINE new == [r EXCEPT !.step = step]
<1>1. r \in Runs
  BY DEF RunOK
<1>2. new \in Runs
  BY <1>1 DEF Runs, Posting
<1>3. /\ new.todo = r.todo /\ new.write = r.write /\ new.inserted = r.inserted
      /\ new.resolved = r.resolved /\ new.step = step
  BY <1>1 DEF Runs
<1>4. step \notin Phases \cup {"latch"} /\ r.step \notin Phases \cup {"latch"}
  BY DEF Posting, Phases
<1> HIDE DEF new
<1>5. Apart(new)
  BY <1>3 DEF RunOK, Apart
<1>6. AlertsFirst(new) /\ WritesInPhases(new)
  BY <1>3, <1>4 DEF RunOK, AlertsFirst, WritesInPhases, Phases
<1> QED
  BY <1>2, <1>5, <1>6 DEF RunOK, new

-----------------------------------------------------------------------------
(* The shape of the state. *)

Row == [source : Sources, active : BOOLEAN, sent : BOOLEAN]

WorldOK ==
    /\ shareOf \in [Rules -> Shares] /\ priceOf \in [Rules -> Prices]
    /\ recommended \subseteq ToSet(Recommendations)
    /\ rules \in [Rules -> Rule]
    /\ changes \in 0 .. MaxChanges /\ crashes \in 0 .. MaxCrashes
    /\ optedIn \in BOOLEAN

SessionsOK == run \in [Sessions -> Runs] /\ \A s \in Sessions : RunOK(run[s])

RowsOK == notifications \in Seq(Row) /\ copies \in [DOMAIN notifications -> 0 .. 2]

\* A worker is busy with messages exactly as long as there are some.
QueuesOK ==
    /\ queue \in [Workers -> Seq(DOMAIN notifications)]
    /\ \A w \in Workers : queue[w] # <<>> <=> run[w].step \in Posting

Shape == WorldOK /\ SessionsOK /\ RowsOK /\ QueuesOK

\* Session s goes on as new, and nobody else.
Goes(s, new) == RunOK(new) /\ run' = [run EXCEPT ![s] = new]

\* ... and it is not about messages, before or after.
Proceeds(s, new) ==
    /\ Goes(s, new)
    /\ run[s].step \notin Posting /\ new.step \notin Posting
    /\ UNCHANGED notifications

\* ... and it has written nothing more.
Keeps(s, new) == Proceeds(s, new) /\ new.inserted \in {run[s].inserted, <<>>}

\* A run remains one while rows are added.
LEMMA RunsGrow == DOMAIN notifications \subseteq DOMAIN notifications' => Runs \subseteq Runs'
<1> SUFFICES ASSUME DOMAIN notifications \subseteq DOMAIN notifications', NEW r \in Runs PROVE r \in Runs'
  OBVIOUS
<1> QED
  BY DEF Runs

\* The step of one session, as far as the sessions go.
LEMMA GoesOK ==
    ASSUME SessionsOK, NEW s \in Sessions, NEW new, Goes(s, new),
           DOMAIN notifications \subseteq DOMAIN notifications'
    PROVE  SessionsOK' /\ run'[s] = new /\ \A u \in Sessions \ {s} : run'[u] = run[u]
<1>1. run'[s] = new /\ \A u \in Sessions \ {s} : run'[u] = run[u]
  BY DEF Goes, SessionsOK
<1>2. new \in Runs' /\ \A u \in Sessions : run[u] \in Runs'
  BY RunsGrow DEF Goes, RunOK, SessionsOK
<1>3. run' \in [Sessions -> Runs']
  BY <1>2 DEF Goes, SessionsOK
<1>4. \A u \in Sessions : RunOK(run[u])'
  <2> TAKE u \in Sessions
  <2>1. run'[u] \in Runs'
    BY <1>1, <1>2
  <2>2. RunOK(run'[u])
    BY <1>1 DEF Goes, SessionsOK
  <2> QED
    BY <2>1, <2>2 DEF RunOK, Apart, AlertsFirst, WritesInPhases
<1> QED
  BY <1>1, <1>3, <1>4 DEF SessionsOK

\* A step of the notification center that adds no row posts nothing.
LEMMA CopiesStay ==
    ASSUME RowsOK, UNCHANGED notifications,
           copies' = [i \in DOMAIN notifications' |-> IF i \in DOMAIN copies THEN copies[i] ELSE 0]
    PROVE  UNCHANGED copies
<1> QED
  BY DEF RowsOK

\* The step of a session that is not about messages keeps the shape.
LEMMA ProceedsOK ==
    ASSUME Shape, NEW s \in Sessions, NEW new, Proceeds(s, new), WorldOK',
           UNCHANGED <<queue, copies>>
    PROVE  Shape'
<1>1. SessionsOK' /\ run'[s] = new /\ \A u \in Sessions \ {s} : run'[u] = run[u]
  BY GoesOK DEF Proceeds, Shape
<1>2. QueuesOK'
  BY <1>1, AlertNotifyAssumption DEF Shape, QueuesOK, Proceeds
<1>3. RowsOK'
  BY DEF Shape, RowsOK, Proceeds
<1> QED
  BY <1>1, <1>2, <1>3 DEF Shape

\* A session that begins.
LEMMA BeginGoes ==
    ASSUME Shape, NEW s \in Sessions, NEW mode \in Modes \cup {"deliver"}, Begin(s, mode)
    PROVE  /\ \E new : Keeps(s, new)
           /\ UNCHANGED <<worldVars, dbVars, boundVars>>
<1> DEFINE new == [Blank EXCEPT !.step = "rules", !.mode = mode, !.shares = shareOf]
<1>1. /\ run[s].step = "idle" /\ run' = [run EXCEPT ![s] = new]
      /\ UNCHANGED <<worldVars, dbVars, boundVars>>
  BY DEF Begin, Becomes
<1>2. RunOK(new)
  BY BeginOK DEF Shape, WorldOK
<1>3. new.inserted = <<>> /\ new.step = "rules"
  BY DEF Blank
<1> HIDE DEF new
<1>4. Keeps(s, new)
  BY <1>1, <1>2, <1>3 DEF Keeps, Proceeds, Goes, Posting, dbVars
<1> QED
  BY <1>1, <1>4

\* The steps of a session that neither insert anything nor commit.
LEMMA StepGoes ==
    ASSUME Shape, NEW s \in Sessions,
           \/ ReadRules(s) \/ ReadPrices(s) \/ Lookup(s)
           \/ ReadRecommendations(s) \/ ReadActive(s) \/ List(s)
    PROVE  /\ \E new : Keeps(s, new)
           /\ UNCHANGED <<worldVars, dbVars, boundVars>>
<1> DEFINE Steady == UNCHANGED <<worldVars, dbVars, boundVars>>
<1>0. RunOK(run[s])
  BY DEF Shape, SessionsOK
<1>1. CASE ReadRules(s)
  <2> DEFINE new == [run[s] EXCEPT !.step = "prices", !.known = rules]
  <2>1. RunOK(new)
    BY <1>0, <1>1, ReadRulesOK DEF Shape, WorldOK
  <2>2. new.inserted = run[s].inserted /\ new.step = "prices"
    BY <1>0 DEF RunOK, Runs
  <2>3. run' = [run EXCEPT ![s] = new] /\ Steady /\ run[s].step = "rules"
    BY <1>1 DEF ReadRules, Becomes
  <2> HIDE DEF new
  <2>4. Keeps(s, new)
    BY <2>1, <2>2, <2>3 DEF Keeps, Proceeds, Goes, Posting, dbVars
  <2> QED
    BY <2>3, <2>4
<1>2. CASE ReadPrices(s)
  <2>1. PICK new : RunOK(new) /\ new.step = "latch" /\ new.inserted = run[s].inserted /\ Becomes(s, new)
    BY <1>0, <1>2, ReadPricesOK
  <2>2. Steady /\ run[s].step = "prices"
    BY <1>2 DEF ReadPrices
  <2>3. Keeps(s, new)
    BY <2>1, <2>2 DEF Keeps, Proceeds, Goes, Becomes, Posting, dbVars
  <2> QED
    BY <2>2, <2>3
<1>3. CASE Lookup(s)
  <2>1. PICK new : RunOK(new) /\ new.step = run[s].step /\ new.inserted = run[s].inserted /\ Becomes(s, new)
    BY <1>0, <1>3, LookupOK
  <2>2. Steady /\ run[s].step \in Phases
    BY <1>3 DEF Lookup, Busy
  <2>3. Keeps(s, new)
    BY <2>1, <2>2 DEF Keeps, Proceeds, Goes, Becomes, Posting, Phases, dbVars
  <2> QED
    BY <2>2, <2>3
<1>4. CASE ReadRecommendations(s)
  <2>1. PICK new : /\ RunOK(new) /\ new.step = "recommendations"
                   /\ new.inserted = run[s].inserted /\ Becomes(s, new)
    BY <1>0, <1>4, ReadRecommendationsOK DEF Shape, WorldOK
  <2>2. Steady /\ run[s].step = "alerts"
    BY <1>4 DEF ReadRecommendations
  <2>3. Keeps(s, new)
    BY <2>1, <2>2 DEF Keeps, Proceeds, Goes, Becomes, Posting, dbVars
  <2> QED
    BY <2>2, <2>3
<1>5. CASE ReadActive(s)
  <2>1. PICK new : /\ RunOK(new) /\ new.step = "stale"
                   /\ new.inserted = run[s].inserted /\ Becomes(s, new)
    BY <1>0, <1>5, ReadActiveOK
  <2>2. Steady /\ run[s].step = "recommendations"
    BY <1>5 DEF ReadActive
  <2>3. Keeps(s, new)
    BY <2>1, <2>2 DEF Keeps, Proceeds, Goes, Becomes, Posting, dbVars
  <2> QED
    BY <2>2, <2>3
<1>6. CASE List(s)
  <2>1. Steady /\ run[s].step = "committed" /\ Becomes(s, Blank)
    BY <1>6 DEF List
  <2>2. Keeps(s, Blank)
    BY <2>1, BlankOK DEF Keeps, Proceeds, Goes, Becomes, Posting, dbVars
  <2> QED
    BY <2>1, <2>2
<1> QED
  BY <1>1, <1>2, <1>3, <1>4, <1>5, <1>6

\* The latches are saved, or the session fails for a rule that is gone.
LEMMA SaveLatchGoes ==
    ASSUME Shape, NEW s \in Sessions, SaveLatch(s)
    PROVE  (\E new : Keeps(s, new)) /\ (UNCHANGED optedIn => WorldOK')
<1>0. RunOK(run[s]) /\ run[s].step = "latch" /\ run[s] \in Runs
  BY DEF Shape, SessionsOK, SaveLatch, RunOK
<1>1. CASE Fail(s) /\ UNCHANGED crashes
  <2>1. Keeps(s, Blank)
    BY <1>0, <1>1, BlankOK DEF Fail, Becomes, Keeps, Proceeds, Goes, Posting, dbVars
  <2>2. UNCHANGED optedIn => WorldOK'
    BY <1>1 DEF Fail, Shape, WorldOK, worldVars, dbVars
  <2> QED
    BY <2>1, <2>2
<1>2. CASE /\ rules' = [r \in Rules |-> IF r \in Relatched(s)
                                        THEN [rules[r] EXCEPT !.latch = run[s].latched[r]]
                                        ELSE rules[r]]
           /\ Becomes(s, IF run[s].mode = "evaluate" THEN Blank
                         ELSE [run[s] EXCEPT !.step = "alerts", !.latched = <<>>])
           /\ UNCHANGED <<worldVars, notifications, boundVars>>
  <2>1. \A r \in Relatched(s) : run[s].latched[r] \in BOOLEAN
    <3>1. PICK S \in SUBSET Rules : run[s].latched \in [S -> BOOLEAN]
      BY <1>0 DEF Runs
    <3> QED
      BY <3>1 DEF Relatched
  <2>2. rules' \in [Rules -> Rule]
    BY <1>2, <2>1 DEF Shape, WorldOK, Rule
  <2>3. UNCHANGED optedIn => WorldOK'
    BY <1>2, <2>2 DEF Shape, WorldOK, worldVars, boundVars
  <2> DEFINE new == [run[s] EXCEPT !.step = "alerts", !.latched = <<>>]
  <2>4. RunOK(new)
    BY <1>0, SaveLatchOK
  <2>5. new.inserted = run[s].inserted /\ new.step = "alerts"
    BY <1>0 DEF Runs
  <2> HIDE DEF new
  <2>6. Keeps(s, Blank) \/ Keeps(s, new)
    BY <1>0, <1>2, <2>4, <2>5, BlankOK DEF Keeps, Proceeds, Goes, Becomes, Posting, new
  <2> QED
    BY <2>3, <2>6
<1> QED
  BY <1>1, <1>2 DEF SaveLatch

\* A write gets through.
LEMMA WriteGoes ==
    ASSUME Shape, NEW s \in Sessions, Write(s)
    PROVE  /\ Proceeds(s, Flushed(s))
           /\ UNCHANGED <<worldVars, dbVars, boundVars>>
<1>1. run[s].write # None /\ RunOK(run[s])
  BY DEF Write, Shape, SessionsOK
<1>2. /\ RunOK(Flushed(s)) /\ run[s].step \in Phases
      /\ Flushed(s).step \in Phases \cup {"idle"}
  BY <1>1, FlushedOK
<1> QED
  BY <1>2 DEF Write, Becomes, Proceeds, Goes, Posting, Phases, dbVars

\* A session is killed, and another may get its write through.
LEMMA VictimOK ==
    ASSUME Shape, NEW s \in Sessions, DeadlockVictim(s)
    PROVE  \E t \in Sessions \ {s} :
               /\ s \in Blockers(t) /\ run[t].write # None
               /\ run'[s] = Blank
               /\ run'[t] = IF Blockers(t) = {s} THEN Flushed(t) ELSE run[t]
               /\ \A u \in Sessions \ {s, t} : run'[u] = run[u]
               /\ DOMAIN run' = Sessions /\ run' = [u \in Sessions |-> run'[u]]
               /\ run[s].step \in Phases /\ run[t].step \in Phases
               /\ run'[t].step \in Phases \cup {"idle"}
               /\ RunOK(run'[t])
<1>1. PICK C \in SUBSET Sessions :
          /\ s \in C /\ Circle(C)
          /\ \E t \in C : /\ s \in Blockers(t)
                          /\ run' = [run EXCEPT ![s] = Blank,
                                                ![t] = IF Blockers(t) = {s} THEN Flushed(t) ELSE @]
  BY DEF DeadlockVictim
<1>2. PICK t \in C : /\ s \in Blockers(t)
                      /\ run' = [run EXCEPT ![s] = Blank,
                                            ![t] = IF Blockers(t) = {s} THEN Flushed(t) ELSE @]
  BY <1>1
<1>3. ASSUME NEW u \in Sessions, NEW v \in Blockers(u)
      PROVE  run[u].write # None /\ run[u].step \in Phases /\ v \in Sessions /\ v # u
  <2>1. run[u].write # None
    BY <1>3 DEF Blockers, None
  <2>2. WritesInPhases(run[u])
    BY DEF Shape, SessionsOK, RunOK
  <2> QED
    BY <1>3, <2>1, <2>2 DEF WritesInPhases, Blockers
<1>4. t \in Sessions \ {s} /\ run[t].write # None /\ run[t].step \in Phases
  BY <1>1, <1>2, <1>3
<1>5. run[s].step \in Phases
  <2>1. \E v : v \in Blockers(s)
    BY <1>1 DEF Circle
  <2> QED
    BY <1>3, <2>1
<1>6. /\ RunOK(Flushed(t)) /\ Flushed(t).step \in Phases \cup {"idle"} /\ RunOK(run[t])
  BY <1>4, FlushedOK DEF Shape, SessionsOK
<1>7. DOMAIN run = Sessions
  BY DEF Shape, SessionsOK
<1>8. /\ run'[s] = Blank
      /\ run'[t] = IF Blockers(t) = {s} THEN Flushed(t) ELSE run[t]
      /\ \A u \in Sessions \ {s, t} : run'[u] = run[u]
      /\ DOMAIN run' = Sessions /\ run' = [u \in Sessions |-> run'[u]]
  BY <1>2, <1>4, <1>7
<1> QED
  BY <1>2, <1>4, <1>5, <1>6, <1>8

\* That keeps the shape, too.
LEMMA VictimShape ==
    ASSUME Shape, NEW s \in Sessions, DeadlockVictim(s), UNCHANGED <<optedIn, queue, copies>>
    PROVE  Shape'
<1>1. PICK t \in Sessions \ {s} :
               /\ run'[s] = Blank
               /\ \A u \in Sessions \ {s, t} : run'[u] = run[u]
               /\ DOMAIN run' = Sessions /\ run' = [u \in Sessions |-> run'[u]]
               /\ run[s].step \in Phases /\ run[t].step \in Phases
               /\ run'[t].step \in Phases \cup {"idle"}
               /\ RunOK(run'[t])
  BY VictimOK
<1>2. UNCHANGED <<worldVars, dbVars, boundVars>>
  BY DEF DeadlockVictim
<1>3. \A u \in Sessions : RunOK(run'[u])
  BY <1>1, BlankOK DEF Shape, SessionsOK
<1>4. Runs' = Runs
  BY <1>2 DEF Runs, dbVars
<1>5. SessionsOK'
  <2>1. run' \in [Sessions -> Runs']
    BY <1>1, <1>3, <1>4 DEF RunOK
  <2> QED
    BY <1>3, <1>4, <2>1 DEF SessionsOK, RunOK, Apart, AlertsFirst, WritesInPhases
<1>6. \A u \in Sessions : run'[u].step \in Posting <=> run[u].step \in Posting
  BY <1>1, BlankOK DEF Posting, Phases
<1>7. QueuesOK'
  BY <1>2, <1>6, AlertNotifyAssumption DEF Shape, QueuesOK, dbVars
<1>8. WorldOK' /\ RowsOK'
  BY <1>2 DEF Shape, WorldOK, RowsOK, worldVars, dbVars, boundVars
<1> QED
  BY <1>5, <1>7, <1>8 DEF Shape

\* What a commit makes of the table: the old rows, some of them resolved, and
\* then the new ones.
LEMMA CommitRows ==
    ASSUME Shape, NEW s \in Sessions, Commit(s)
    PROVE  LET n == Len(notifications)
               m == Len(run[s].inserted)
           IN  /\ n \in Nat /\ m \in Nat
               /\ DOMAIN notifications = 1 .. n /\ DOMAIN notifications' = 1 .. n + m
               /\ run[s].inserted \in Seq(Sources)
               /\ \A i \in 1 .. n :
                     notifications'[i] = [notifications[i] EXCEPT !.active = @ /\ i \notin run[s].resolved]
               /\ \A i \in 1 .. n + m :
                     i > n => /\ i - n \in 1 .. m
                              /\ notifications'[i] = Fresh(run[s].inserted[i - n])
               /\ notifications' \in Seq(Row)
<1> DEFINE n == Len(notifications)
           inserted == run[s].inserted
           m == Len(inserted)
           old == [i \in DOMAIN notifications |->
                      [notifications[i] EXCEPT !.active = @ /\ i \notin run[s].resolved]]
           new == [i \in DOMAIN inserted |-> Fresh(inserted[i])]
<1>1. notifications' = old \o new
  BY DEF Commit
<1>2. /\ n \in Nat /\ DOMAIN notifications = 1 .. n
      /\ inserted \in Seq(Sources) /\ m \in Nat /\ DOMAIN inserted = 1 .. m
      /\ notifications \in Seq(Row)
  <2>1. notifications \in Seq(Row) /\ inserted \in Seq(Sources)
    BY DEF Shape, RowsOK, SessionsOK, RunOK, Runs
  <2> QED
    BY <2>1, LenProperties
<1>3. \A i \in 1 .. n : /\ old[i] = [notifications[i] EXCEPT !.active = @ /\ i \notin run[s].resolved]
                        /\ old[i] \in Row
  <2> TAKE i \in 1 .. n
  <2>1. old[i] = [notifications[i] EXCEPT !.active = @ /\ i \notin run[s].resolved]
    BY <1>2
  <2>2. notifications[i] \in Row
    BY <1>2, ElementOfSeq
  <2> HIDE DEF old
  <2>3. i \in run[s].resolved \/ i \notin run[s].resolved
    OBVIOUS
  <2>4. (notifications[i].active /\ i \notin run[s].resolved) \in BOOLEAN
    OBVIOUS
  <2> DEFINE b == notifications[i].active /\ i \notin run[s].resolved
  <2>5. old[i] = [notifications[i] EXCEPT !.active = b] /\ b \in BOOLEAN
    BY <2>1
  <2> HIDE DEF b
  <2>6. old[i] \in Row
    BY <2>2, <2>5 DEF Row
  <2> QED
    BY <2>1, <2>6
<1>4. \A i \in 1 .. m : new[i] = Fresh(inserted[i]) /\ new[i] \in Row
  <2> TAKE i \in 1 .. m
  <2>1. inserted[i] \in Sources
    BY <1>2, ElementOfSeq
  <2>2. new[i] = Fresh(inserted[i])
    BY <1>2
  <2> QED
    BY <2>1, <2>2 DEF Fresh, Row
<1>5. old = [i \in 1 .. n |-> old[i]] /\ new = [i \in 1 .. m |-> new[i]]
  BY <1>2
<1> HIDE DEF old, new, n, m
<1>6. old \in [1 .. n -> Row] /\ new \in [1 .. m -> Row]
  BY <1>3, <1>4, <1>5
<1>7. old \in Seq(Row) /\ Len(old) = n /\ new \in Seq(Row) /\ Len(new) = m
  BY <1>2, <1>6, FunctionIsSeq
<1>8. /\ old \o new \in Seq(Row) /\ Len(old \o new) = n + m
      /\ \A i \in 1 .. n + m : (old \o new)[i] = IF i <= n THEN old[i] ELSE new[i - n]
  BY <1>7, ConcatProperties
<1>9. DOMAIN notifications' = 1 .. n + m
  BY <1>1, <1>8, LenProperties
<1>10. \A i \in 1 .. n : notifications'[i] = [notifications[i] EXCEPT !.active = @ /\ i \notin run[s].resolved]
  <2> TAKE i \in 1 .. n
  <2>1. i \in 1 .. n + m /\ i <= n
    BY <1>2
  <2> QED
    BY <1>1, <1>3, <1>8, <2>1
<1>11. \A i \in 1 .. n + m : i > n => i - n \in 1 .. m /\ notifications'[i] = Fresh(inserted[i - n])
  <2> TAKE i \in 1 .. n + m
  <2> HAVE i > n
  <2>1. ~(i <= n) /\ i - n \in 1 .. m
    BY <1>2
  <2> QED
    BY <1>1, <1>4, <1>8, <2>1
<1> QED
  BY <1>1, <1>2, <1>8, <1>9, <1>10, <1>11 DEF n, m

\* A commit keeps the shape; no new row has been posted.
LEMMA CommitShape ==
    ASSUME Shape, NEW s \in Sessions, Commit(s), UNCHANGED <<optedIn, queue>>,
           copies' = [i \in DOMAIN notifications' |-> IF i \in DOMAIN copies THEN copies[i] ELSE 0]
    PROVE  Shape' /\ DOMAIN notifications \subseteq DOMAIN notifications'
<1>1. /\ notifications' \in Seq(Row)
      /\ DOMAIN notifications \subseteq DOMAIN notifications'
  BY CommitRows
<1>2. RowsOK'
  BY <1>1 DEF Shape, RowsOK
<1> DEFINE new == [Blank EXCEPT !.step = "committed", !.mode = run[s].mode, !.known = run[s].known]
<1>3. RunOK(new)
  BY CommittedOK DEF Shape, SessionsOK
<1>4. run' = [run EXCEPT ![s] = new] /\ run[s].step = "stale"
  BY DEF Commit, Becomes
<1>5. new.step = "committed"
  BY DEF Blank
<1> HIDE DEF new
<1>6. SessionsOK' /\ run'[s] = new /\ \A u \in Sessions \ {s} : run'[u] = run[u]
  BY <1>1, <1>3, <1>4, GoesOK DEF Goes, Shape
<1>7. QueuesOK'
  <2>1. \A u \in Sessions : run'[u].step \in Posting <=> run[u].step \in Posting
    BY <1>4, <1>5, <1>6 DEF Posting
  <2>2. Seq(DOMAIN notifications) \subseteq Seq(DOMAIN notifications')
    BY <1>1, SeqDef
  <2>3. queue' \in [Workers -> Seq(DOMAIN notifications')]
    BY <2>2 DEF Shape, QueuesOK
  <2> QED
    BY <2>1, <2>3, AlertNotifyAssumption DEF Shape, QueuesOK
<1>8. WorldOK'
  BY DEF Commit, Shape, WorldOK, worldVars, boundVars
<1> QED
  BY <1>1, <1>2, <1>6, <1>7, <1>8 DEF Shape

\* So does whatever happens in the world, and an edit of a rule.
LEMMA WorldShape ==
    ASSUME Shape, WorldNext, UNCHANGED <<optedIn, queue, copies>>
    PROVE  Shape' /\ UNCHANGED <<notifications, run>>
<1>1. UNCHANGED <<notifications, run, crashes>> /\ changes' \in 0 .. MaxChanges
  <2>1. Change /\ UNCHANGED <<notifications, run>>
    BY DEF WorldNext, AdviceMoves, ShareMoves, PriceMoves, EditRule, dbVars
  <2> QED
    BY <2>1, NotificationsAssumption DEF Change, Shape, WorldOK
<1>2. /\ shareOf' \in [Rules -> Shares] /\ priceOf' \in [Rules -> Prices]
      /\ recommended' \subseteq ToSet(Recommendations)
      /\ rules' \in [Rules -> Rule]
  <2>1. CASE AdviceMoves
    BY <2>1 DEF AdviceMoves, Shape, WorldOK, dbVars
  <2>2. ASSUME NEW r \in Rules, ShareMoves(r) PROVE <1>2
    BY <2>2, NotificationsAssumption DEF ShareMoves, Shape, WorldOK, dbVars
  <2>3. ASSUME NEW r \in Rules, PriceMoves(r) PROVE <1>2
    BY <2>3, NotificationsAssumption DEF PriceMoves, Shape, WorldOK, dbVars
  <2>4. ASSUME NEW r \in Rules, EditRule(r) PROVE <1>2
    <3>1. UNCHANGED worldVars
      BY <2>4 DEF EditRule
    <3>2. PICK edit \in Edits \cap RuleEdits : \E edited \in EditedRule(rules[r], edit) :
              rules' = [rules EXCEPT ![r] = edited]
      BY <2>4 DEF EditRule
    <3>3. PICK edited \in EditedRule(rules[r], edit) : rules' = [rules EXCEPT ![r] = edited]
      BY <3>2
    <3>4. rules[r] \in Rule
      BY DEF Shape, WorldOK
    <3>5. edited \in Rule
      <4>1. CASE edit = "delete"
        BY <3>4, <4>1 DEF EditedRule, Rule
      <4>2. CASE edit = "flags"
        BY <3>4, <4>2, NotificationsAssumption DEF EditedRule, Rule
      <4>3. CASE edit = "listed"
        <5>1. edited = [rules[r] EXCEPT !.listed = ~@]
          BY <4>3 DEF EditedRule
        <5> QED
          BY <3>4, <5>1 DEF Rule
      <4>4. CASE edit = "enabled"
        <5>1. edited = [rules[r] EXCEPT !.enabled = ~@]
          BY <4>4 DEF EditedRule
        <5> QED
          BY <3>4, <5>1 DEF Rule
      <4>5. CASE edit = "telegram"
        <5>1. edited = [rules[r] EXCEPT !.telegram = ~@]
          BY <4>5 DEF EditedRule
        <5> QED
          BY <3>4, <5>1 DEF Rule
      <4> QED
        BY <4>1, <4>2, <4>3, <4>4, <4>5 DEF RuleEdits
    <3> QED
      BY <3>1, <3>3, <3>5 DEF Shape, WorldOK, worldVars
  <2> QED
    BY <2>1, <2>2, <2>3, <2>4 DEF WorldNext
<1>3. WorldOK'
  BY <1>1, <1>2 DEF Shape, WorldOK
<1>4. SessionsOK' /\ RowsOK' /\ QueuesOK'
  <2>1. UNCHANGED Runs
    BY <1>1 DEF Runs
  <2>2. SessionsOK'
    BY <1>1, <2>1 DEF Shape, SessionsOK, RunOK, Apart, AlertsFirst, WritesInPhases
  <2>3. RowsOK' /\ QueuesOK'
    BY <1>1 DEF Shape, RowsOK, QueuesOK
  <2> QED
    BY <2>2, <2>3
<1> QED
  BY <1>1, <1>3, <1>4 DEF Shape

-----------------------------------------------------------------------------
(* The messages. *)

\* A row may have been sent, and a message posted: nothing else.
Rewritten ==
    /\ DOMAIN notifications' = DOMAIN notifications
    /\ \A i \in DOMAIN notifications :
          /\ notifications'[i].source = notifications[i].source
          /\ notifications'[i].active = notifications[i].active

\* A worker at its messages keeps the shape.
LEMMA GoesOnOK ==
    ASSUME Shape, NEW w \in Workers, NEW step \in Posting \cup {"idle"},
           NEW rest \in Seq(DOMAIN notifications), rest = <<>> <=> step = "idle",
           run[w].step \in Posting \cup {"committed"},
           GoesOn(w, step, rest), RowsOK', Rewritten
    PROVE  /\ Shape'
           /\ run'[w].step = step /\ queue'[w] = rest
           /\ run'[w].inserted = <<>> /\ run[w].inserted = <<>>
           /\ \A u \in Sessions \ {w} : run'[u] = run[u]
           /\ \A u \in Workers \ {w} : queue'[u] = queue[u]
<1> DEFINE new == IF step = "idle" THEN Blank ELSE [run[w] EXCEPT !.step = step]
<1>1. w \in Sessions /\ Workers \subseteq Sessions
  BY AlertNotifyAssumption
<1>2. RunOK(run[w])
  BY <1>1 DEF Shape, SessionsOK
<1>3. RunOK(new)
  <2>1. CASE step = "idle"
    BY <2>1, BlankOK
  <2>2. CASE step # "idle"
    BY <1>2, <2>2, PostingOK
  <2> QED
    BY <2>1, <2>2
<1>4. new.step = step /\ new.inserted = <<>> /\ run[w].inserted = <<>>
  <2>1. run[w].inserted = <<>>
    BY <1>2 DEF RunOK, WritesInPhases, Posting, Phases
  <2>2. CASE step = "idle"
    BY <2>1, <2>2 DEF Blank
  <2>3. CASE step # "idle"
    BY <1>2, <2>1, <2>3 DEF RunOK, Runs
  <2> QED
    BY <2>2, <2>3
<1>5. run' = [run EXCEPT ![w] = new] /\ queue' = [queue EXCEPT ![w] = rest]
  BY DEF GoesOn, Becomes
<1> HIDE DEF new
<1>6. SessionsOK' /\ run'[w] = new /\ \A u \in Sessions \ {w} : run'[u] = run[u]
  BY <1>1, <1>3, <1>5, GoesOK DEF Goes, Shape, Rewritten
<1>7. queue'[w] = rest /\ \A u \in Workers \ {w} : queue'[u] = queue[u]
  BY <1>5 DEF Shape, QueuesOK
<1>8. QueuesOK'
  <2>1. queue' \in [Workers -> Seq(DOMAIN notifications')]
    BY <1>5 DEF Shape, QueuesOK, Rewritten
  <2>2. ASSUME NEW u \in Workers PROVE queue'[u] # <<>> <=> run'[u].step \in Posting
    <3>1. CASE u = w
      BY <1>4, <1>6, <1>7, <3>1 DEF Posting
    <3>2. CASE u # w
      BY <1>1, <1>6, <1>7, <3>2 DEF Shape, QueuesOK
    <3> QED
      BY <3>1, <3>2
  <2> QED
    BY <2>1, <2>2 DEF QueuesOK
<1>9. WorldOK'
  BY DEF GoesOn, Shape, WorldOK, worldVars, boundVars
<1> QED
  BY <1>4, <1>6, <1>7, <1>8, <1>9 DEF Shape

\* One message more about row i.
LEMMA PostedFacts ==
    ASSUME RowsOK, NEW i
    PROVE  /\ Posted(i) \in [DOMAIN notifications -> 0 .. 2]
           /\ i \in DOMAIN notifications => Posted(i)[i] > 0
           /\ \A j \in DOMAIN notifications : Posted(i)[j] >= copies[j]
<1> QED
  BY DEF RowsOK, Posted

\* The head of the queue is a row, and so are the others.
LEMMA QueueFacts ==
    ASSUME Shape, NEW w \in Workers, run[w].step \in Posting
    PROVE  /\ queue[w] # <<>> /\ queue[w] \in Seq(DOMAIN notifications)
           /\ Head(queue[w]) \in DOMAIN notifications
           /\ Tail(queue[w]) \in Seq(DOMAIN notifications)
<1>1. queue[w] # <<>> /\ queue[w] \in Seq(DOMAIN notifications)
  BY DEF Shape, QueuesOK
<1> QED
  BY <1>1, HeadTailProperties

\* A worker is about to mark a row as sent only when its message is in the chat.
Marked == \A w \in Workers : run[w].step = "mark" => copies[Head(queue[w])] > 0

Delivery == Shape /\ SentWasPosted /\ Marked

\* Nobody but w does anything, and w has no notification to insert.
Alone(w) ==
    /\ run'[w].inserted = <<>> /\ run[w].inserted = <<>>
    /\ \A u \in Sessions \ {w} : run'[u] = run[u]

\* The step of a worker, as far as messages go.
LEMMA DeliveryGoesOn ==
    ASSUME Delivery, NEW w \in Workers, NEW step \in Posting \cup {"idle"},
           NEW rest \in Seq(DOMAIN notifications), rest = <<>> <=> step = "idle",
           run[w].step \in Posting \cup {"committed"},
           GoesOn(w, step, rest), RowsOK', Rewritten,
           \A i \in DOMAIN notifications :
              /\ copies'[i] >= copies[i]
              /\ notifications'[i].sent => notifications[i].sent \/ copies[i] > 0,
           step = "mark" => copies'[Head(rest)] > 0
    PROVE  Delivery' /\ Alone(w)
<1>1. /\ Shape' /\ Alone(w)
      /\ run'[w].step = step /\ queue'[w] = rest
      /\ \A u \in Workers \ {w} : queue'[u] = queue[u] /\ run'[u] = run[u]
  <2>1. Shape
    BY DEF Delivery
  <2>2. /\ Shape'
        /\ run'[w].step = step /\ queue'[w] = rest
        /\ run'[w].inserted = <<>> /\ run[w].inserted = <<>>
        /\ \A u \in Sessions \ {w} : run'[u] = run[u]
        /\ \A u \in Workers \ {w} : queue'[u] = queue[u]
    BY <2>1, GoesOnOK
  <2> QED
    BY <2>2, AlertNotifyAssumption DEF Alone
<1>2. \A i \in DOMAIN notifications : copies[i] \in Nat /\ copies'[i] \in Nat
  <2>1. /\ copies \in [DOMAIN notifications -> 0 .. 2]
        /\ copies' \in [DOMAIN notifications' -> 0 .. 2]
        /\ DOMAIN notifications' = DOMAIN notifications
    BY DEF Delivery, Shape, RowsOK, Rewritten
  <2> QED
    BY <2>1
<1>3. SentWasPosted'
  BY <1>2 DEF Delivery, SentWasPosted, Rewritten
<1>4. Marked'
  <2> SUFFICES ASSUME NEW u \in Workers, run'[u].step = "mark"
               PROVE  copies'[Head(queue'[u])] > 0
    BY DEF Marked
  <2>1. CASE u = w
    BY <1>1, <2>1
  <2>2. CASE u # w
    <3>1. queue'[u] = queue[u] /\ run[u].step = "mark"
      BY <1>1, <2>2
    <3>2. Head(queue[u]) \in DOMAIN notifications
      BY <3>1, QueueFacts DEF Delivery, Posting
    <3> QED
      BY <1>2, <3>1, <3>2 DEF Delivery, Marked
  <2> QED
    BY <2>1, <2>2
<1> QED
  BY <1>1, <1>3, <1>4 DEF Delivery

\* ... to the next one.
LEMMA DeliveryNextOne ==
    ASSUME Delivery, NEW w \in Workers, run[w].step \in Posting,
           NextOne(w), RowsOK', Rewritten,
           \A i \in DOMAIN notifications :
              /\ copies'[i] >= copies[i]
              /\ notifications'[i].sent => notifications[i].sent \/ copies[i] > 0
    PROVE  Delivery' /\ Alone(w)
<1> DEFINE rest == Tail(queue[w])
           step == IF rest = <<>> THEN "idle" ELSE "consent"
<1>1. GoesOn(w, step, rest)
  BY DEF NextOne
<1>2. rest \in Seq(DOMAIN notifications)
  BY QueueFacts DEF Delivery
<1>3. step \in Posting \cup {"idle"} /\ (rest = <<>> <=> step = "idle") /\ step # "mark"
  BY DEF Posting
<1> HIDE DEF rest, step
<1> QED
  BY <1>1, <1>2, <1>3, DeliveryGoesOn

\* Every step of a worker that is about messages.
LEMMA MessageStep ==
    ASSUME Delivery, NEW w \in Workers,
           \/ LoadPending(w) \/ AskConsent(w) \/ Refusal(w) \/ MarkSent(w)
           \/ \E i \in DOMAIN notifications : Accepted(w, i)
    PROVE  Delivery' /\ Alone(w) /\ Rewritten
<1>0. Shape /\ RowsOK /\ \A i \in DOMAIN notifications : copies[i] \in 0 .. 2
  BY DEF Delivery, Shape, RowsOK
<1>a. ASSUME UNCHANGED <<notifications, copies>>
      PROVE  /\ RowsOK' /\ Rewritten
             /\ \A i \in DOMAIN notifications :
                   /\ copies'[i] >= copies[i]
                   /\ notifications'[i].sent => notifications[i].sent \/ copies[i] > 0
  BY <1>0, <1>a DEF RowsOK, Rewritten
<1>b. ASSUME NEW j, UNCHANGED notifications, copies' = Posted(j)
      PROVE  /\ RowsOK' /\ Rewritten
             /\ \A i \in DOMAIN notifications :
                   /\ copies'[i] >= copies[i]
                   /\ notifications'[i].sent => notifications[i].sent \/ copies[i] > 0
             /\ j \in DOMAIN notifications => copies'[j] > 0
  BY <1>0, <1>b, PostedFacts DEF RowsOK, Rewritten
<1>1. CASE LoadPending(w)
  <2> DEFINE due == Those([i \in DOMAIN notifications |-> i],
                          LAMBDA i : Due(notifications[i]), LAMBDA i : i)
             step == IF due = <<>> THEN "idle" ELSE "consent"
  <2>1. /\ GoesOn(w, step, due) /\ run[w].step = "committed"
        /\ UNCHANGED <<notifications, copies>>
    BY <1>1 DEF LoadPending
  <2>2. due \in Seq(DOMAIN notifications)
    BY <1>0, DueQueue DEF RowsOK
  <2>3. step \in Posting \cup {"idle"} /\ (due = <<>> <=> step = "idle") /\ step # "mark"
    BY DEF Posting
  <2> HIDE DEF due, step
  <2>4. Delivery' /\ Alone(w)
    BY <1>a, <2>1, <2>2, <2>3, DeliveryGoesOn
  <2> QED
    BY <1>a, <2>1, <2>4
<1>2. CASE AskConsent(w)
  <2>1. /\ run[w].step = "consent" /\ UNCHANGED <<notifications, copies>>
        /\ GoesOn(w, "send", queue[w]) \/ NextOne(w)
    BY <1>2 DEF AskConsent
  <2>2. run[w].step \in Posting /\ "send" \in Posting
    BY <2>1 DEF Posting
  <2>3. queue[w] \in Seq(DOMAIN notifications) /\ queue[w] # <<>>
    BY <1>0, <2>2, QueueFacts
  <2>4. Delivery' /\ Alone(w)
    BY <1>a, <2>1, <2>2, <2>3, DeliveryGoesOn, DeliveryNextOne
  <2> QED
    BY <1>a, <2>1, <2>4
<1>3. CASE Refusal(w)
  <2>1. /\ run[w].step = "send" /\ NextOne(w) /\ UNCHANGED notifications
        /\ copies' = copies \/ copies' = Posted(Head(queue[w]))
    BY <1>3 DEF Refusal, AfterRefusal
  <2>2. run[w].step \in Posting
    BY <2>1 DEF Posting
  <2> QED
    BY <1>a, <1>b, <2>1, <2>2, DeliveryNextOne
<1>4. CASE MarkSent(w)
  <2> DEFINE i == Head(queue[w])
  <2>1. /\ run[w].step = "mark" /\ NextOne(w) /\ UNCHANGED copies
        /\ notifications' = [notifications EXCEPT ![i].sent = TRUE]
    BY <1>4 DEF MarkSent
  <2>2. run[w].step \in Posting
    BY <2>1 DEF Posting
  <2>3. i \in DOMAIN notifications /\ copies[i] > 0
    BY <1>0, <2>1, <2>2, QueueFacts DEF Delivery, Marked
  <2> HIDE DEF i
  <2>4. notifications \in Seq(Row) /\ notifications[i] \in Row
    BY <1>0, <2>3, ElementOfSeq, LenProperties DEF RowsOK
  <2>5. /\ DOMAIN notifications' = DOMAIN notifications
        /\ notifications'[i] = [notifications[i] EXCEPT !.sent = TRUE]
        /\ \A j \in DOMAIN notifications : j # i => notifications'[j] = notifications[j]
    BY <2>1, <2>3, <2>4
  <2>6. /\ notifications'[i] \in Row
        /\ notifications'[i].source = notifications[i].source
        /\ notifications'[i].active = notifications[i].active
    BY <2>4, <2>5 DEF Row
  <2>7. Rewritten
    BY <2>5, <2>6 DEF Rewritten
  <2>8. notifications' \in Seq(Row)
    <3>1. DOMAIN notifications = 1 .. Len(notifications) /\ Len(notifications) \in Nat
      BY <2>4, LenProperties
    <3>2. notifications' \in [1 .. Len(notifications) -> Row]
      <4>1. notifications' = [j \in 1 .. Len(notifications) |-> notifications'[j]]
        BY <2>1, <3>1
      <4>2. \A j \in 1 .. Len(notifications) : notifications'[j] \in Row
        BY <2>4, <2>5, <2>6, <3>1, ElementOfSeq
      <4> QED
        BY <4>1, <4>2
    <3> QED
      BY <3>1, <3>2, FunctionIsSeq
  <2>9. RowsOK'
    BY <1>0, <2>1, <2>5, <2>8 DEF RowsOK
  <2>10. \A j \in DOMAIN notifications :
              /\ copies'[j] >= copies[j]
              /\ notifications'[j].sent => notifications[j].sent \/ copies[j] > 0
    BY <1>0, <2>1, <2>3, <2>5
  <2>11. Delivery' /\ Alone(w)
    BY <2>1, <2>2, <2>7, <2>9, <2>10, DeliveryNextOne
  <2> QED
    BY <2>7, <2>11
<1>5. ASSUME NEW i \in DOMAIN notifications, Accepted(w, i) PROVE Delivery' /\ Alone(w) /\ Rewritten
  <2>1. /\ run[w].step = "send" /\ Head(queue[w]) = i /\ copies' = Posted(i)
        /\ GoesOn(w, "mark", queue[w]) /\ UNCHANGED notifications
    BY <1>5 DEF Accepted
  <2>2. run[w].step \in Posting /\ "mark" \in Posting
    BY <2>1 DEF Posting
  <2>3. queue[w] \in Seq(DOMAIN notifications) /\ queue[w] # <<>>
    BY <1>0, <2>2, QueueFacts
  <2>4. Delivery' /\ Alone(w)
    BY <1>b, <2>1, <2>2, <2>3, DeliveryGoesOn
  <2> QED
    BY <1>b, <2>1, <2>4
<1> QED
  BY <1>1, <1>2, <1>3, <1>4, <1>5

\* Nothing is sent or posted, and nobody who was not is at its messages.
LEMMA DeliveryStays ==
    ASSUME Delivery, Shape', UNCHANGED <<notifications, copies, queue>>,
           \A u \in Sessions : run'[u].step \in Posting => run'[u] = run[u]
    PROVE  Delivery'
<1>1. Marked'
  BY AlertNotifyAssumption DEF Delivery, Marked, Posting
<1> QED
  BY <1>1 DEF Delivery, SentWasPosted

\* The step of a session that is not about messages.
LEMMA DeliveryProceeds ==
    ASSUME Delivery, NEW s \in Sessions, NEW new, Proceeds(s, new), WorldOK',
           UNCHANGED <<queue, copies>>
    PROVE  /\ Delivery' /\ run'[s] = new
           /\ \A u \in Sessions \ {s} : run'[u] = run[u]
<1>1. Shape /\ SessionsOK
  BY DEF Delivery, Shape
<1>2. Shape'
  BY <1>1, ProceedsOK
<1>3. run'[s] = new /\ \A u \in Sessions \ {s} : run'[u] = run[u]
  BY <1>1, GoesOK DEF Proceeds
<1>4. \A u \in Sessions : run'[u].step \in Posting => run'[u] = run[u]
  BY <1>3 DEF Proceeds
<1> QED
  BY <1>2, <1>3, <1>4, DeliveryStays DEF Proceeds

\* Steps of the notification center, the commit of a sync included.
LEMMA CenterSteps ==
    ASSUME Delivery, NEW s \in Sessions,
           CenterStep(Step(s)) \/ \E mode \in Modes \cup {"deliver"} : CenterStep(Begin(s, mode))
    PROVE  Delivery'
<1>0. /\ Shape /\ RowsOK /\ UNCHANGED <<optedIn, queue>>
      /\ copies' = [i \in DOMAIN notifications' |-> IF i \in DOMAIN copies THEN copies[i] ELSE 0]
  BY DEF Delivery, Shape, CenterStep
<1>a. ASSUME UNCHANGED notifications PROVE UNCHANGED copies
  BY <1>0, <1>a, CopiesStay
<1>b. ASSUME NEW new, Proceeds(s, new), UNCHANGED <<worldVars, dbVars, boundVars>>
      PROVE  Delivery'
  <2>1. WorldOK'
    BY <1>0, <1>b DEF Shape, WorldOK, worldVars, dbVars, boundVars
  <2>2. UNCHANGED copies
    BY <1>a, <1>b DEF Proceeds
  <2> QED
    BY <1>0, <1>b, <2>1, <2>2, DeliveryProceeds
<1>1. ASSUME NEW mode \in Modes \cup {"deliver"}, Begin(s, mode) PROVE Delivery'
  BY <1>0, <1>1, <1>b, BeginGoes DEF Keeps
<1>2. CASE \/ ReadRules(s) \/ ReadPrices(s) \/ Lookup(s)
           \/ ReadRecommendations(s) \/ ReadActive(s) \/ List(s)
  BY <1>0, <1>2, <1>b, StepGoes DEF Keeps
<1>3. CASE SaveLatch(s)
  <2>1. PICK new : Proceeds(s, new)
    BY <1>0, <1>3, SaveLatchGoes DEF Keeps
  <2>2. WorldOK'
    BY <1>0, <1>3, SaveLatchGoes
  <2>3. UNCHANGED copies
    BY <1>a, <2>1 DEF Proceeds
  <2> QED
    BY <1>0, <2>1, <2>2, <2>3, DeliveryProceeds
<1>4. CASE Write(s)
  BY <1>0, <1>4, <1>b, WriteGoes
<1>5. CASE DeadlockVictim(s)
  <2>1. UNCHANGED notifications
    BY <1>5 DEF DeadlockVictim, dbVars
  <2>2. UNCHANGED copies
    BY <1>a, <2>1
  <2>3. Shape'
    BY <1>0, <1>5, <2>2, VictimShape
  <2>4. PICK t \in Sessions \ {s} :
            /\ run'[s] = Blank
            /\ \A u \in Sessions \ {s, t} : run'[u] = run[u]
            /\ run'[t].step \in Phases \cup {"idle"}
    BY <1>0, <1>5, VictimOK
  <2>5. \A u \in Sessions : run'[u].step \in Posting => run'[u] = run[u]
    <3>1. run'[s].step \notin Posting
      BY <2>4, BlankOK
    <3>2. run'[t].step \notin Posting
      BY <2>4 DEF Posting, Phases
    <3> QED
      BY <2>4, <3>1, <3>2
  <2> QED
    BY <1>0, <2>1, <2>2, <2>3, <2>5, DeliveryStays
<1>6. CASE Commit(s)
  <2>1. Shape' /\ DOMAIN notifications \subseteq DOMAIN notifications'
    BY <1>0, <1>6, CommitShape
  <2>2. DOMAIN copies = DOMAIN notifications
    BY <1>0 DEF RowsOK
  <2>3. \A i \in DOMAIN notifications : copies'[i] = copies[i]
    BY <1>0, <2>1, <2>2
  <2>4. ASSUME NEW i \in DOMAIN notifications', notifications'[i].sent
        PROVE  i \in DOMAIN notifications /\ notifications[i].sent
    <3> DEFINE n == Len(notifications)
               m == Len(run[s].inserted)
    <3>1. /\ n \in Nat /\ m \in Nat
          /\ DOMAIN notifications = 1 .. n /\ DOMAIN notifications' = 1 .. n + m
          /\ i \in 1 .. n =>
                notifications'[i] = [notifications[i] EXCEPT !.active = @ /\ i \notin run[s].resolved]
          /\ i \in 1 .. n + m /\ i > n => notifications'[i] = Fresh(run[s].inserted[i - n])
      BY <1>0, <1>6, CommitRows
    <3> HIDE DEF n, m
    <3>2. i \in 1 .. n
      BY <2>4, <3>1 DEF Fresh
    <3>3. notifications[i] \in Row
      <4>1. notifications \in Seq(Row)
        BY <1>0 DEF RowsOK
      <4> QED
        BY <3>1, <3>2, <4>1, ElementOfSeq DEF n
    <3> QED
      BY <2>4, <3>1, <3>2, <3>3 DEF Row
  <2>5. SentWasPosted'
    BY <2>3, <2>4 DEF Delivery, SentWasPosted
  <2>6. ASSUME NEW w \in Workers, run'[w].step = "mark"
        PROVE  copies'[Head(queue'[w])] > 0
    <3>1. run'[w] = run[w]
      <4> DEFINE new == [Blank EXCEPT !.step = "committed", !.mode = run[s].mode, !.known = run[s].known]
      <4>1. run' = [run EXCEPT ![s] = new] /\ new.step = "committed"
        BY <1>6 DEF Commit, Becomes, Blank
      <4> HIDE DEF new
      <4> QED
        BY <1>0, <2>6, <4>1, AlertNotifyAssumption DEF Shape, SessionsOK
    <3>2. Head(queue[w]) \in DOMAIN notifications
      BY <1>0, <2>6, <3>1, QueueFacts DEF Posting
    <3> QED
      BY <1>0, <2>3, <2>6, <3>1, <3>2 DEF Delivery, Marked
  <2> QED
    BY <2>1, <2>5, <2>6 DEF Delivery, Marked
<1> QED
  BY <1>1, <1>2, <1>3, <1>4, <1>5, <1>6 DEF CenterStep, Step

\* Whatever else happens.
LEMMA OtherSteps ==
    ASSUME Delivery, \/ CenterStep(WorldNext) \/ Switch
                     \/ \E s \in Sessions : Dies(s)
                     \/ UNCHANGED notifyVars
    PROVE  Delivery' /\ UNCHANGED notifications /\ \A u \in Sessions : run'[u] \in {run[u], Blank}
<1>0. Shape
  BY DEF Delivery
<1>1. CASE CenterStep(WorldNext)
  <2>1. /\ UNCHANGED <<optedIn, queue>> /\ WorldNext
        /\ copies' = [i \in DOMAIN notifications' |-> IF i \in DOMAIN copies THEN copies[i] ELSE 0]
    BY <1>1 DEF CenterStep
  <2>2. UNCHANGED notifications
    BY <2>1 DEF WorldNext, AdviceMoves, ShareMoves, PriceMoves, EditRule, dbVars
  <2>3. UNCHANGED copies
    BY <1>0, <2>1, <2>2, CopiesStay DEF Shape
  <2>4. Shape' /\ UNCHANGED run
    BY <1>0, <2>1, <2>3, WorldShape
  <2> QED
    BY <2>1, <2>2, <2>3, <2>4, DeliveryStays
<1>2. CASE Switch
  <2>1. /\ changes' \in 0 .. MaxChanges /\ optedIn' \in BOOLEAN
        /\ UNCHANGED <<worldVars, dbVars, run, queue, copies, crashes>>
    BY <1>0, <1>2, NotificationsAssumption DEF Switch, Change, Shape, WorldOK
  <2>2. WorldOK'
    BY <1>0, <2>1 DEF Shape, WorldOK, worldVars, dbVars
  <2>3. UNCHANGED Runs
    BY <2>1 DEF Runs, dbVars
  <2>4. SessionsOK'
    BY <1>0, <2>1, <2>3 DEF Shape, SessionsOK, RunOK, Apart, AlertsFirst, WritesInPhases
  <2>5. RowsOK' /\ QueuesOK'
    BY <1>0, <2>1 DEF Shape, RowsOK, QueuesOK, dbVars
  <2>6. Shape'
    BY <2>2, <2>4, <2>5 DEF Shape
  <2> QED
    BY <2>1, <2>6, DeliveryStays DEF dbVars
<1>3. ASSUME NEW s \in Sessions, Dies(s)
      PROVE  Delivery' /\ UNCHANGED notifications /\ \A u \in Sessions : run'[u] \in {run[u], Blank}
  <2>1. /\ run' = [run EXCEPT ![s] = Blank]
        /\ UNCHANGED <<worldVars, dbVars, changes, optedIn, copies>>
        /\ crashes' \in 0 .. MaxCrashes
        /\ queue' = [w \in Workers |-> IF w = s THEN <<>> ELSE queue[w]]
    BY <1>0, <1>3, NotificationsAssumption DEF Dies, Crash, Fail, Becomes, Shape, WorldOK
  <2>2. UNCHANGED notifications
    BY <2>1 DEF dbVars
  <2>3. SessionsOK' /\ run'[s] = Blank /\ \A u \in Sessions \ {s} : run'[u] = run[u]
    BY <1>0, <2>1, <2>2, BlankOK, GoesOK DEF Goes, Shape
  <2>4. WorldOK' /\ RowsOK'
    BY <1>0, <2>1 DEF Shape, WorldOK, RowsOK, worldVars, dbVars
  <2>5. QueuesOK'
    <3>1. queue' \in [Workers -> Seq(DOMAIN notifications')]
      <4> DEFINE S == Seq(DOMAIN notifications)
      <4>1. <<>> \in S
        BY EmptySeq
      <4>2. queue \in [Workers -> S]
        BY <1>0 DEF Shape, QueuesOK
      <4>3. queue' \in [Workers -> S]
        <5> HIDE DEF S
        <5> QED
          BY <2>1, <4>1, <4>2
      <4> QED
        BY <2>2, <4>3
    <3>2. \A w \in Workers : queue'[w] # <<>> <=> run'[w].step \in Posting
      BY <1>0, <2>1, <2>3, BlankOK, AlertNotifyAssumption DEF Shape, QueuesOK
    <3> QED
      BY <3>1, <3>2 DEF QueuesOK
  <2>6. Marked'
    <3> SUFFICES ASSUME NEW w \in Workers, run'[w].step = "mark"
                 PROVE  copies'[Head(queue'[w])] > 0
      BY DEF Marked
    <3>1. w # s
      BY <2>3, BlankOK DEF Posting
    <3>2. queue'[w] = queue[w] /\ run'[w] = run[w]
      BY <2>1, <2>3, <3>1, AlertNotifyAssumption
    <3> QED
      BY <2>1, <3>2 DEF Delivery, Marked
  <2>7. SentWasPosted'
    BY <2>1, <2>2 DEF Delivery, SentWasPosted
  <2>8. Shape'
    BY <2>3, <2>4, <2>5 DEF Shape
  <2> QED
    BY <2>2, <2>3, <2>6, <2>7, <2>8 DEF Delivery
<1>4. CASE UNCHANGED notifyVars
  <2>1. UNCHANGED <<worldVars, dbVars, run, boundVars, optedIn, queue, copies>>
    BY <1>4 DEF notifyVars, notificationVars
  <2>2. UNCHANGED Runs
    BY <2>1 DEF Runs, dbVars
  <2>3. SessionsOK'
    BY <1>0, <2>1, <2>2 DEF Shape, SessionsOK, RunOK, Apart, AlertsFirst, WritesInPhases
  <2>4. WorldOK' /\ RowsOK' /\ QueuesOK'
    BY <1>0, <2>1 DEF Shape, WorldOK, RowsOK, QueuesOK, worldVars, dbVars, boundVars
  <2>5. Shape'
    BY <2>3, <2>4 DEF Shape
  <2> QED
    BY <2>1, <2>5, DeliveryStays DEF dbVars
<1> QED
  BY <1>1, <1>2, <1>3, <1>4

\* The state to begin with.
LEMMA InitDelivery == NotifyInit => Delivery
<1> SUFFICES ASSUME NotifyInit PROVE Delivery
  OBVIOUS
<1>1. /\ notifications = <<>> /\ copies = <<>> /\ queue = [w \in Workers |-> <<>>]
      /\ run = [s \in Sessions |-> Blank]
  BY DEF NotifyInit, NotificationsInit
<1>2. WorldOK
  <2>1. \A f \in FlagSets : NewRule(f) \in Rule
    BY NotificationsAssumption DEF NewRule, Rule
  <2> QED
    BY <2>1, NotificationsAssumption DEF NotifyInit, NotificationsInit, WorldOK
<1>3. SessionsOK
  BY <1>1, BlankOK DEF SessionsOK, RunOK
<1>4. RowsOK
  BY <1>1 DEF RowsOK
<1>5. \A w \in Workers : queue[w] = <<>> /\ run[w].step \notin Posting
  BY <1>1, BlankOK, AlertNotifyAssumption
<1>6. QueuesOK
  BY <1>1, <1>5 DEF QueuesOK
<1>7. SentWasPosted /\ Marked
  BY <1>1, <1>5 DEF SentWasPosted, Marked, Posting
<1> QED
  BY <1>2, <1>3, <1>4, <1>6, <1>7 DEF Delivery, Shape

\* Every step keeps it.
LEMMA NextDelivery == Delivery /\ [NotifyNext]_notifyVars => Delivery'
<1> SUFFICES ASSUME Delivery, [NotifyNext]_notifyVars PROVE Delivery'
  OBVIOUS
<1>1. CASE CenterStep(WorldNext) \/ Switch \/ (\E s \in Sessions : Dies(s)) \/ UNCHANGED notifyVars
  BY <1>1, OtherSteps
<1>2. ASSUME NEW w \in Workers, StartRun(w) \/ WorkerStep(w) PROVE Delivery'
  <2>1. w \in Sessions
    BY AlertNotifyAssumption
  <2>2. CASE StartRun(w)
    <3>1. Begin(w, "deliver") /\ UNCHANGED <<optedIn, queue, copies>>
      BY <2>2 DEF StartRun
    <3>2. DOMAIN copies = DOMAIN notifications /\ UNCHANGED notifications
      BY <3>1 DEF Begin, dbVars, Delivery, Shape, RowsOK
    <3>3. copies = [i \in DOMAIN notifications |-> copies[i]]
      BY DEF Delivery, Shape, RowsOK
    <3>4. copies' = [i \in DOMAIN notifications' |-> IF i \in DOMAIN copies THEN copies[i] ELSE 0]
      BY <3>1, <3>2, <3>3
    <3>5. CenterStep(Begin(w, "deliver"))
      BY <3>1, <3>4 DEF CenterStep
    <3> QED
      BY <2>1, <3>5, CenterSteps
  <2>3. CASE CenterStep(Step(w))
    BY <2>1, <2>3, CenterSteps
  <2>4. CASE \/ LoadPending(w) \/ AskConsent(w) \/ Refusal(w) \/ MarkSent(w)
             \/ \E i \in DOMAIN notifications : Accepted(w, i)
    BY <2>4, MessageStep
  <2> QED
    BY <1>2, <2>2, <2>3, <2>4 DEF WorkerStep
<1>3. ASSUME NEW s \in Sessions \ Workers,
             CenterStep(Step(s) \/ \E mode \in Modes : Begin(s, mode))
      PROVE  Delivery'
  <2>1. CenterStep(Step(s)) \/ \E mode \in Modes : CenterStep(Begin(s, mode))
    BY <1>3 DEF CenterStep
  <2> QED
    BY <2>1, CenterSteps
<1> QED
  BY <1>1, <1>2, <1>3 DEF NotifyNext

\* Every step of the program keeps the invariant, from the first state on.
LEMMA DeliveryInv == NotifySpec => []Delivery
<1> QED
  BY InitDelivery, NextDelivery, PTL DEF NotifySpec

\* Whatever sessions, workers, rules and recommendations there are, every
\* variable of the notification center and of the worker keeps its type, and a
\* worker has messages to see to exactly while it is at them.
THEOREM NotifyTypeCorrect == NotifySpec => []NotifyTypeOK
<1>1. Delivery => NotifyTypeOK
  <2> SUFFICES ASSUME Delivery PROVE NotifyTypeOK
    OBVIOUS
  <2>1. NotificationsTypeOK
    BY DEF Delivery, Shape, WorldOK, SessionsOK, RowsOK, Row, NotificationsTypeOK
  <2>2. /\ DOMAIN copies = DOMAIN notifications
        /\ \A i \in DOMAIN copies : copies[i] \in 0 .. 2
    BY DEF Delivery, Shape, RowsOK
  <2> QED
    BY <2>1, <2>2 DEF Delivery, Shape, WorldOK, QueuesOK, Posting, NotifyTypeOK
<1> QED
  BY <1>1, DeliveryInv, PTL

\* Whatever overlaps, fails or dies on the way, a notification that is marked as
\* sent has a message in the chat: telegram_sent_at is set only after Telegram
\* took the message.
THEOREM SentIsPosted == NotifySpec => []SentWasPosted
<1>1. Delivery => SentWasPosted
  BY DEF Delivery
<1> QED
  BY <1>1, DeliveryInv, PTL

-----------------------------------------------------------------------------
(* One active notification per source. *)

\* What a session is about to commit is in nobody else's way: its source has no
\* active notification, and no other session is about to commit one for it.
Reserved ==
    \A s \in Sessions : \A x \in ToSet(run[s].inserted) :
        /\ Active(x) = {}
        /\ \A t \in Sessions \ {s} : x \notin ToSet(run[t].inserted)

Unique == OneActivePerSource /\ Reserved

\* A step that resolves nothing, adds no row, and whose inserts were free.
LEMMA UniqueStays ==
    ASSUME Unique, Rewritten,
           \A u \in Sessions : \A x \in ToSet(run'[u].inserted) :
               \/ x \in ToSet(run[u].inserted)
               \/ Active(x) = {} /\ \A t \in Sessions \ {u} : x \notin ToSet(run'[t].inserted)
    PROVE  Unique'
<1>1. OneActivePerSource'
  BY DEF Unique, OneActivePerSource, Rewritten
<1>2. ASSUME NEW x PROVE Active(x)' = Active(x)
  BY DEF Rewritten, Active
<1>3. ASSUME NEW u \in Sessions, NEW x \in ToSet(run'[u].inserted)
      PROVE  Active(x)' = {} /\ \A t \in Sessions \ {u} : x \notin ToSet(run'[t].inserted)
  <2>1. CASE x \in ToSet(run[u].inserted)
    <3>1. Active(x) = {} /\ \A t \in Sessions \ {u} : x \notin ToSet(run[t].inserted)
      BY <2>1 DEF Unique, Reserved
    <3>2. ASSUME NEW t \in Sessions \ {u}, x \in ToSet(run'[t].inserted) PROVE FALSE
      <4>1. u \in Sessions \ {t} /\ x \notin ToSet(run[t].inserted)
        BY <3>1
      <4> QED
        BY <1>3, <3>2, <4>1
    <3> QED
      BY <1>2, <3>1, <3>2
  <2>2. CASE Active(x) = {} /\ \A t \in Sessions \ {u} : x \notin ToSet(run'[t].inserted)
    BY <1>2, <2>2
  <2> QED
    BY <2>1, <2>2
<1>4. Reserved'
  <2> SUFFICES ASSUME NEW u \in Sessions, NEW x \in ToSet(run'[u].inserted)
               PROVE  Active(x)' = {} /\ \A t \in Sessions \ {u} : x \notin ToSet(run'[t].inserted)
    BY DEF Reserved
  <2> QED
    BY <1>3
<1> QED
  BY <1>1, <1>4 DEF Unique

\* Nothing is inserted at all.
LEMMA UniqueKeeps ==
    ASSUME Unique, UNCHANGED notifications \/ Rewritten,
           \A u \in Sessions : run'[u].inserted \in {run[u].inserted, <<>>}
    PROVE  Unique'
<1>1. ASSUME NEW u \in Sessions, NEW x \in ToSet(run'[u].inserted)
      PROVE  x \in ToSet(run[u].inserted)
  BY <1>1 DEF ToSet
<1>2. Rewritten
  BY DEF Rewritten
<1> QED
  BY <1>1, <1>2, UniqueStays

\* A write that gets through: the session it waited for, if any, is gone.
LEMMA UniqueFlushed ==
    ASSUME Delivery, Unique, UNCHANGED notifications, NEW t \in Sessions,
           run[t].write # None, run'[t] = Flushed(t),
           \A u \in Sessions \ {t} :
              /\ run'[u].inserted \in {run[u].inserted, <<>>}
              /\ u \in Blockers(t) => run'[u].inserted = <<>>
    PROVE  Unique'
<1>1. RunOK(run[t])
  BY DEF Delivery, Shape, SessionsOK
<1>2. \/ Flushed(t).inserted \in {run[t].inserted, <<>>}
      \/ /\ run[t].write.what = "insert" /\ ~Refused(t)
         /\ Flushed(t).inserted = Append(run[t].inserted, run[t].write.source)
  BY <1>1, FlushedOK
<1>3. CASE Flushed(t).inserted \in {run[t].inserted, <<>>}
  <2>1. \A u \in Sessions : run'[u].inserted \in {run[u].inserted, <<>>}
    BY <1>3
  <2> QED
    BY <2>1, UniqueKeeps
<1>4. CASE /\ run[t].write.what = "insert" /\ ~Refused(t)
           /\ Flushed(t).inserted = Append(run[t].inserted, run[t].write.source)
  <2> DEFINE x == run[t].write.source
  <2>1. Active(x) = {}
    BY <1>4 DEF Refused
  <2>2. ASSUME NEW u \in Sessions \ {t} PROVE x \notin ToSet(run'[u].inserted)
    <3>1. CASE u \in Blockers(t)
      BY <3>1 DEF ToSet
    <3>2. CASE u \notin Blockers(t)
      <4>1. x \notin ToSet(run[u].inserted)
        BY <1>4, <3>2 DEF Blockers
      <4> QED
        BY <4>1 DEF ToSet
    <3> QED
      BY <3>1, <3>2
  <2>3. ASSUME NEW y \in ToSet(run'[t].inserted) PROVE y \in ToSet(run[t].inserted) \/ y = x
    <3> DEFINE inserted == run[t].inserted
    <3>1. inserted \in Seq(Sources) /\ run'[t].inserted = Append(inserted, x) /\ x \in Sources
      <4>1. inserted \in Seq(Sources)
        BY <1>1 DEF RunOK, Runs
      <4>2. x \in Sources
        BY <1>1, <1>4 DEF RunOK, Runs, Insert, Resolve, None
      <4> QED
        BY <1>4, <4>1, <4>2
    <3> HIDE DEF inserted, x
    <3>2. /\ Append(inserted, x) \in Seq(Sources)
          /\ Len(Append(inserted, x)) = Len(inserted) + 1 /\ Len(inserted) \in Nat
          /\ \A i \in 1 .. Len(inserted) : Append(inserted, x)[i] = inserted[i]
          /\ Append(inserted, x)[Len(inserted) + 1] = x
      BY <3>1, AppendProperties, LenProperties
    <3>3. DOMAIN inserted = 1 .. Len(inserted) /\ DOMAIN Append(inserted, x) = 1 .. Len(inserted) + 1
      BY <3>1, <3>2, LenProperties
    <3>4. PICK i \in 1 .. Len(inserted) + 1 : y = Append(inserted, x)[i]
      BY <2>3, <3>1, <3>3 DEF ToSet
    <3>5. CASE i \in 1 .. Len(inserted)
      <4>1. y = inserted[i]
        BY <3>2, <3>4, <3>5
      <4>2. y \in ToSet(inserted)
        BY <3>3, <3>5, <4>1 DEF ToSet
      <4> QED
        BY <4>2 DEF inserted
    <3>6. CASE i = Len(inserted) + 1
      BY <3>2, <3>4, <3>6
    <3> QED
      BY <3>2, <3>5, <3>6
  <2>4. ASSUME NEW u \in Sessions, NEW y \in ToSet(run'[u].inserted)
        PROVE  \/ y \in ToSet(run[u].inserted)
               \/ Active(y) = {} /\ \A v \in Sessions \ {u} : y \notin ToSet(run'[v].inserted)
    <3>1. CASE u = t
      BY <2>1, <2>2, <2>3, <2>4, <3>1
    <3>2. CASE u # t
      <4>1. run'[u].inserted \in {run[u].inserted, <<>>}
        BY <3>2
      <4> QED
        BY <2>4, <4>1 DEF ToSet
    <3> QED
      BY <3>1, <3>2
  <2>5. Rewritten
    BY DEF Rewritten
  <2> QED
    BY <2>4, <2>5, UniqueStays
<1> QED
  BY <1>2, <1>3, <1>4

\* The commit of a sync.
LEMMA UniqueCommit ==
    ASSUME Delivery, Unique, NEW s \in Sessions, Commit(s)
    PROVE  Unique'
<1> DEFINE n == Len(notifications)
           inserted == run[s].inserted
           m == Len(inserted)
<1>1. /\ n \in Nat /\ m \in Nat
      /\ DOMAIN notifications = 1 .. n /\ DOMAIN notifications' = 1 .. n + m
      /\ inserted \in Seq(Sources)
      /\ \A i \in 1 .. n :
            notifications'[i] = [notifications[i] EXCEPT !.active = @ /\ i \notin run[s].resolved]
      /\ \A i \in 1 .. n + m :
            i > n => i - n \in 1 .. m /\ notifications'[i] = Fresh(inserted[i - n])
  BY CommitRows DEF Delivery
<1>2. \A i \in 1 .. n : notifications[i] \in Row
  <2>1. notifications \in Seq(Row)
    BY DEF Delivery, Shape, RowsOK
  <2> QED
    BY <2>1, ElementOfSeq
<1>3. /\ \A i, j \in 1 .. m : inserted[i] = inserted[j] => i = j
      /\ \A i \in 1 .. m : inserted[i] \in ToSet(inserted)
  <2>1. Apart(run[s])
    BY DEF Delivery, Shape, SessionsOK, RunOK
  <2>2. DOMAIN inserted = 1 .. m
    BY <1>1, LenProperties
  <2> QED
    BY <2>1, <2>2 DEF Apart, ToSet
<1>4. /\ run'[s].inserted = <<>>
      /\ \A u \in Sessions \ {s} : run'[u] = run[u]
  <2> DEFINE new == [Blank EXCEPT !.step = "committed", !.mode = run[s].mode, !.known = run[s].known]
  <2>1. run' = [run EXCEPT ![s] = new] /\ new.inserted = <<>>
    BY DEF Commit, Becomes, Blank
  <2> HIDE DEF new
  <2> QED
    BY <2>1 DEF Delivery, Shape, SessionsOK
<1>5. \A x \in ToSet(inserted) :
          /\ \A i \in 1 .. n : ~(notifications[i].active /\ notifications[i].source = x)
          /\ \A t \in Sessions \ {s} : x \notin ToSet(run[t].inserted)
  BY <1>1 DEF Unique, Reserved, Active
<1> HIDE DEF n, inserted, m
<1>6. ASSUME NEW i \in 1 .. n + m
      PROVE  \/ /\ i \in 1 .. n
                /\ notifications'[i].source = notifications[i].source
                /\ notifications'[i].active => notifications[i].active
             \/ /\ i > n /\ i - n \in 1 .. m
                /\ notifications'[i].source = inserted[i - n]
  <2>1. CASE i \in 1 .. n
    <3> DEFINE b == notifications[i].active /\ i \notin run[s].resolved
    <3>1. notifications'[i] = [notifications[i] EXCEPT !.active = b] /\ (b => notifications[i].active)
      BY <1>1, <2>1
    <3> HIDE DEF b
    <3>2. notifications[i] \in Row
      BY <1>2, <2>1
    <3>3. notifications'[i].source = notifications[i].source /\ notifications'[i].active = b
      BY <3>1, <3>2 DEF Row
    <3> QED
      BY <2>1, <3>1, <3>3
  <2>2. CASE i \notin 1 .. n
    <3>1. i > n
      BY <1>1, <2>2
    <3> QED
      BY <1>1, <3>1 DEF Fresh
  <2> QED
    BY <2>1, <2>2
<1>7. OneActivePerSource'
  <2> SUFFICES ASSUME NEW i \in 1 .. n + m, NEW j \in 1 .. n + m,
                      notifications'[i].active, notifications'[j].active,
                      notifications'[i].source = notifications'[j].source
               PROVE  i = j
    BY <1>1 DEF OneActivePerSource
  <2>1. CASE i \in 1 .. n /\ j \in 1 .. n
    <3>1. ~(i > n) /\ ~(j > n)
      BY <1>1, <2>1
    <3>2. /\ notifications[i].active /\ notifications[j].active
          /\ notifications[i].source = notifications[j].source
      BY <1>6, <3>1
    <3> QED
      BY <1>1, <2>1, <3>2 DEF Unique, OneActivePerSource
  <2>2. CASE i \notin 1 .. n /\ j \notin 1 .. n
    <3>1. /\ i - n \in 1 .. m /\ j - n \in 1 .. m
          /\ inserted[i - n] = inserted[j - n]
      BY <1>6, <2>2
    <3>2. i - n = j - n
      BY <1>3, <3>1
    <3> QED
      BY <1>1, <3>2
  <2>3. ASSUME NEW k \in 1 .. n, NEW l \in 1 .. n + m, l \notin 1 .. n,
               notifications'[k].active, notifications'[k].source = notifications'[l].source
        PROVE  FALSE
    <3>1. k \in 1 .. n + m /\ ~(k > n)
      BY <1>1
    <3>2. notifications[k].active /\ notifications[k].source = notifications'[k].source
      BY <1>6, <2>3, <3>1
    <3>3. l - n \in 1 .. m /\ notifications'[l].source = inserted[l - n]
      BY <1>6, <2>3
    <3> QED
      BY <1>3, <1>5, <2>3, <3>2, <3>3
  <2> QED
    BY <2>1, <2>2, <2>3
<1>8. Reserved'
  <2> SUFFICES ASSUME NEW u \in Sessions, NEW x \in ToSet(run'[u].inserted)
               PROVE  Active(x)' = {} /\ \A t \in Sessions \ {u} : x \notin ToSet(run'[t].inserted)
    BY DEF Reserved
  <2>1. u # s
    BY <1>4 DEF ToSet
  <2>2. x \in ToSet(run[u].inserted)
    BY <1>4, <2>1
  <2>3. x \notin ToSet(inserted)
    BY <1>5, <2>1, <2>2
  <2>4. \A i \in 1 .. n : ~(notifications[i].active /\ notifications[i].source = x)
    BY <1>1, <2>2 DEF Unique, Reserved, Active
  <2>5. ASSUME NEW i \in 1 .. n + m, notifications'[i].active, notifications'[i].source = x PROVE FALSE
    BY <1>3, <1>6, <2>3, <2>4, <2>5
  <2>6. Active(x)' = {}
    BY <1>1, <2>5 DEF Active
  <2>7. \A t \in Sessions \ {u} : x \notin ToSet(run'[t].inserted)
    <3> TAKE t \in Sessions \ {u}
    <3>1. CASE t = s
      BY <1>4, <3>1 DEF ToSet
    <3>2. CASE t # s
      BY <1>4, <2>2, <3>2 DEF Unique, Reserved
    <3> QED
      BY <3>1, <3>2
  <2> QED
    BY <2>6, <2>7
<1> QED
  BY <1>7, <1>8 DEF Unique

\* The other steps of a session in the notification center.
LEMMA UniqueStep ==
    ASSUME Delivery, Unique, NEW s \in Sessions,
           Step(s) \/ \E mode \in Modes \cup {"deliver"} : Begin(s, mode)
    PROVE  Unique'
<1>0. Shape /\ SessionsOK
  BY DEF Delivery, Shape
<1>a. ASSUME NEW new, Keeps(s, new) PROVE Unique'
  <2>1. UNCHANGED notifications /\ run'[s] = new /\ \A u \in Sessions \ {s} : run'[u] = run[u]
    BY <1>0, <1>a, GoesOK DEF Keeps, Proceeds
  <2>2. \A u \in Sessions : run'[u].inserted \in {run[u].inserted, <<>>}
    BY <1>a, <2>1 DEF Keeps
  <2> QED
    BY <2>1, <2>2, UniqueKeeps
<1>1. ASSUME NEW mode \in Modes \cup {"deliver"}, Begin(s, mode) PROVE Unique'
  BY <1>0, <1>1, <1>a, BeginGoes
<1>2. CASE \/ ReadRules(s) \/ ReadPrices(s) \/ Lookup(s)
           \/ ReadRecommendations(s) \/ ReadActive(s) \/ List(s)
  BY <1>0, <1>2, <1>a, StepGoes
<1>3. CASE SaveLatch(s)
  BY <1>0, <1>3, <1>a, SaveLatchGoes
<1>4. CASE Write(s)
  <2>1. /\ run[s].write # None /\ Blockers(s) = {} /\ UNCHANGED notifications
        /\ run' = [run EXCEPT ![s] = Flushed(s)]
    BY <1>4 DEF Write, Becomes, dbVars
  <2>2. run'[s] = Flushed(s) /\ \A u \in Sessions \ {s} : run'[u] = run[u]
    BY <1>0, <2>1 DEF SessionsOK
  <2> QED
    BY <2>1, <2>2, UniqueFlushed
<1>5. CASE DeadlockVictim(s)
  <2>1. PICK t \in Sessions \ {s} :
            /\ s \in Blockers(t) /\ run[t].write # None
            /\ run'[s] = Blank
            /\ run'[t] = IF Blockers(t) = {s} THEN Flushed(t) ELSE run[t]
            /\ \A u \in Sessions \ {s, t} : run'[u] = run[u]
    BY <1>0, <1>5, VictimOK
  <2>2. UNCHANGED notifications
    BY <1>5 DEF DeadlockVictim, dbVars
  <2>3. CASE Blockers(t) = {s}
    <3>1. \A u \in Sessions \ {t} :
              /\ run'[u].inserted \in {run[u].inserted, <<>>}
              /\ u \in Blockers(t) => run'[u].inserted = <<>>
      BY <2>1, <2>3, BlankOK
    <3>2. t \in Sessions /\ run'[t] = Flushed(t)
      BY <2>1, <2>3
    <3> QED
      BY <2>1, <2>2, <3>1, <3>2, UniqueFlushed
  <2>4. CASE Blockers(t) # {s}
    <3>1. \A u \in Sessions : run'[u].inserted \in {run[u].inserted, <<>>}
      BY <2>1, <2>4, BlankOK
    <3> QED
      BY <2>2, <3>1, UniqueKeeps
  <2> QED
    BY <2>3, <2>4
<1>6. CASE Commit(s)
  BY <1>6, UniqueCommit
<1> QED
  BY <1>1, <1>2, <1>3, <1>4, <1>5, <1>6 DEF Step

\* Every step of the program.
LEMMA NextUnique == Delivery /\ Unique /\ [NotifyNext]_notifyVars => Unique'
<1> SUFFICES ASSUME Delivery, Unique, [NotifyNext]_notifyVars PROVE Unique'
  OBVIOUS
<1>1. CASE CenterStep(WorldNext) \/ Switch \/ (\E s \in Sessions : Dies(s)) \/ UNCHANGED notifyVars
  <2>1. UNCHANGED notifications /\ \A u \in Sessions : run'[u] \in {run[u], Blank}
    BY <1>1, OtherSteps
  <2>2. \A u \in Sessions : run'[u].inserted \in {run[u].inserted, <<>>}
    BY <2>1, BlankOK
  <2> QED
    BY <2>1, <2>2, UniqueKeeps
<1>2. ASSUME NEW w \in Workers, StartRun(w) \/ WorkerStep(w) PROVE Unique'
  <2>1. w \in Sessions
    BY AlertNotifyAssumption
  <2>2. CASE StartRun(w)
    BY <2>1, <2>2, UniqueStep DEF StartRun
  <2>3. CASE CenterStep(Step(w))
    BY <2>1, <2>3, UniqueStep DEF CenterStep
  <2>4. CASE \/ LoadPending(w) \/ AskConsent(w) \/ Refusal(w) \/ MarkSent(w)
             \/ \E i \in DOMAIN notifications : Accepted(w, i)
    <3>1. Rewritten /\ Alone(w)
      BY <2>4, MessageStep
    <3>2. \A u \in Sessions : run'[u].inserted \in {run[u].inserted, <<>>}
      BY <3>1 DEF Alone
    <3> QED
      BY <3>1, <3>2, UniqueKeeps
  <2> QED
    BY <1>2, <2>2, <2>3, <2>4 DEF WorkerStep
<1>3. ASSUME NEW s \in Sessions \ Workers,
             CenterStep(Step(s) \/ \E mode \in Modes : Begin(s, mode))
      PROVE  Unique'
  BY <1>3, UniqueStep DEF CenterStep
<1> QED
  BY <1>1, <1>2, <1>3 DEF NotifyNext

\* However many requests and worker runs sync at the same time, however often
\* PostgreSQL kills one of them, and whatever crashes: no source ever has two
\* notifications that are not resolved.
THEOREM ActiveIsUnique == NotifySpec => []OneActivePerSource
<1>1. NotifyInit => Unique
  <2> SUFFICES ASSUME NotifyInit PROVE Unique
    OBVIOUS
  <2>1. notifications = <<>> /\ \A s \in Sessions : run[s].inserted = <<>>
    BY DEF NotifyInit, NotificationsInit, Blank
  <2> QED
    BY <2>1 DEF Unique, OneActivePerSource, Reserved, ToSet
<1>2. Unique => OneActivePerSource
  BY DEF Unique
<1> QED
  BY <1>1, <1>2, NextUnique, DeliveryInv, PTL DEF NotifySpec

-----------------------------------------------------------------------------
(* Latches and notifications, as long as one sync runs after the other.  A  *)
(* rule's latch is the work of all of its checks and a notification that of *)
(* one, so that the two can agree only where a single check of a rule can   *)
(* ever be met.                                                             *)

\* Syncs do not overlap, and each of them goes on to notifications.
InTurn == (\E s \in Sessions : Sessions = {s}) /\ Modes \subseteq {"sync"}

\* The checks of a rule with these flags that some share and price would meet.
Triggers(flags) ==
    {kind \in ToSet(Checks([flags |-> flags])) :
        \E share \in SharesSeen, price \in PricesSeen : Met(kind, share, price)}

\* A rule has one such check at most, and keeps it, and its asset has a bucket.
SingleChecks ==
    /\ "flags" \notin Edits
    /\ SharesSeen \cap {"none", "excluded"} = {}
    /\ \A flags \in FlagSets : \A k, l \in Triggers(flags) : k = l

\* What a session with record q leaves the latch of rule r at.
Latch(q, r) == IF q.step = "latch" /\ r \in DOMAIN q.latched THEN q.latched[r] ELSE rules[r].latch

\* A notification is called for by a latch of rule r.
Called(latch, r, kind) == latch /\ kind \in Triggers(rules[r].flags)

\* The session will commit a notification of source x, or leave one as it is,
\* provided that it has no task left about x.
Coming(q, x) ==
    \/ x \in ToSet(q.inserted)
    \/ q.write.what = "insert" /\ q.write.source = x
    \/ \E i \in Active(x) : i \notin q.resolved /\ ~(q.write.what = "resolve" /\ q.write.row = i)

\* x will have a notification if it is wanted, and only then: either there is a
\* task that says so and nothing has been done about x, or all has.
Pledged(q, x, wanted) ==
    /\ \A k \in 1 .. Len(q.todo) : q.todo[k].source = x =>
          /\ q.todo[k].open <=> wanted
          /\ x \notin ToSet(q.inserted)
          /\ \A i \in Active(x) : i \notin q.resolved /\ ~(q.write.what = "resolve" /\ q.write.row = i)
    /\ (\A k \in 1 .. Len(q.todo) : q.todo[k].source # x) => (wanted <=> Coming(q, x))

\* Outside the part of a sync that writes notifications, the latches that are
\* set are those with an active notification.
Mirrored(q) ==
    q.step \notin Phases =>
        \A r \in Rules : \A kind \in Kinds :
            Called(rules[r].latch, r, kind) <=> Active(AlertSource(r, kind)) # {}

\* From its verdicts on, a sync makes it so for the latches it leaves.
InHand(q) ==
    q.step \in Phases \cup {"latch"} =>
        \A r \in Rules : \A kind \in Kinds :
            Pledged(q, AlertSource(r, kind), Called(Latch(q, r), r, kind))

\* It has looked up what it is about to insert.
LookedUp(q) == q.write.what = "insert" => Active(q.write.source) = {}

\* What it has read of the rules is still so, but for their being there.
StillKnown(q) ==
    /\ q.step \in {"rules", "prices"} => q.shares \in [Rules -> SharesSeen]
    /\ q.step \in {"prices", "latch"} =>
          \A r \in Rules : q.known[r].flags = rules[r].flags /\ q.known[r].latch = rules[r].latch

\* A rule is latched because of a check of its own, and if that is one of the
\* price, there is a price.
Triggered(latch, r) ==
    latch => /\ Triggers(rules[r].flags) # {}
             /\ Triggers(rules[r].flags) \subseteq PriceKinds => priceOf[r] # "none"

InOrder(q) ==
    /\ Mirrored(q) /\ InHand(q) /\ LookedUp(q) /\ StillKnown(q)
    /\ \A r \in Rules : Triggered(Latch(q, r), r)

Orderly ==
    /\ shareOf \in [Rules -> SharesSeen] /\ priceOf \in [Rules -> PricesSeen]
    /\ \A r \in Rules : rules[r].flags \in FlagSets /\ Triggered(rules[r].latch, r)
    /\ \A s \in Sessions : InOrder(run[s])

\* As long as nobody dies.
Undisturbed == crashes = 0 => Orderly

\* Nothing that matters to it happens elsewhere.
LEMMA OrderStays ==
    ASSUME Rewritten, NEW q, InOrder(q),
           \A r \in Rules : /\ rules'[r].flags = rules[r].flags /\ rules'[r].latch = rules[r].latch
                            /\ priceOf[r] # "none" => priceOf'[r] # "none"
    PROVE  InOrder(q)'
<1>1. ASSUME NEW x PROVE Active(x)' = Active(x)
  BY DEF Rewritten, Active
<1>2. ASSUME NEW r \in Rules
      PROVE  /\ Latch(q, r)' = Latch(q, r)
             /\ \A latch, kind : Called(latch, r, kind)' <=> Called(latch, r, kind)
             /\ \A latch : Triggered(latch, r) => Triggered(latch, r)'
  <2>1. Latch(q, r)' = Latch(q, r)
    BY DEF Latch
  <2>2. ASSUME NEW latch, NEW kind PROVE Called(latch, r, kind)' <=> Called(latch, r, kind)
    BY DEF Called, Triggers
  <2>3. ASSUME NEW latch, Triggered(latch, r) PROVE Triggered(latch, r)'
    <3>1. Triggers(rules[r].flags)' = Triggers(rules[r].flags)
      BY DEF Triggers
    <3> QED
      BY <2>3, <3>1 DEF Triggered
  <2> QED
    BY <2>1, <2>2, <2>3
<1>3. ASSUME NEW x, NEW wanted PROVE Pledged(q, x, wanted)' <=> Pledged(q, x, wanted)
  BY <1>1 DEF Pledged, Coming
<1>4. Mirrored(q)'
  BY <1>1, <1>2 DEF InOrder, Mirrored, Called, Triggers
<1>5. InHand(q)'
  <2> SUFFICES ASSUME q.step \in Phases \cup {"latch"}, NEW r \in Rules, NEW kind \in Kinds
               PROVE  Pledged(q, AlertSource(r, kind), Called(Latch(q, r), r, kind))'
    BY DEF InHand
  <2>1. Pledged(q, AlertSource(r, kind), Called(Latch(q, r), r, kind))
    BY DEF InOrder, InHand
  <2>2. Called(Latch(q, r), r, kind)' <=> Called(Latch(q, r), r, kind)
    BY <1>2 DEF Called, Triggers
  <2> QED
    BY <1>1, <2>1, <2>2 DEF Pledged, Coming
<1>6. LookedUp(q)' /\ StillKnown(q)'
  BY <1>1 DEF InOrder, LookedUp, StillKnown
<1>7. ASSUME NEW r \in Rules PROVE Triggered(Latch(q, r), r)'
  <2>1. Triggered(Latch(q, r), r)
    BY DEF InOrder
  <2>2. Latch(q, r)' = Latch(q, r) /\ Triggers(rules[r].flags)' = Triggers(rules[r].flags)
    BY <1>2 DEF Triggers
  <2> QED
    BY <2>1, <2>2 DEF Triggered
<1> QED
  BY <1>4, <1>5, <1>6, <1>7 DEF InOrder

\* A session that is not at its notifications, and has no verdicts.
LEMMA OrderOutside ==
    ASSUME NEW q, InOrder(q), q.step \notin Phases,
           NEW new, new.step \notin Phases \cup {"latch"}, new.write = None,
           \A r \in Rules : Triggered(rules[r].latch, r),
           StillKnown(new)
    PROVE  InOrder(new)
<1>1. Mirrored(new)
  BY DEF InOrder, Mirrored
<1>2. InHand(new) /\ LookedUp(new)
  BY DEF InHand, LookedUp, None
<1>3. \A r \in Rules : Latch(new, r) = rules[r].latch
  BY DEF Latch
<1> QED
  BY <1>1, <1>2, <1>3 DEF InOrder

\* A session that is at its notifications, and goes on with them.
LEMMA OrderInside ==
    ASSUME NEW q, InOrder(q), q.step \in Phases,
           NEW new, new.step \in Phases, LookedUp(new),
           \A x \in AlertSources : \A wanted \in BOOLEAN : Pledged(q, x, wanted) => Pledged(new, x, wanted)
    PROVE  InOrder(new)
<1>1. \A r \in Rules : Latch(new, r) = rules[r].latch /\ Latch(q, r) = rules[r].latch
  BY DEF Latch, Phases
<1>2. Mirrored(new) /\ StillKnown(new)
  BY DEF Mirrored, StillKnown, Phases
<1>3. InHand(new)
  <2> SUFFICES ASSUME NEW r \in Rules, NEW kind \in Kinds
               PROVE  Pledged(new, AlertSource(r, kind), Called(Latch(new, r), r, kind))
    BY DEF InHand
  <2> DEFINE x == AlertSource(r, kind)
             wanted == Called(rules[r].latch, r, kind)
  <2>1. Pledged(q, x, wanted)
    BY <1>1 DEF InOrder, InHand
  <2>2. x \in AlertSources /\ wanted \in BOOLEAN
    BY DEF AlertSources, Called
  <2> HIDE DEF x, wanted
  <2>3. Pledged(new, x, wanted)
    BY <2>1, <2>2
  <2> QED
    BY <1>1, <2>3 DEF x, wanted
<1> QED
  BY <1>1, <1>2, <1>3 DEF InOrder

\* What a rule's verdicts come to, when one of its checks at most can be met.
LEMMA VerdictFacts ==
    ASSUME SingleChecks, NEW rule, rule.flags \in FlagSets, NEW kind \in Kinds,
           NEW share \in SharesSeen, NEW price \in PricesSeen,
           rule.latch /\ Triggers(rule.flags) \subseteq PriceKinds => price # "none"
    PROVE  LET fires  == Fires(kind, rule, share, price)
               noted  == /\ kind \in ToSet(Checks(rule))
                         /\ fires \/ Clears(kind, rule, share, price)
               wanted == LatchAfter(rule, share, price) /\ kind \in Triggers(rule.flags)
           IN  /\ noted => (fires <=> wanted)
               /\ ~noted => (wanted <=> rule.latch /\ kind \in Triggers(rule.flags))
               /\ LatchAfter(rule, share, price) =>
                     /\ Triggers(rule.flags) # {}
                     /\ Triggers(rule.flags) \subseteq PriceKinds => price # "none"
<1> DEFINE checks == ToSet(Checks(rule))
           T == Triggers(rule.flags)
           met(k) == Met(k, share, price)
<1>1. /\ T \subseteq checks
      /\ \A k \in checks : met(k) => k \in T
      /\ \A k, l \in T : k = l
  <2>1. Checks([flags |-> rule.flags]) = Checks(rule)
    BY DEF Checks
  <2>2. \A k, l \in T : k = l
    BY DEF SingleChecks
  <2>3. T = {k \in checks : \E sh \in SharesSeen, pr \in PricesSeen : Met(k, sh, pr)}
    BY <2>1 DEF Triggers
  <2> QED
    BY <2>2, <2>3
<1>2. /\ LatchAfter(rule, share, price) <=> \E k \in checks : met(k)
      /\ Fires(kind, rule, share, price) <=> met(kind) /\ ~rule.latch
      /\ Clears(kind, rule, share, price) <=> Defined(kind, share, price) /\ ~met(kind) /\ rule.latch
  BY DEF LatchAfter, Fires, Clears
<1>3. checks \subseteq Kinds
  <2>1. Checks(rule) \in Seq(Kinds)
    BY ChecksFacts
  <2>2. \A i \in 1 .. Len(Checks(rule)) : Checks(rule)[i] \in Kinds
    BY <2>1, ElementOfSeq
  <2> QED
    BY <2>1, <2>2, LenProperties DEF ToSet
<1>4. share \notin {"none", "excluded"}
  BY DEF SingleChecks
<1>5. ASSUME NEW k \in PriceKinds, met(k) PROVE price # "none"
  BY <1>5 DEF PriceKinds, Met
<1>6. rule.latch /\ kind \in T => Defined(kind, share, price)
  <2>1. ASSUME rule.latch, kind \in T, kind \in PriceKinds PROVE Defined(kind, share, price)
    <3>1. T \subseteq PriceKinds
      BY <1>1, <2>1
    <3>2. price # "none"
      BY <2>1, <3>1
    <3>3. kind = "PRICE_TARGET" \/ kind = "DIP_BUY"
      BY <2>1 DEF PriceKinds
    <3>4. CASE kind = "PRICE_TARGET"
      BY <3>2, <3>4 DEF Defined, PriceKinds
    <3>5. CASE kind = "DIP_BUY"
      BY <3>2, <3>5 DEF Defined, PriceKinds
    <3> QED
      BY <3>3, <3>4, <3>5
  <2>2. ASSUME kind \in AllocationKinds PROVE Defined(kind, share, price)
    <3>1. kind = "ALLOCATION_BREACH" \/ kind = "REBALANCE_SUGGESTED"
      BY <2>2 DEF AllocationKinds
    <3>2. CASE kind = "ALLOCATION_BREACH"
      BY <1>4, <3>2 DEF Defined, PriceKinds
    <3>3. CASE kind = "REBALANCE_SUGGESTED"
      BY <1>4, <3>3 DEF Defined, PriceKinds
    <3> QED
      BY <3>1, <3>2, <3>3
  <2> QED
    BY <2>1, <2>2 DEF Kinds
<1> HIDE DEF checks, T, met
<1>7. kind \in T => (LatchAfter(rule, share, price) <=> met(kind))
  BY <1>1, <1>2
<1>8. LatchAfter(rule, share, price) => T # {} /\ (T \subseteq PriceKinds => price # "none")
  BY <1>1, <1>2, <1>5
<1>9. kind \in checks /\ (Fires(kind, rule, share, price) \/ Clears(kind, rule, share, price)) =>
         (Fires(kind, rule, share, price) <=> LatchAfter(rule, share, price) /\ kind \in T)
  BY <1>1, <1>2, <1>7
<1>10. ~(kind \in checks /\ (Fires(kind, rule, share, price) \/ Clears(kind, rule, share, price))) =>
         (LatchAfter(rule, share, price) /\ kind \in T <=> rule.latch /\ kind \in T)
  BY <1>1, <1>2, <1>6, <1>7
<1> QED
  BY <1>8, <1>9, <1>10 DEF checks, T

\* A session that has written nothing yet.
LEMMA ComingPlain ==
    ASSUME NEW q, q.write = None, q.inserted = <<>>, q.resolved = {}, NEW x
    PROVE  Coming(q, x) <=> Active(x) # {}
<1>1. ToSet(q.inserted) = {}
  BY DEF ToSet
<1>2. q.write.what = "none"
  BY DEF None
<1> QED
  BY <1>1, <1>2 DEF Coming

\* The verdicts.
LEMMA OrderReadPrices ==
    ASSUME SingleChecks, Delivery, Orderly, NEW s \in Sessions, ReadPrices(s)
    PROVE  \E new : Becomes(s, new) /\ InOrder(new)
<1> DEFINE q == run[s]
           T == {r \in Rules : Evaluated(q.known[r])}
           latched == [r \in T |-> LatchAfter(q.known[r], q.shares[r], priceOf[r])]
<1>1. PICK order \in SetToSeqs(T) :
          Becomes(s, [run[s] EXCEPT
              !.step = "latch", !.latched = latched,
              !.todo = FlattenSeq([i \in DOMAIN order |-> Entries(s, order[i])])])
  BY DEF ReadPrices
<1> DEFINE todo == FlattenSeq([i \in DOMAIN order |-> Entries(s, order[i])])
           new  == [q EXCEPT !.step = "latch", !.latched = latched, !.todo = todo]
<1>2. Becomes(s, new)
  BY <1>1
<1>3. \A r \in Rules : \A kind \in Kinds :
         /\ r \in T /\ Noted(s, r, kind) =>
               \E k \in 1 .. Len(todo) : todo[k].source = AlertSource(r, kind)
         /\ \A k \in 1 .. Len(todo) : todo[k].source = AlertSource(r, kind) =>
               /\ r \in T /\ Noted(s, r, kind)
               /\ todo[k].open <=> Fires(kind, q.known[r], q.shares[r], priceOf[r])
  <2>1. /\ T \in SUBSET Rules /\ order \in SetToSeqs(T)
        /\ todo = FlattenSeq([i \in DOMAIN order |-> Entries(s, order[i])])
    BY <1>1
  <2> HIDE DEF T, todo
  <2>2. Verdicts(s, T, todo)
    BY <2>1, AlertTodo
  <2> QED
    BY <2>2 DEF Verdicts
<1>4. /\ q \in Runs /\ InOrder(q) /\ q.step = "prices"
      /\ q.write = None /\ q.inserted = <<>> /\ q.resolved = {}
  <2>1. RunOK(q) /\ q.step = "prices" /\ InOrder(q)
    BY DEF Delivery, Shape, SessionsOK, Orderly, ReadPrices
  <2> QED
    BY <2>1 DEF RunOK, WritesInPhases, Phases
<1>5. /\ DOMAIN latched = T
      /\ \A r \in T : latched[r] = LatchAfter(q.known[r], q.shares[r], priceOf[r])
  OBVIOUS
<1> HIDE DEF todo, latched, q
<1>6. /\ new.step = "latch" /\ new.latched = latched /\ new.todo = todo
      /\ new.write = None /\ new.inserted = <<>> /\ new.resolved = {}
      /\ new.known = q.known /\ new.shares = q.shares
  BY <1>4 DEF Runs
<1> HIDE DEF new
<1>7. \A r \in Rules : /\ q.known[r].flags = rules[r].flags /\ q.known[r].latch = rules[r].latch
                       /\ q.shares[r] \in SharesSeen /\ priceOf[r] \in PricesSeen
                       /\ rules[r].flags \in FlagSets /\ Triggered(rules[r].latch, r)
  BY <1>4 DEF InOrder, StillKnown, Orderly
<1>8. ASSUME NEW r \in Rules, NEW kind \in Kinds
      PROVE  LET fires  == Fires(kind, q.known[r], q.shares[r], priceOf[r])
                 wanted == LatchAfter(q.known[r], q.shares[r], priceOf[r])
             IN  /\ Noted(s, r, kind) => (fires <=> Called(wanted, r, kind))
                 /\ ~Noted(s, r, kind) =>
                       (Called(wanted, r, kind) <=> Called(rules[r].latch, r, kind))
                 /\ Triggered(wanted, r)
  <2> DEFINE rule == q.known[r]
             share == q.shares[r]
             price == priceOf[r]
  <2>1. /\ rule.flags = rules[r].flags /\ rule.latch = rules[r].latch
        /\ share \in SharesSeen /\ price \in PricesSeen /\ rule.flags \in FlagSets
        /\ Triggered(rules[r].latch, r)
    BY <1>7
  <2>2. rule.latch /\ Triggers(rule.flags) \subseteq PriceKinds => price # "none"
    BY <2>1 DEF Triggered
  <2>3. Noted(s, r, kind) <=> /\ kind \in ToSet(Checks(rule))
                              /\ \/ Fires(kind, rule, share, price)
                                 \/ Clears(kind, rule, share, price)
    BY DEF Noted, q
  <2>4. price = priceOf[r]
    OBVIOUS
  <2> HIDE DEF rule, share, price
  <2>5. LET fires  == Fires(kind, rule, share, price)
            noted  == /\ kind \in ToSet(Checks(rule))
                      /\ fires \/ Clears(kind, rule, share, price)
            wanted == LatchAfter(rule, share, price) /\ kind \in Triggers(rule.flags)
        IN  /\ noted => (fires <=> wanted)
            /\ ~noted => (wanted <=> rule.latch /\ kind \in Triggers(rule.flags))
            /\ LatchAfter(rule, share, price) =>
                  /\ Triggers(rule.flags) # {}
                  /\ Triggers(rule.flags) \subseteq PriceKinds => price # "none"
    BY <2>1, <2>2, VerdictFacts
  <2>6. /\ Noted(s, r, kind) =>
              (Fires(kind, rule, share, price) <=> Called(LatchAfter(rule, share, price), r, kind))
        /\ ~Noted(s, r, kind) =>
              (Called(LatchAfter(rule, share, price), r, kind) <=> Called(rules[r].latch, r, kind))
    BY <2>1, <2>3, <2>5 DEF Called
  <2>7. Triggered(LatchAfter(rule, share, price), r)
    BY <2>1, <2>4, <2>5 DEF Triggered
  <2> QED
    BY <2>6, <2>7 DEF rule, share, price
<1>9. ASSUME NEW r \in Rules
      PROVE  Latch(new, r) = IF r \in T THEN LatchAfter(q.known[r], q.shares[r], priceOf[r])
                             ELSE rules[r].latch
  BY <1>5, <1>6 DEF Latch
<1> HIDE DEF T
<1>10. Mirrored(new) /\ LookedUp(new) /\ StillKnown(new)
  BY <1>4, <1>6, <1>7 DEF InOrder, Mirrored, LookedUp, StillKnown, None, Phases
<1>11. \A r \in Rules : Triggered(Latch(new, r), r)
  <2> TAKE r \in Rules
  <2>1. PICK kind : kind \in Kinds
    BY DEF Kinds, PriceKinds
  <2> QED
    BY <1>7, <1>8, <1>9, <2>1
<1>12. InHand(new)
  <2> SUFFICES ASSUME NEW r \in Rules, NEW kind \in Kinds
               PROVE  Pledged(new, AlertSource(r, kind), Called(Latch(new, r), r, kind))
    BY DEF InHand
  <2> DEFINE x == AlertSource(r, kind)
             fires == Fires(kind, q.known[r], q.shares[r], priceOf[r])
             wanted == Called(Latch(new, r), r, kind)
  <2>1. Coming(new, x) <=> Active(x) # {}
    BY <1>6, ComingPlain
  <2>2. Active(x) # {} <=> Called(rules[r].latch, r, kind)
    BY <1>4 DEF InOrder, Mirrored, Phases
  <2>3. /\ x \notin ToSet(new.inserted)
        /\ \A i \in Active(x) : i \notin new.resolved /\ ~(new.write.what = "resolve" /\ new.write.row = i)
    BY <1>6 DEF ToSet, None
  <2>4. CASE r \in T /\ Noted(s, r, kind)
    <3>1. fires <=> wanted
      BY <1>8, <1>9, <2>4
    <3>2. /\ \E k \in 1 .. Len(todo) : todo[k].source = x
          /\ \A k \in 1 .. Len(todo) : todo[k].source = x => (todo[k].open <=> fires)
      BY <1>3, <2>4
    <3> HIDE DEF x, fires, wanted
    <3>3. Pledged(new, x, wanted)
      BY <1>6, <2>3, <3>1, <3>2 DEF Pledged
    <3> QED
      BY <3>3 DEF x, wanted
  <2>5. CASE ~(r \in T /\ Noted(s, r, kind))
    <3>1. wanted <=> Called(rules[r].latch, r, kind)
      BY <1>8, <1>9, <2>5
    <3>2. \A k \in 1 .. Len(todo) : todo[k].source # x
      BY <1>3, <2>5
    <3> HIDE DEF x, wanted
    <3>3. Pledged(new, x, wanted)
      BY <1>6, <2>1, <2>2, <3>1, <3>2 DEF Pledged
    <3> QED
      BY <3>3 DEF x, wanted
  <2> QED
    BY <2>4, <2>5
<1>13. InOrder(new)
  BY <1>10, <1>11, <1>12 DEF InOrder
<1> QED
  BY <1>2, <1>13

\* A notification is looked up.
LEMMA OrderLookup ==
    ASSUME Delivery, OneActivePerSource, Orderly, NEW s \in Sessions, Lookup(s)
    PROVE  \E new : Becomes(s, new) /\ InOrder(new)
<1> DEFINE q      == run[s]
           todo   == q.todo
           task   == Head(todo)
           active == Active(task.source)
           W      == IF task.open
                     THEN {IF active = {} THEN Insert(task.source) ELSE None}
                     ELSE IF active = {} THEN {None} ELSE {Resolve(i) : i \in active}
<1>1. PICK write \in W : Becomes(s, [run[s] EXCEPT !.todo = Tail(@), !.write = write])
  BY DEF Lookup
<1> DEFINE new == [q EXCEPT !.todo = Tail(@), !.write = write]
<1>2. Becomes(s, new)
  BY <1>1
<1>3. /\ q \in Runs /\ q.step \in Phases /\ todo \in Seq(Task) /\ todo # <<>>
      /\ OncePerSource(todo) /\ InOrder(q) /\ q.write.what = "none"
  BY DEF Lookup, Busy, Delivery, Shape, SessionsOK, RunOK, Apart, Runs, Orderly, None
<1>4. /\ task \in Task /\ Len(todo) \in Nat \ {0} /\ task = todo[1]
      /\ Len(Tail(todo)) = Len(todo) - 1
      /\ \A i \in 1 .. Len(Tail(todo)) : Tail(todo)[i] = todo[i + 1]
  BY <1>3, HeadTailProperties, EmptySeq
<1>5. /\ task.open => \/ active = {} /\ write.what = "insert" /\ write.source = task.source
                      \/ active # {} /\ write.what = "none"
      /\ ~task.open => \/ active = {} /\ write.what = "none"
                       \/ write.what = "resolve" /\ write.row \in active /\ active = {write.row}
  <2>1. CASE task.open
    BY <1>1, <2>1 DEF Insert, None
  <2>2. CASE ~task.open /\ active = {}
    BY <1>1, <2>2 DEF None
  <2>3. CASE ~task.open /\ active # {}
    <3>1. PICK i \in active : write = Resolve(i)
      BY <1>1, <2>3
    <3>2. \A j \in active : j = i
      BY DEF OneActivePerSource, Active
    <3>3. active = {i}
      BY <3>1, <3>2
    <3> HIDE DEF active
    <3> QED
      BY <2>3, <3>1, <3>3 DEF Resolve
  <2> QED
    BY <2>1, <2>2, <2>3
<1>6. /\ new.todo = Tail(todo) /\ new.write = write /\ new.inserted = q.inserted
      /\ new.resolved = q.resolved /\ new.step = q.step
  BY <1>3 DEF Runs
<1>7. active = Active(task.source)
  OBVIOUS
<1> HIDE DEF new, active, W, q, task
<1>8. ASSUME NEW x, x # task.source
      PROVE  /\ ~(write.what = "insert" /\ write.source = x)
             /\ \A i \in Active(x) : ~(write.what = "resolve" /\ write.row = i)
  <2>1. ASSUME NEW i \in Active(x), i \in active PROVE FALSE
    BY <1>7, <1>8, <2>1 DEF Active
  <2> QED
    BY <1>5, <1>8, <2>1
<1>9. ASSUME NEW k \in 1 .. Len(Tail(todo))
      PROVE  /\ k + 1 \in 1 .. Len(todo) /\ Tail(todo)[k] = todo[k + 1]
             /\ Tail(todo)[k].source # task.source
  <2>1. k + 1 \in 1 .. Len(todo) /\ Tail(todo)[k] = todo[k + 1] /\ 1 \in 1 .. Len(todo) /\ k + 1 # 1
    BY <1>4
  <2> QED
    BY <1>3, <1>4, <2>1 DEF OncePerSource
<1>10. 1 \in 1 .. Len(todo)
  BY <1>4
<1>11. ASSUME NEW k \in 1 .. Len(todo), k # 1
       PROVE  k - 1 \in 1 .. Len(Tail(todo)) /\ Tail(todo)[k - 1] = todo[k]
  <2>1. k - 1 \in 1 .. Len(Tail(todo)) /\ (k - 1) + 1 = k
    BY <1>4, <1>11
  <2> QED
    BY <1>4, <2>1
<1>12. ASSUME NEW x, NEW wanted \in BOOLEAN, Pledged(q, x, wanted) PROVE Pledged(new, x, wanted)
  <2>1. CASE x = task.source
    <3>1. /\ task.open <=> wanted
          /\ x \notin ToSet(q.inserted)
          /\ \A i \in Active(x) : i \notin q.resolved
      BY <1>4, <1>10, <1>12, <2>1 DEF Pledged
    <3>2. \A k \in 1 .. Len(new.todo) : new.todo[k].source # x
      BY <1>6, <1>9, <2>1
    <3>3. wanted <=> Coming(new, x)
      BY <1>5, <1>6, <1>7, <2>1, <3>1 DEF Coming
    <3> QED
      BY <3>2, <3>3 DEF Pledged
  <2>2. CASE x # task.source
    <3>1. Coming(new, x) <=> Coming(q, x)
      BY <1>3, <1>6, <1>8, <2>2 DEF Coming
    <3>2. ASSUME NEW k \in 1 .. Len(new.todo), new.todo[k].source = x
          PROVE  /\ new.todo[k].open <=> wanted
                 /\ x \notin ToSet(new.inserted)
                 /\ \A i \in Active(x) : /\ i \notin new.resolved
                                         /\ ~(new.write.what = "resolve" /\ new.write.row = i)
      <4>1. k + 1 \in 1 .. Len(todo) /\ new.todo[k] = todo[k + 1]
        BY <1>6, <1>9, <3>2
      <4>2. /\ todo[k + 1].open <=> wanted
            /\ x \notin ToSet(q.inserted)
            /\ \A i \in Active(x) : i \notin q.resolved
        BY <1>12, <3>2, <4>1 DEF Pledged
      <4> QED
        BY <1>6, <1>8, <2>2, <4>1, <4>2
    <3>3. ASSUME \A k \in 1 .. Len(new.todo) : new.todo[k].source # x
          PROVE  wanted <=> Coming(new, x)
      <4>1. \A k \in 1 .. Len(todo) : todo[k].source # x
        <5> TAKE k \in 1 .. Len(todo)
        <5>1. CASE k = 1
          BY <1>4, <2>2, <5>1
        <5>2. CASE k # 1
          BY <1>6, <1>11, <3>3, <5>2
        <5> QED
          BY <5>1, <5>2
      <4> QED
        BY <1>12, <3>1, <4>1 DEF Pledged
    <3> QED
      BY <3>2, <3>3 DEF Pledged
  <2> QED
    BY <2>1, <2>2
<1>13. LookedUp(new)
  BY <1>5, <1>6, <1>7 DEF LookedUp
<1>14. InOrder(new)
  BY <1>3, <1>6, <1>12, <1>13, OrderInside
<1> QED
  BY <1>2, <1>14

\* What is appended is in the sequence, too.
LEMMA AppendedSet ==
    ASSUME NEW S, NEW seq \in Seq(S), NEW e \in S
    PROVE  ToSet(Append(seq, e)) = ToSet(seq) \cup {e}
<1>1. /\ Append(seq, e) \in Seq(S) /\ Len(seq) \in Nat
      /\ Len(Append(seq, e)) = Len(seq) + 1
      /\ \A i \in 1 .. Len(seq) : Append(seq, e)[i] = seq[i]
      /\ Append(seq, e)[Len(seq) + 1] = e
  BY AppendProperties, LenProperties
<1>2. DOMAIN seq = 1 .. Len(seq) /\ DOMAIN Append(seq, e) = 1 .. Len(seq) + 1
  BY <1>1, LenProperties
<1> QED
  BY <1>1, <1>2 DEF ToSet

\* A write gets through: nothing refuses it.
LEMMA OrderWrite ==
    ASSUME Delivery, Orderly, NEW s \in Sessions, Write(s)
    PROVE  \E new : Becomes(s, new) /\ InOrder(new)
<1> DEFINE q     == run[s]
           write == q.write
           new   == Written(s)
<1>1. /\ RunOK(q) /\ q \in Runs /\ Apart(q) /\ q.step \in Phases /\ InOrder(q)
      /\ q.inserted \in Seq(Sources)
      /\ write \in {Insert(x) : x \in Sources} \cup {Resolve(i) : i \in DOMAIN notifications}
  BY DEF Delivery, Shape, SessionsOK, RunOK, WritesInPhases, Runs, Write, Orderly
<1>2. Becomes(s, new)
  <2>1. ~Refused(s)
    BY <1>1 DEF Refused, InOrder, LookedUp
  <2> QED
    BY <2>1 DEF Write, Flushed
<1>3. CASE write.what = "insert"
  <2> DEFINE x == write.source
  <2>1. x \in Sources
    BY <1>1, <1>3 DEF Insert, Resolve
  <2>2. new = [q EXCEPT !.write = None, !.inserted = Append(q.inserted, x)]
    BY <1>1, <1>3 DEF Written, Runs
  <2>3. ToSet(Append(q.inserted, x)) = ToSet(q.inserted) \cup {x}
    BY <1>1, <2>1, AppendedSet
  <2>4. /\ new.todo = q.todo /\ new.write = None /\ new.inserted = Append(q.inserted, x)
        /\ new.resolved = q.resolved /\ new.step = q.step
    BY <1>1, <2>2 DEF Runs
  <2>5. \A k \in 1 .. Len(q.todo) : q.todo[k].source # x
    BY <1>1, <1>3 DEF Apart
  <2>6. write.what = "insert" /\ write.source = x
    BY <1>3
  <2> HIDE DEF new, x
  <2>7. ASSUME NEW y, NEW wanted \in BOOLEAN, Pledged(q, y, wanted) PROVE Pledged(new, y, wanted)
    <3>1. Coming(new, y) <=> Coming(q, y)
      BY <2>3, <2>4, <2>6 DEF Coming, None
    <3>2. ASSUME NEW k \in 1 .. Len(new.todo), new.todo[k].source = y
          PROVE  /\ new.todo[k].open <=> wanted
                 /\ y \notin ToSet(new.inserted)
                 /\ \A i \in Active(y) : i \notin new.resolved
      BY <2>3, <2>4, <2>5, <2>7, <3>2 DEF Pledged
    <3> QED
      BY <2>4, <2>7, <3>1, <3>2 DEF Pledged, None
  <2>8. LookedUp(new)
    BY <2>4 DEF LookedUp, None
  <2>9. InOrder(new)
    BY <1>1, <2>4, <2>7, <2>8, OrderInside
  <2> QED
    BY <1>2, <2>9 DEF new
<1>4. CASE write.what # "insert"
  <2> DEFINE row == write.row
  <2>1. write.what = "resolve"
    BY <1>1, <1>4 DEF Insert, Resolve
  <2>2. new = [q EXCEPT !.write = None, !.resolved = @ \cup {row}]
    BY <1>1, <2>1 DEF Written, Runs
  <2>3. /\ new.todo = q.todo /\ new.write = None /\ new.inserted = q.inserted
        /\ new.resolved = q.resolved \cup {row} /\ new.step = q.step
    BY <1>1, <2>2 DEF Runs
  <2>4. q.write.what = "resolve" /\ q.write.row = row
    BY <2>1
  <2> HIDE DEF new, row
  <2>5. ASSUME NEW y, NEW wanted \in BOOLEAN, Pledged(q, y, wanted) PROVE Pledged(new, y, wanted)
    <3>1. Coming(new, y) <=> Coming(q, y)
      BY <2>3, <2>4 DEF Coming, None
    <3>2. ASSUME NEW k \in 1 .. Len(new.todo), new.todo[k].source = y
          PROVE  /\ new.todo[k].open <=> wanted
                 /\ y \notin ToSet(new.inserted)
                 /\ \A i \in Active(y) : i \notin new.resolved
      BY <2>3, <2>4, <2>5, <3>2 DEF Pledged
    <3> QED
      BY <2>3, <2>5, <3>1, <3>2 DEF Pledged, None
  <2>6. LookedUp(new)
    BY <2>3 DEF LookedUp, None
  <2>7. InOrder(new)
    BY <1>1, <2>3, <2>5, <2>6, OrderInside
  <2> QED
    BY <1>2, <2>7 DEF new
<1> QED
  BY <1>3, <1>4

\* Alerts are dealt with when a sync turns to recommendations.
LEMMA OrderTurns ==
    ASSUME NEW q, InOrder(q), q.step \in Phases, q.write = None, q.todo = <<>>,
           NEW new, new.step \in Phases, new.write = None,
           new.inserted = q.inserted, new.resolved = q.resolved,
           \A k \in 1 .. Len(new.todo) : new.todo[k].source \in RecommendationSources
    PROVE  InOrder(new)
<1>1. ASSUME NEW x \in AlertSources, NEW wanted \in BOOLEAN, Pledged(q, x, wanted)
      PROVE  Pledged(new, x, wanted)
  <2>1. \A k \in 1 .. Len(new.todo) : new.todo[k].source # x
    BY SourcesDiffer
  <2>2. \A k \in 1 .. Len(q.todo) : q.todo[k].source # x
    OBVIOUS
  <2>3. Coming(new, x) <=> Coming(q, x)
    BY DEF Coming
  <2> QED
    BY <1>1, <2>1, <2>2, <2>3 DEF Pledged
<1>2. LookedUp(new)
  BY DEF LookedUp, None
<1> QED
  BY <1>1, <1>2, OrderInside

\* The recommendations, and those that are gone.
LEMMA OrderRecommendations ==
    ASSUME Delivery, Orderly, NEW s \in Sessions, ReadRecommendations(s) \/ ReadActive(s)
    PROVE  \E new : Becomes(s, new) /\ InOrder(new)
<1> DEFINE q == run[s]
<1>1. /\ q \in Runs /\ InOrder(q) /\ q.step \in Phases /\ q.write = None /\ q.todo = <<>>
  BY DEF Delivery, Shape, SessionsOK, RunOK, Orderly, ReadRecommendations, ReadActive, Settled, Busy
<1>2. CASE ReadRecommendations(s)
  <2> DEFINE todo == Those(Recommendations, LAMBDA x : x \in recommended,
                           LAMBDA x : [source |-> RecommendationSource(x), open |-> TRUE])
             new  == [q EXCEPT !.step = "recommendations", !.current = recommended, !.todo = todo]
  <2>1. Becomes(s, new)
    BY <1>2 DEF ReadRecommendations
  <2>2. \A k \in 1 .. Len(todo) : todo[k].source \in RecommendationSources
    BY AdviceTodo
  <2> HIDE DEF todo, q
  <2>3. /\ new.todo = todo /\ new.write = None /\ new.inserted = q.inserted
        /\ new.resolved = q.resolved /\ new.step = "recommendations"
    BY <1>1 DEF Runs
  <2> HIDE DEF new
  <2>4. InOrder(new)
    BY <1>1, <2>2, <2>3, OrderTurns DEF Phases
  <2> QED
    BY <2>1, <2>4
<1>3. CASE ReadActive(s)
  <2>1. PICK order \in SetToSeqs(Stale(s)) :
            Becomes(s, [run[s] EXCEPT
                !.step = "stale",
                !.todo = [i \in DOMAIN order |-> [source |-> order[i], open |-> FALSE]]])
    BY <1>3 DEF ReadActive
  <2> DEFINE todo == [i \in DOMAIN order |-> [source |-> order[i], open |-> FALSE]]
             new  == [q EXCEPT !.step = "stale", !.todo = todo]
  <2>2. Becomes(s, new)
    BY <2>1
  <2>3. \A k \in 1 .. Len(todo) : todo[k].source \in RecommendationSources
    BY StaleTodo
  <2> HIDE DEF todo, q
  <2>4. /\ new.todo = todo /\ new.write = None /\ new.inserted = q.inserted
        /\ new.resolved = q.resolved /\ new.step = "stale"
    BY <1>1 DEF Runs
  <2> HIDE DEF new
  <2>5. InOrder(new)
    BY <1>1, <2>3, <2>4, OrderTurns DEF Phases
  <2> QED
    BY <2>2, <2>5
<1> QED
  BY <1>2, <1>3

\* The steps of a sync outside of its verdicts and notifications.
LEMMA OrderRest ==
    ASSUME Delivery, Orderly, NEW s \in Sessions,
           \/ ReadRules(s) \/ List(s)
           \/ \E mode \in Modes \cup {"deliver"} : Begin(s, mode)
    PROVE  \E new : Becomes(s, new) /\ InOrder(new)
<1> DEFINE q == run[s]
<1>1. /\ RunOK(q) /\ q \in Runs /\ InOrder(q)
      /\ q.step \in {"idle", "rules", "committed"}
      /\ \A r \in Rules : Triggered(rules[r].latch, r)
  BY DEF Delivery, Shape, SessionsOK, RunOK, Orderly, ReadRules, List, Begin
<1>2. q.step \notin Phases /\ q.write = None
  BY <1>1 DEF Phases, RunOK, WritesInPhases
<1>3. CASE ReadRules(s)
  <2> DEFINE new == [q EXCEPT !.step = "prices", !.known = rules]
  <2>1. Becomes(s, new) /\ q.step = "rules"
    BY <1>3 DEF ReadRules
  <2> HIDE DEF q
  <2>2. /\ new.step = "prices" /\ new.known = rules /\ new.shares = q.shares /\ new.write = None
    BY <1>1, <1>2 DEF Runs
  <2> HIDE DEF new
  <2>3. StillKnown(new)
    BY <1>1, <2>1, <2>2 DEF InOrder, StillKnown
  <2>4. InOrder(new)
    BY <1>1, <1>2, <2>2, <2>3, OrderOutside DEF Phases
  <2> QED
    BY <2>1, <2>4
<1>4. CASE List(s)
  <2>1. Becomes(s, Blank)
    BY <1>4 DEF List
  <2>2. InOrder(Blank)
    <3>1. Blank.step = "idle" /\ Blank.write = None
      BY DEF Blank
    <3>2. StillKnown(Blank)
      BY <3>1 DEF StillKnown
    <3> QED
      BY <1>1, <1>2, <3>1, <3>2, OrderOutside DEF Phases
  <2> QED
    BY <2>1, <2>2
<1>5. ASSUME NEW mode, Begin(s, mode) PROVE \E new : Becomes(s, new) /\ InOrder(new)
  <2> DEFINE new == [Blank EXCEPT !.step = "rules", !.mode = mode, !.shares = shareOf]
  <2>1. Becomes(s, new)
    BY <1>5 DEF Begin
  <2>2. new.step = "rules" /\ new.shares = shareOf /\ new.write = None
    BY DEF Blank
  <2> HIDE DEF new, q
  <2>3. StillKnown(new)
    BY <2>2 DEF StillKnown, Orderly
  <2>4. InOrder(new)
    BY <1>1, <1>2, <2>2, <2>3, OrderOutside DEF Phases
  <2> QED
    BY <2>1, <2>4
<1> QED
  BY <1>3, <1>4, <1>5

\* That is all a step of the only session does, unless it saves latches or
\* commits.
LEMMA OrderStep ==
    ASSUME SessionsOK, Orderly, NEW s, Sessions = {s}, NEW new, Becomes(s, new), InOrder(new),
           Rewritten, UNCHANGED <<shareOf, priceOf, rules>>
    PROVE  Orderly'
<1>1. run'[s] = new
  BY DEF Becomes, SessionsOK
<1>2. InOrder(new)'
  BY OrderStays
<1>3. InOrder(run[s])'
  <2>1. /\ Mirrored(new)' /\ InHand(new)' /\ LookedUp(new)' /\ StillKnown(new)'
        /\ \A r \in Rules : Triggered(Latch(new, r), r)'
    BY <1>2 DEF InOrder
  <2>2. Mirrored(run[s])' /\ LookedUp(run[s])' /\ StillKnown(run[s])'
    BY <1>1, <2>1 DEF Mirrored, LookedUp, StillKnown
  <2>3. InHand(run[s])'
    BY <1>1, <2>1 DEF InHand, Pledged, Coming, Called, Latch
  <2>4. \A r \in Rules : Triggered(Latch(run[s], r), r)'
    BY <1>1, <2>1 DEF Triggered, Latch
  <2> QED
    BY <2>2, <2>3, <2>4 DEF InOrder
<1>4. \A r \in Rules : Triggered(rules[r].latch, r)'
  BY DEF Orderly, Triggered, Triggers
<1> QED
  BY <1>3, <1>4 DEF Orderly

\* The latches are saved.
LEMMA OrderSaveLatch ==
    ASSUME Delivery, InTurn, Orderly, NEW s, Sessions = {s}, SaveLatch(s)
    PROVE  Orderly'
<1> DEFINE q == run[s]
<1>1. /\ RunOK(q) /\ q \in Runs /\ InOrder(q) /\ q.step = "latch" /\ SessionsOK /\ WorldOK
      /\ \A r \in Rules : Triggered(rules[r].latch, r)
  BY DEF Delivery, Shape, SessionsOK, RunOK, Orderly, SaveLatch
<1>2. q.write = None /\ q.step \notin Phases
  BY <1>1 DEF RunOK, WritesInPhases, Phases
<1>3. CASE Fail(s)
  <2>1. /\ Becomes(s, Blank) /\ UNCHANGED <<shareOf, priceOf, rules, notifications>>
    BY <1>3 DEF Fail, worldVars, dbVars
  <2>2. Blank.step = "idle" /\ Blank.write = None /\ StillKnown(Blank)
    BY DEF Blank, StillKnown
  <2>3. InOrder(Blank)
    BY <1>1, <1>2, <2>2, OrderOutside DEF Phases
  <2>4. Rewritten
    BY <2>1 DEF Rewritten
  <2> QED
    BY <1>1, <2>1, <2>3, <2>4, OrderStep
<1>4. CASE /\ rules' = [r \in Rules |-> IF r \in Relatched(s)
                                        THEN [rules[r] EXCEPT !.latch = run[s].latched[r]]
                                        ELSE rules[r]]
           /\ Becomes(s, IF run[s].mode = "evaluate" THEN Blank
                         ELSE [run[s] EXCEPT !.step = "alerts", !.latched = <<>>])
           /\ UNCHANGED <<worldVars, notifications, boundVars>>
  <2> DEFINE new == [q EXCEPT !.step = "alerts", !.latched = <<>>]
  <2>1. q.mode # "evaluate"
    BY <1>1 DEF Runs, InTurn
  <2>2. run'[s] = new
    BY <1>1, <1>4, <2>1 DEF Becomes, SessionsOK
  <2>3. /\ new.todo = q.todo /\ new.write = q.write /\ new.inserted = q.inserted
        /\ new.resolved = q.resolved /\ new.step = "alerts"
    BY <1>1 DEF Runs
  <2>4. Relatched(s) = {r \in DOMAIN q.latched : q.latched[r] # q.known[r].latch}
    BY DEF Relatched
  <2>5. ASSUME NEW r \in Rules
        PROVE  /\ rules'[r].flags = rules[r].flags
               /\ rules'[r].latch = Latch(q, r)
    <3>1. rules[r] \in Rule /\ q.known[r].latch = rules[r].latch
      BY <1>1 DEF WorldOK, InOrder, StillKnown
    <3>2. CASE r \in Relatched(s)
      <4>1. rules'[r] = [rules[r] EXCEPT !.latch = q.latched[r]]
        BY <1>4, <3>2
      <4> HIDE DEF q
      <4>2. rules'[r].flags = rules[r].flags /\ rules'[r].latch = q.latched[r]
        BY <3>1, <4>1 DEF Rule
      <4> QED
        BY <1>1, <2>4, <3>2, <4>2 DEF Latch
    <3>3. CASE r \notin Relatched(s)
      <4>1. rules'[r] = rules[r]
        BY <1>4, <3>3
      <4> HIDE DEF q
      <4>2. r \in DOMAIN q.latched => q.latched[r] = rules[r].latch
        BY <2>4, <3>1, <3>3
      <4> QED
        BY <1>1, <4>1, <4>2 DEF Latch
    <3> QED
      BY <3>2, <3>3
  <2> HIDE DEF new, q
  <2>6. UNCHANGED <<shareOf, priceOf, notifications>>
    BY <1>4 DEF worldVars
  <2>7. ASSUME NEW x PROVE Active(x)' = Active(x)
    BY <2>6 DEF Active
  <2>8. ASSUME NEW r \in Rules PROVE Triggers(rules[r].flags)' = Triggers(rules[r].flags)
    BY <2>5 DEF Triggers
  <2>9. ASSUME NEW r \in Rules PROVE Triggered(rules[r].latch, r)' /\ Latch(run[s], r)' = Latch(q, r)
    <3>1. Triggered(Latch(q, r), r)
      BY <1>1 DEF InOrder
    <3>2. Triggered(rules[r].latch, r)'
      BY <2>5, <2>6, <2>8, <3>1 DEF Triggered
    <3>3. Latch(run[s], r)' = Latch(q, r)
      BY <2>2, <2>3, <2>5 DEF Latch
    <3> QED
      BY <3>2, <3>3
  <2>10. InHand(run[s])'
    <3> SUFFICES ASSUME NEW r \in Rules, NEW kind \in Kinds
                 PROVE  Pledged(run[s], AlertSource(r, kind), Called(Latch(run[s], r), r, kind))'
      BY DEF InHand
    <3>1. Pledged(q, AlertSource(r, kind), Called(Latch(q, r), r, kind))
      BY <1>1 DEF InOrder, InHand
    <3>2. Called(Latch(run[s], r), r, kind)' <=> Called(Latch(q, r), r, kind)
      BY <2>8, <2>9 DEF Called
    <3> QED
      BY <2>2, <2>3, <2>7, <3>1, <3>2 DEF Pledged, Coming
  <2>11. Mirrored(run[s])' /\ LookedUp(run[s])' /\ StillKnown(run[s])'
    BY <1>2, <2>2, <2>3 DEF Mirrored, LookedUp, StillKnown, Phases, None
  <2>12. \A r \in Rules : Triggered(Latch(run[s], r), r)'
    <3> TAKE r \in Rules
    <3>1. Latch(run[s], r)' = rules'[r].latch
      BY <2>5, <2>9
    <3> QED
      BY <2>9, <3>1 DEF Triggered
  <2>13. InOrder(run[s])'
    BY <2>10, <2>11, <2>12 DEF InOrder
  <2> QED
    BY <2>5, <2>6, <2>9, <2>13 DEF Orderly
<1> QED
  BY <1>3, <1>4 DEF SaveLatch

\* What is active after a commit.
LEMMA CommitActive ==
    ASSUME Shape, NEW s \in Sessions, Commit(s), NEW x
    PROVE  Active(x)' # {} <=> Coming(run[s], x)
<1> DEFINE n == Len(notifications)
           q == run[s]
           m == Len(q.inserted)
<1>1. /\ n \in Nat /\ m \in Nat
      /\ DOMAIN notifications = 1 .. n /\ DOMAIN notifications' = 1 .. n + m
      /\ q.inserted \in Seq(Sources)
      /\ \A i \in 1 .. n :
            notifications'[i] = [notifications[i] EXCEPT !.active = @ /\ i \notin q.resolved]
      /\ \A i \in 1 .. n + m :
            i > n => i - n \in 1 .. m /\ notifications'[i] = Fresh(q.inserted[i - n])
  BY CommitRows
<1>2. q.write.what = "none" /\ notifications \in Seq(Row) /\ DOMAIN q.inserted = 1 .. m
  BY LenProperties DEF Commit, Settled, None, Shape, RowsOK, SessionsOK, RunOK, Runs
<1>3. \A i \in 1 .. n : notifications[i] \in Row
  BY <1>2, ElementOfSeq
<1> HIDE DEF n, m, q
<1>4. ASSUME NEW i \in 1 .. n
      PROVE  i \in Active(x)' <=> i \in Active(x) /\ i \notin q.resolved
  <2> DEFINE b == notifications[i].active /\ i \notin q.resolved
  <2>1. notifications'[i] = [notifications[i] EXCEPT !.active = b]
    BY <1>1
  <2>2. b <=> notifications[i].active /\ i \notin q.resolved
    OBVIOUS
  <2> HIDE DEF b
  <2>3. notifications[i] \in Row
    BY <1>3
  <2>4. notifications'[i].source = notifications[i].source /\ (notifications'[i].active <=> b)
    BY <2>1, <2>3 DEF Row
  <2>5. i \in 1 .. n + m
    BY <1>1
  <2> QED
    BY <1>1, <2>2, <2>4, <2>5 DEF Active
<1>5. ASSUME NEW i \in 1 .. n + m, i > n
      PROVE  i - n \in 1 .. m /\ (i \in Active(x)' <=> q.inserted[i - n] = x)
  <2>1. i - n \in 1 .. m /\ notifications'[i] = Fresh(q.inserted[i - n])
    BY <1>1, <1>5
  <2> QED
    BY <1>1, <2>1 DEF Active, Fresh
<1>6. ASSUME NEW i \in Active(x)' PROVE Coming(q, x)
  <2>1. i \in 1 .. n + m
    BY <1>1 DEF Active
  <2>2. CASE i > n
    <3>1. i - n \in 1 .. m /\ q.inserted[i - n] = x
      BY <1>5, <1>6, <2>1, <2>2
    <3>2. x \in ToSet(q.inserted)
      BY <1>2, <3>1 DEF ToSet
    <3> QED
      BY <3>2 DEF Coming
  <2>3. CASE ~(i > n)
    <3>1. i \in 1 .. n
      BY <1>1, <2>1, <2>3
    <3>2. i \in Active(x) /\ i \notin q.resolved
      BY <1>4, <1>6, <3>1
    <3> QED
      BY <1>2, <3>2 DEF Coming
  <2> QED
    BY <2>2, <2>3
<1>7. ASSUME Coming(q, x) PROVE Active(x)' # {}
  <2>1. ASSUME x \in ToSet(q.inserted) PROVE Active(x)' # {}
    <3>1. PICK j \in 1 .. m : q.inserted[j] = x
      BY <1>2, <2>1 DEF ToSet
    <3>2. n + j \in 1 .. n + m /\ n + j > n /\ (n + j) - n = j
      BY <1>1
    <3> QED
      BY <1>5, <3>1, <3>2
  <2>2. ASSUME NEW i \in Active(x), i \notin q.resolved PROVE Active(x)' # {}
    <3>1. i \in 1 .. n
      BY <1>1 DEF Active
    <3> QED
      BY <1>4, <2>2, <3>1
  <2> QED
    BY <1>2, <1>7, <2>1, <2>2 DEF Coming
<1> QED
  BY <1>6, <1>7 DEF q

\* The commit of a sync.
LEMMA OrderCommit ==
    ASSUME Delivery, Orderly, NEW s, Sessions = {s}, Commit(s)
    PROVE  Orderly'
<1> DEFINE q == run[s]
           new == [Blank EXCEPT !.step = "committed", !.mode = run[s].mode, !.known = run[s].known]
<1>1. /\ SessionsOK /\ Shape /\ InOrder(q) /\ q.step = "stale" /\ q.todo = <<>>
      /\ UNCHANGED <<shareOf, priceOf, rules>>
  BY DEF Delivery, Shape, Orderly, Commit, Settled, worldVars
<1>2. run'[s] = new
  BY <1>1 DEF Commit, Becomes, SessionsOK
<1>3. new.step = "committed" /\ new.write = None
  BY DEF Blank
<1> HIDE DEF new, q
<1>4. Mirrored(run[s])'
  <2> SUFFICES ASSUME NEW r \in Rules, NEW kind \in Kinds
               PROVE  Called(rules[r].latch, r, kind)' <=> Active(AlertSource(r, kind))' # {}
    BY <1>1 DEF Mirrored
  <2> DEFINE x == AlertSource(r, kind)
             wanted == Called(rules[r].latch, r, kind)
  <2>1. Latch(q, r) = rules[r].latch
    BY <1>1 DEF Latch
  <2>2. Pledged(q, x, wanted)
    BY <1>1, <2>1 DEF InOrder, InHand, Phases
  <2>3. wanted <=> Coming(q, x)
    BY <1>1, <2>2 DEF Pledged
  <2>4. Active(x)' # {} <=> Coming(q, x)
    BY <1>1, CommitActive DEF q
  <2>5. Called(rules[r].latch, r, kind)' <=> wanted
    BY <1>1 DEF Called, Triggers
  <2> QED
    BY <2>3, <2>4, <2>5
<1>5. InHand(run[s])' /\ LookedUp(run[s])' /\ StillKnown(run[s])'
  BY <1>2, <1>3 DEF InHand, LookedUp, StillKnown, Phases, None
<1>6. \A r \in Rules : Triggered(rules[r].latch, r)' /\ Triggered(Latch(run[s], r), r)'
  <2> TAKE r \in Rules
  <2>1. Triggered(rules[r].latch, r)'
    BY <1>1 DEF Orderly, Triggered, Triggers
  <2>2. Latch(run[s], r)' = rules'[r].latch
    BY <1>2, <1>3 DEF Latch
  <2> QED
    BY <2>1, <2>2 DEF Triggered
<1>7. InOrder(run[s])'
  BY <1>4, <1>5, <1>6 DEF InOrder
<1> QED
  BY <1>1, <1>6, <1>7 DEF Orderly

\* A worker goes on with its messages, or is done with them.
LEMMA OrderGoesOn ==
    ASSUME Delivery, Orderly, NEW s, Sessions = {s}, run[s].step \in {"committed"} \cup Posting,
           NEW step \in Posting \cup {"idle"}, NEW rest, GoesOn(s, step, rest), Rewritten
    PROVE  Orderly'
<1> DEFINE new == IF step = "idle" THEN Blank ELSE [run[s] EXCEPT !.step = step]
<1>1. /\ RunOK(run[s]) /\ run[s] \in Runs /\ InOrder(run[s]) /\ SessionsOK
      /\ \A r \in Rules : Triggered(rules[r].latch, r)
  BY DEF Delivery, Shape, SessionsOK, RunOK, Orderly
<1>2. run[s].step \notin Phases /\ run[s].write = None
  BY <1>1 DEF RunOK, WritesInPhases, Phases, Posting
<1>3. Becomes(s, new) /\ UNCHANGED <<shareOf, priceOf, rules>>
  BY DEF GoesOn, worldVars
<1>4. new.step = step /\ new.write = None
  <2>1. CASE step = "idle"
    BY <2>1 DEF Blank
  <2>2. CASE step # "idle"
    BY <1>1, <1>2, <2>2 DEF Runs
  <2> QED
    BY <2>1, <2>2
<1> HIDE DEF new
<1>5. StillKnown(new) /\ new.step \notin Phases \cup {"latch"}
  BY <1>4 DEF StillKnown, Posting, Phases
<1>6. InOrder(new)
  BY <1>1, <1>2, <1>4, <1>5, OrderOutside
<1> QED
  BY <1>1, <1>3, <1>6, OrderStep

\* Every step about messages.
LEMMA OrderMessages ==
    ASSUME Delivery, Orderly, NEW s \in Workers, Sessions = {s},
           \/ LoadPending(s) \/ AskConsent(s) \/ Refusal(s) \/ MarkSent(s)
           \/ \E i \in DOMAIN notifications : Accepted(s, i)
    PROVE  Orderly'
<1>1. Rewritten
  BY MessageStep
<1>2. PICK step \in Posting \cup {"idle"} : \E rest : GoesOn(s, step, rest)
  BY DEF LoadPending, AskConsent, Refusal, AfterRefusal, MarkSent, Accepted, NextOne, Posting
<1>3. run[s].step \in {"committed"} \cup Posting
  BY DEF LoadPending, AskConsent, Refusal, MarkSent, Accepted, Posting
<1> QED
  BY <1>1, <1>2, <1>3, OrderGoesOn

\* Whatever else a session does.
LEMMA OrderSession ==
    ASSUME InTurn, SingleChecks, Delivery, OneActivePerSource, Orderly, NEW s, Sessions = {s},
           Step(s) \/ \E mode \in Modes \cup {"deliver"} : Begin(s, mode)
    PROVE  Orderly'
<1>0. Shape /\ SessionsOK /\ s \in Sessions
  BY DEF Delivery, Shape
<1>a. ASSUME NEW new, Becomes(s, new), InOrder(new), UNCHANGED <<worldVars, dbVars>>
      PROVE  Orderly'
  <2>1. Rewritten /\ UNCHANGED <<shareOf, priceOf, rules>>
    BY <1>a DEF Rewritten, worldVars, dbVars
  <2> QED
    BY <1>0, <1>a, <2>1, OrderStep
<1>1. CASE ReadRules(s) \/ List(s) \/ \E mode \in Modes \cup {"deliver"} : Begin(s, mode)
  <2>1. UNCHANGED <<worldVars, dbVars>>
    BY <1>1 DEF ReadRules, List, Begin
  <2> QED
    BY <1>0, <1>1, <1>a, <2>1, OrderRest
<1>2. CASE ReadPrices(s)
  <2>1. UNCHANGED <<worldVars, dbVars>>
    BY <1>2 DEF ReadPrices
  <2> QED
    BY <1>0, <1>2, <1>a, <2>1, OrderReadPrices
<1>3. CASE Lookup(s)
  <2>1. UNCHANGED <<worldVars, dbVars>>
    BY <1>3 DEF Lookup
  <2> QED
    BY <1>0, <1>3, <1>a, <2>1, OrderLookup
<1>4. CASE Write(s)
  <2>1. UNCHANGED <<worldVars, dbVars>>
    BY <1>4 DEF Write
  <2> QED
    BY <1>0, <1>4, <1>a, <2>1, OrderWrite
<1>5. CASE ReadRecommendations(s) \/ ReadActive(s)
  <2>1. UNCHANGED <<worldVars, dbVars>>
    BY <1>5 DEF ReadRecommendations, ReadActive
  <2> QED
    BY <1>0, <1>5, <1>a, <2>1, OrderRecommendations
<1>6. CASE SaveLatch(s)
  BY <1>6, OrderSaveLatch
<1>7. CASE Commit(s)
  BY <1>7, OrderCommit
<1>8. CASE DeadlockVictim(s)
  <2>1. \E t \in Sessions \ {s} : TRUE
    BY <1>0, <1>8, VictimOK
  <2> QED
    BY <2>1
<1> QED
  BY <1>1, <1>2, <1>3, <1>4, <1>5, <1>6, <1>7, <1>8 DEF Step

\* Neither notifications nor sessions are different, and of rules and world
\* nothing that matters.
LEMMA OrderKept ==
    ASSUME Orderly, UNCHANGED <<notifications, run>>,
           shareOf' \in [Rules -> SharesSeen], priceOf' \in [Rules -> PricesSeen],
           \A r \in Rules : /\ rules'[r].flags = rules[r].flags /\ rules'[r].latch = rules[r].latch
                            /\ priceOf[r] # "none" => priceOf'[r] # "none"
    PROVE  Orderly'
<1>1. Rewritten
  BY DEF Rewritten
<1>2. ASSUME NEW s \in Sessions PROVE InOrder(run[s])'
  <2> DEFINE q == run[s]
  <2>1. InOrder(q)
    BY DEF Orderly
  <2>2. PICK p : p = q /\ p = run'[s]
    OBVIOUS
  <2>3. InOrder(p)'
    BY <1>1, <2>1, <2>2, OrderStays
  <2>4. /\ Mirrored(p)' /\ InHand(p)' /\ LookedUp(p)' /\ StillKnown(p)'
        /\ \A r \in Rules : Triggered(Latch(p, r), r)'
    BY <2>3 DEF InOrder
  <2>5. Mirrored(run[s])' /\ LookedUp(run[s])' /\ StillKnown(run[s])'
    BY <2>2, <2>4 DEF Mirrored, LookedUp, StillKnown
  <2>6. InHand(run[s])'
    BY <2>2, <2>4 DEF InHand, Pledged, Coming, Called, Latch
  <2>7. \A r \in Rules : Triggered(Latch(run[s], r), r)'
    BY <2>2, <2>4 DEF Triggered, Latch
  <2> QED
    BY <2>5, <2>6, <2>7 DEF InOrder
<1>3. ASSUME NEW r \in Rules PROVE rules'[r].flags \in FlagSets /\ Triggered(rules[r].latch, r)'
  <2>1. Triggered(rules[r].latch, r) /\ rules[r].flags \in FlagSets
    BY DEF Orderly
  <2>2. Triggers(rules[r].flags)' = Triggers(rules[r].flags)
    BY DEF Triggers
  <2> QED
    BY <2>1, <2>2 DEF Triggered
<1> QED
  BY <1>2, <1>3 DEF Orderly

\* What happens in the world, or to a rule.
LEMMA OrderWorld ==
    ASSUME SingleChecks, Shape, Orderly, WorldNext
    PROVE  Orderly'
<1>1. UNCHANGED <<notifications, run>>
  BY DEF WorldNext, AdviceMoves, ShareMoves, PriceMoves, EditRule, dbVars
<1>2. /\ shareOf' \in [Rules -> SharesSeen] /\ priceOf' \in [Rules -> PricesSeen]
      /\ \A r \in Rules : /\ rules'[r].flags = rules[r].flags /\ rules'[r].latch = rules[r].latch
                          /\ priceOf[r] # "none" => priceOf'[r] # "none"
  <2>1. CASE AdviceMoves
    BY <2>1 DEF AdviceMoves, Orderly, dbVars
  <2>2. ASSUME NEW r \in Rules, ShareMoves(r) PROVE <1>2
    BY <2>2 DEF ShareMoves, Orderly, dbVars
  <2>3. ASSUME NEW r \in Rules, PriceMoves(r) PROVE <1>2
    BY <2>3 DEF PriceMoves, Orderly, dbVars
  <2>4. ASSUME NEW r \in Rules, EditRule(r) PROVE <1>2
    <3>1. PICK edit \in Edits \cap RuleEdits : \E edited \in EditedRule(rules[r], edit) :
              rules' = [rules EXCEPT ![r] = edited]
      BY <2>4 DEF EditRule
    <3>2. PICK edited \in EditedRule(rules[r], edit) : rules' = [rules EXCEPT ![r] = edited]
      BY <3>1
    <3>3. rules \in [Rules -> Rule] /\ rules[r] \in Rule
      BY DEF Shape, WorldOK
    <3>4. edit # "flags"
      BY DEF SingleChecks
    <3>5. edited.flags = rules[r].flags /\ edited.latch = rules[r].latch
      <4>1. CASE edit = "delete"
        <5>1. edited = [rules[r] EXCEPT !.exists = FALSE]
          BY <4>1 DEF EditedRule
        <5> QED
          BY <3>3, <5>1 DEF Rule
      <4>2. CASE edit = "listed"
        <5>1. edited = [rules[r] EXCEPT !.listed = ~@]
          BY <4>2 DEF EditedRule
        <5> QED
          BY <3>3, <5>1 DEF Rule
      <4>3. CASE edit = "enabled"
        <5>1. edited = [rules[r] EXCEPT !.enabled = ~@]
          BY <4>3 DEF EditedRule
        <5> QED
          BY <3>3, <5>1 DEF Rule
      <4>4. CASE edit = "telegram"
        <5>1. edited = [rules[r] EXCEPT !.telegram = ~@]
          BY <4>4 DEF EditedRule
        <5> QED
          BY <3>3, <5>1 DEF Rule
      <4> QED
        BY <3>4, <4>1, <4>2, <4>3, <4>4 DEF RuleEdits
    <3>6. UNCHANGED <<shareOf, priceOf>>
      BY <2>4 DEF EditRule, worldVars
    <3> QED
      BY <3>2, <3>3, <3>5, <3>6 DEF Orderly
  <2> QED
    BY <2>1, <2>2, <2>3, <2>4 DEF WorldNext
<1> QED
  BY <1>1, <1>2, OrderKept

\* Nothing is different.
LEMMA OrderStutters ==
    ASSUME Orderly, UNCHANGED <<shareOf, priceOf, rules, notifications, run>>
    PROVE  Orderly'
<1>1. shareOf' \in [Rules -> SharesSeen] /\ priceOf' \in [Rules -> PricesSeen]
  BY DEF Orderly
<1> QED
  BY <1>1, OrderKept

\* Every step of the program.
LEMMA NextOrderly ==
    InTurn /\ SingleChecks /\ Delivery /\ OneActivePerSource /\ Undisturbed /\ [NotifyNext]_notifyVars
    => Undisturbed'
<1> SUFFICES ASSUME InTurn, SingleChecks, Delivery, OneActivePerSource, Undisturbed,
                    [NotifyNext]_notifyVars, crashes' = 0
             PROVE  Orderly'
  BY DEF Undisturbed
<1>0. Shape /\ crashes \in Nat
  BY DEF Delivery, Shape, WorldOK
<1>1. PICK s \in Sessions : Sessions = {s}
  BY DEF InTurn
<1>2. ASSUME NEW u \in Sessions, Dies(u) PROVE FALSE
  <2>1. crashes' = crashes + 1
    BY <1>2 DEF Dies, Crash
  <2> QED
    BY <1>0, <2>1
<1>3. ASSUME crashes' = crashes PROVE Orderly
  BY <1>3 DEF Undisturbed
<1>4. CASE CenterStep(WorldNext)
  <2>1. WorldNext /\ crashes' = crashes
    BY <1>4 DEF CenterStep, WorldNext, AdviceMoves, ShareMoves, PriceMoves, EditRule, Change
  <2> QED
    BY <1>0, <1>3, <2>1, OrderWorld
<1>5. CASE Switch \/ UNCHANGED notifyVars
  <2>1. UNCHANGED <<shareOf, priceOf, rules, notifications, run, crashes>>
    BY <1>5 DEF Switch, Change, notifyVars, notificationVars, worldVars, dbVars, boundVars
  <2> QED
    BY <1>3, <2>1, OrderStutters
<1>6. ASSUME Step(s) \/ \E mode \in Modes \cup {"deliver"} : Begin(s, mode) PROVE Orderly'
  <2>1. crashes' = crashes
    BY <1>6 DEF Step, ReadRules, ReadPrices, SaveLatch, Fail, Lookup, Write, DeadlockVictim,
                ReadRecommendations, ReadActive, Commit, List, Begin, boundVars
  <2> QED
    BY <1>1, <1>3, <1>6, <2>1, OrderSession
<1>7. ASSUME NEW w \in Workers, StartRun(w) \/ WorkerStep(w) PROVE Orderly'
  <2>1. w = s /\ s \in Workers
    BY <1>1, <1>7, AlertNotifyAssumption
  <2>2. CASE StartRun(w)
    BY <1>6, <2>1, <2>2 DEF StartRun
  <2>3. CASE CenterStep(Step(w))
    BY <1>6, <2>1, <2>3 DEF CenterStep
  <2>4. CASE \/ LoadPending(w) \/ AskConsent(w) \/ Refusal(w) \/ MarkSent(w)
             \/ \E i \in DOMAIN notifications : Accepted(w, i)
    <3>1. crashes' = crashes
      BY <2>4 DEF LoadPending, AskConsent, Refusal, AfterRefusal, MarkSent, Accepted, NextOne,
                  GoesOn, boundVars
    <3> QED
      BY <1>1, <1>3, <2>1, <2>4, <3>1, OrderMessages
  <2> QED
    BY <1>7, <2>2, <2>3, <2>4 DEF WorkerStep
<1>8. ASSUME NEW u \in Sessions \ Workers,
             CenterStep(Step(u) \/ \E mode \in Modes : Begin(u, mode))
      PROVE  Orderly'
  <2>1. u = s
    BY <1>1
  <2> QED
    BY <1>6, <1>8, <2>1 DEF CenterStep
<1> QED
  BY <1>2, <1>4, <1>5, <1>7, <1>8 DEF NotifyNext

\* The state to begin with.
LEMMA InitOrderly == NotifyInit => Undisturbed
<1> SUFFICES ASSUME NotifyInit PROVE Orderly
  BY DEF Undisturbed
<1>1. /\ notifications = <<>> /\ run = [s \in Sessions |-> Blank]
      /\ shareOf \in [Rules -> SharesSeen] /\ priceOf \in [Rules -> PricesSeen]
      /\ rules \in [Rules -> {NewRule(f) : f \in FlagSets}]
  BY DEF NotifyInit, NotificationsInit
<1>2. ASSUME NEW r \in Rules PROVE rules[r].flags \in FlagSets /\ ~rules[r].latch
  <2>1. PICK f \in FlagSets : rules[r] = NewRule(f)
    BY <1>1
  <2> QED
    BY <2>1 DEF NewRule
<1>3. ASSUME NEW x PROVE Active(x) = {}
  BY <1>1 DEF Active
<1>4. Blank.step = "idle" /\ Blank.write = None
  BY DEF Blank
<1>5. Mirrored(Blank)
  BY <1>2, <1>3 DEF Mirrored, Called
<1>6. InHand(Blank) /\ LookedUp(Blank) /\ StillKnown(Blank)
  BY <1>4 DEF InHand, LookedUp, StillKnown, Phases, None
<1>7. \A r \in Rules : Triggered(rules[r].latch, r) /\ Triggered(Latch(Blank, r), r)
  BY <1>2, <1>4 DEF Triggered, Latch
<1>8. InOrder(Blank)
  BY <1>5, <1>6, <1>7 DEF InOrder
<1> QED
  BY <1>1, <1>2, <1>7, <1>8 DEF Orderly

\* Whatever the rules, their checks and the world: as long as syncs do not
\* overlap, none dies, and a single check of a rule can ever be met, a rule is
\* latched between syncs if it has an active notification, and only then.
THEOREM LatchesAreMirrored == InTurn /\ SingleChecks => (NotifySpec => []LatchIsMirrored)
<1> SUFFICES ASSUME InTurn, SingleChecks PROVE NotifySpec => []LatchIsMirrored
  OBVIOUS
<1>1. Undisturbed => LatchIsMirrored
  <2> SUFFICES ASSUME Orderly, Quiet, NEW r \in Rules PROVE rules[r].latch <=> Notified(r)
    BY DEF Undisturbed, LatchIsMirrored
  <2>1. PICK s \in Sessions : TRUE
    BY DEF InTurn
  <2>2. \A kind \in Kinds : Called(rules[r].latch, r, kind) <=> Active(AlertSource(r, kind)) # {}
    BY DEF Orderly, InOrder, Mirrored, Quiet, Phases
  <2>3. rules[r].latch => Triggers(rules[r].flags) # {}
    BY DEF Orderly, Triggered
  <2>4. Triggers(rules[r].flags) \subseteq Kinds
    <3> DEFINE checks == Checks([flags |-> rules[r].flags])
    <3>1. checks \in Seq(Kinds)
      BY ChecksFacts
    <3>2. \A i \in DOMAIN checks : checks[i] \in Kinds
      BY <3>1, ElementOfSeq, LenProperties
    <3> HIDE DEF checks
    <3> QED
      BY <3>2 DEF Triggers, ToSet, checks
  <2>5. ASSUME rules[r].latch PROVE Notified(r)
    <3>1. PICK kind \in Kinds : kind \in Triggers(rules[r].flags)
      BY <2>3, <2>4, <2>5
    <3> QED
      BY <2>2, <2>5, <3>1 DEF Called, Notified
  <2>6. ASSUME Notified(r) PROVE rules[r].latch
    BY <2>2, <2>6 DEF Called, Notified
  <2> QED
    BY <2>5, <2>6
<1>2. NotifySpec => []OneActivePerSource
  BY ActiveIsUnique
<1> QED
  BY <1>1, <1>2, InitOrderly, NextOrderly, DeliveryInv, PTL DEF NotifySpec
=============================================================================
