------------------------------ MODULE SumFacts ------------------------------
(***************************************************************************)
(* What the proofs need to know of a sum over a finite set.                 *)
(*                                                                          *)
(* MapThenSumSet is a recursive function on the subsets of a set, so that   *)
(* what it adds up to is a matter of induction.  The induction is done once *)
(* and for all, on a sum given by a function v: the sum of v over s is the  *)
(* number of units that the positive values of v consist of, less that of   *)
(* the negative ones, and of a set of units everything is known from        *)
(* FiniteSetTheorems.  A module that sums with an operator shows that its   *)
(* recursive function AddsUp, and takes the rest from SumUnique.            *)
(***************************************************************************)
EXTENDS FiniteSetsExt, FiniteSetTheorems, TLAPS

-----------------------------------------------------------------------------
(* Induction, without an operator as a parameter. *)

\* A set of numbers has a first one.
LEMMA LeastNumber ==
    ASSUME NEW T, T \subseteq Nat, T # {}
    PROVE  \E x \in T : \A y \in T : x <= y
<1> DEFINE R == {ss \in Nat \X Nat : ss[1] < ss[2]}
<1>1. IsWellFoundedOn(R, Nat)
  BY NatLessThanWellFounded DEF OpToRel
<1> HIDE DEF R
<1>2. PICK x \in T : \A y \in T : <<y, x>> \notin R
  BY <1>1, WFMin
<1>3. ASSUME NEW y \in T PROVE x <= y
  <2>1. x \in Nat /\ y \in Nat /\ ~(y < x)
    BY <1>2 DEF R
  <2> QED
    BY <2>1
<1> QED
  BY <1>3

\* Induction on a finite set, without an operator: among its subsets in C
\* there is one none of whose proper subsets is in C.
LEMMA LeastSubset ==
    ASSUME NEW S, IsFiniteSet(S), NEW C, C \subseteq SUBSET S, C # {}
    PROVE  \E T \in C : \A U \in C : U \subseteq T => U = T
<1> DEFINE sizes == {n \in Nat : \E T \in C : Cardinality(T) = n}
<1>1. \A T \in SUBSET S : IsFiniteSet(T) /\ Cardinality(T) \in Nat
  BY FS_Subset, FS_CardinalityType
<1>2. sizes # {} /\ sizes \subseteq Nat
  BY <1>1
<1> HIDE DEF sizes
<1>3. PICK n \in sizes : \A m \in sizes : n <= m
  BY <1>2, LeastNumber
<1>4. PICK T \in C : Cardinality(T) = n
  BY <1>3 DEF sizes
<1>5. ASSUME NEW U \in C, U \subseteq T PROVE U = T
  <2>1. IsFiniteSet(T) /\ Cardinality(U) <= Cardinality(T)
    BY <1>1, <1>5, FS_Subset
  <2>2. Cardinality(U) \in sizes
    BY <1>1 DEF sizes
  <2>3. Cardinality(U) = Cardinality(T)
    BY <1>1, <1>3, <1>4, <2>1, <2>2
  <2> QED
    BY <1>5, <2>1, <2>3, FS_Subset
<1> QED
  BY <1>4, <1>5

-----------------------------------------------------------------------------
(* Sums as numbers of units. *)

\* v[x] units for every x of s whose v[x] is positive.
Units(v, s) == UNION {{x} \X (1 .. v[x]) : x \in s}

\* The sum of the v[x] for x in s.
Amount(v, s) == Cardinality(Units(v, s)) - Cardinality(Units([x \in DOMAIN v |-> -v[x]], s))

\* Finitely many elements have finitely many units.
LEMMA UnitsFinite ==
    ASSUME NEW s, IsFiniteSet(s), NEW v, \A x \in s : v[x] \in Int
    PROVE  IsFiniteSet(Units(v, s)) /\ Cardinality(Units(v, s)) \in Nat
<1> DEFINE blocks == {{x} \X (1 .. v[x]) : x \in s}
           f == [x \in s |-> {x} \X (1 .. v[x])]
<1>1. f \in Surjection(s, blocks)
  BY DEF Surjection
<1>2. IsFiniteSet(blocks)
  <2> HIDE DEF f, blocks
  <2> QED
    BY <1>1, FS_Surjection
<1>3. ASSUME NEW b \in blocks PROVE IsFiniteSet(b)
  <2>1. PICK x \in s : b = {x} \X (1 .. v[x])
    OBVIOUS
  <2>2. 1 \in Int /\ v[x] \in Int
    OBVIOUS
  <2>3. IsFiniteSet({x}) /\ IsFiniteSet(1 .. v[x])
    BY <2>2, FS_Singleton, FS_Interval
  <2> QED
    BY <2>1, <2>3, FS_Product
<1>4. IsFiniteSet(UNION blocks)
  <2> HIDE DEF blocks
  <2> QED
    BY <1>2, <1>3, FS_UNION
<1> QED
  BY <1>4, FS_CardinalityType DEF Units

\* One more element adds its own units.
LEMMA UnitsAdd ==
    ASSUME NEW s, IsFiniteSet(s), NEW t, t \notin s, NEW v, \A x \in s \cup {t} : v[x] \in Int
    PROVE  Cardinality(Units(v, s \cup {t}))
              = Cardinality(Units(v, s)) + (IF v[t] > 0 THEN v[t] ELSE 0)
<1> DEFINE new == {t} \X (1 .. v[t])
<1>1. Units(v, s \cup {t}) = Units(v, s) \cup new
  BY DEF Units
<1>2. Units(v, s) \cap new = {}
  BY DEF Units
<1>3. IsFiniteSet({t}) /\ Cardinality({t}) = 1
  BY FS_Singleton
<1>4. IsFiniteSet(1 .. v[t]) /\ Cardinality(1 .. v[t]) = IF v[t] > 0 THEN v[t] ELSE 0
  BY FS_Interval
<1>5. IsFiniteSet(new) /\ Cardinality(new) = IF v[t] > 0 THEN v[t] ELSE 0
  <2>1. IsFiniteSet(new) /\ Cardinality(new) = Cardinality({t}) * Cardinality(1 .. v[t])
    BY <1>3, <1>4, FS_Product
  <2> QED
    BY <1>3, <1>4, <2>1
<1>6. IsFiniteSet(Units(v, s)) /\ Cardinality(Units(v, s)) \in Nat
  BY UnitsFinite
<1> HIDE DEF new
<1>7. Cardinality(Units(v, s) \cup new) = Cardinality(Units(v, s)) + Cardinality(new) - Cardinality({})
  BY <1>2, <1>5, <1>6, FS_Union
<1>8. Cardinality({}) = 0 /\ v[t] \in Int
  BY FS_EmptySet
<1>9. Cardinality(Units(v, s) \cup new) = Cardinality(Units(v, s)) + (IF v[t] > 0 THEN v[t] ELSE 0)
  BY <1>5, <1>6, <1>7, <1>8
<1> QED
  BY <1>1, <1>9

\* The empty sum.
LEMMA AmountEmpty == ASSUME NEW v PROVE Amount(v, {}) = 0
<1>1. \A w : Units(w, {}) = {}
  BY DEF Units
<1>2. Cardinality({}) = 0
  BY FS_EmptySet
<1> QED
  BY <1>1, <1>2 DEF Amount

\* One more element adds its own value.
LEMMA AmountAdd ==
    ASSUME NEW s, IsFiniteSet(s), NEW t, t \notin s, NEW v, s \cup {t} \subseteq DOMAIN v,
           \A x \in s \cup {t} : v[x] \in Int
    PROVE  Amount(v, s) \in Int /\ Amount(v, s \cup {t}) = Amount(v, s) + v[t]
<1> DEFINE w == [x \in DOMAIN v |-> -v[x]]
<1>1. \A x \in s \cup {t} : w[x] \in Int /\ w[x] = -v[x]
  OBVIOUS
<1>2. Amount(v, s) = Cardinality(Units(v, s)) - Cardinality(Units(w, s))
      /\ Amount(v, s \cup {t}) = Cardinality(Units(v, s \cup {t})) - Cardinality(Units(w, s \cup {t}))
  BY DEF Amount
<1> HIDE DEF w
<1>3. Cardinality(Units(v, s \cup {t})) = Cardinality(Units(v, s)) + (IF v[t] > 0 THEN v[t] ELSE 0)
  BY UnitsAdd
<1>4. Cardinality(Units(w, s \cup {t})) = Cardinality(Units(w, s)) + (IF w[t] > 0 THEN w[t] ELSE 0)
  BY <1>1, UnitsAdd
<1>5. Cardinality(Units(v, s)) \in Nat /\ Cardinality(Units(w, s)) \in Nat
  BY <1>1, UnitsFinite
<1>6. v[t] \in Int /\ w[t] = -v[t]
  BY <1>1
<1> QED
  BY <1>2, <1>3, <1>4, <1>5, <1>6

-----------------------------------------------------------------------------
(* Sums as recursive functions. *)

\* What a recursive function adds up over the subsets of S, in the order
\* CHOOSE takes the elements.
AddsUp(g, v, S) ==
    g = [s \in SUBSET S |->
           IF s = {} THEN 0 ELSE v[CHOOSE x \in s : TRUE] + g[s \ {CHOOSE x \in s : TRUE}]]

\* There is a function that adds up: the totals do.
LEMMA SumExists ==
    ASSUME NEW S, IsFiniteSet(S), NEW v \in [S -> Int]
    PROVE  AddsUp([s \in SUBSET S |-> Amount(v, s)], v, S)
<1> DEFINE g == [s \in SUBSET S |-> Amount(v, s)]
<1>1. ASSUME NEW s \in SUBSET S, s # {}
      PROVE  LET x == CHOOSE x \in s : TRUE IN g[s] = v[x] + g[s \ {x}]
  <2> DEFINE x == CHOOSE x \in s : TRUE
             r == s \ {x}
  <2>1. x \in s
    BY <1>1
  <2> HIDE DEF x
  <2>2. IsFiniteSet(r) /\ x \notin r /\ r \cup {x} = s /\ r \in SUBSET S
    BY <2>1, FS_Subset
  <2>3. Amount(v, r) \in Int /\ Amount(v, s) = Amount(v, r) + v[x]
    <3>1. r \cup {x} \subseteq DOMAIN v /\ \A y \in r \cup {x} : v[y] \in Int
      BY <2>2
    <3> HIDE DEF r
    <3> QED
      BY <2>2, <3>1, AmountAdd
  <2>4. v[x] \in Int
    BY <2>1
  <2>5. g[s] = v[x] + g[s \ {x}]
    BY <2>2, <2>3, <2>4
  <2> QED
    BY <2>5 DEF x
<1>2. g[{}] = 0
  BY AmountEmpty
<1> QED
  BY <1>1, <1>2 DEF AddsUp

\* Every function that adds up gives the totals: a smallest set on which one
\* did not could lose an element.
LEMMA SumUnique ==
    ASSUME NEW S, IsFiniteSet(S), NEW v \in [S -> Int], NEW g, AddsUp(g, v, S)
    PROVE  g[S] = Amount(v, S)
<1> DEFINE h == [s \in SUBSET S |-> Amount(v, s)]
           C == {s \in SUBSET S : g[s] # h[s]}
<1>1. AddsUp(h, v, S)
  BY SumExists
<1> HIDE DEF h
<1>2. SUFFICES ASSUME C # {} PROVE FALSE
  BY DEF h
<1>3. PICK s \in C : \A U \in C : U \subseteq s => U = s
  <2>1. C \subseteq SUBSET S
    OBVIOUS
  <2> HIDE DEF C
  <2> QED
    BY <1>2, <2>1, LeastSubset
<1> DEFINE x == CHOOSE x \in s : TRUE
<1>4. s # {}
  BY <1>1 DEF AddsUp
<1>5. x \in s
  BY <1>4
<1>6. g[s] = v[x] + g[s \ {x}] /\ h[s] = v[x] + h[s \ {x}]
  BY <1>1, <1>4 DEF AddsUp
<1> HIDE DEF x
<1>7. g[s \ {x}] = h[s \ {x}]
  BY <1>3, <1>5
<1> QED
  BY <1>6, <1>7

-----------------------------------------------------------------------------
(* Sums that are compared. *)

\* Only the values that are added up matter.
LEMMA AmountSame ==
    ASSUME NEW s, NEW v, NEW w, s \subseteq DOMAIN v, s \subseteq DOMAIN w,
           \A x \in s : v[x] = w[x]
    PROVE  Amount(v, s) = Amount(w, s)
<1> DEFINE mv == [x \in DOMAIN v |-> -v[x]]
           mw == [x \in DOMAIN w |-> -w[x]]
<1>1. \A x \in s : mv[x] = mw[x]
  OBVIOUS
<1> HIDE DEF mv, mw
<1>2. Units(v, s) = Units(w, s) /\ Units(mv, s) = Units(mw, s)
  BY <1>1 DEF Units
<1>3. Amount(v, s) = Cardinality(Units(v, s)) - Cardinality(Units(mv, s))
  BY DEF Amount, mv
<1>4. Amount(w, s) = Cardinality(Units(w, s)) - Cardinality(Units(mw, s))
  BY DEF Amount, mw
<1> QED
  BY <1>2, <1>3, <1>4

\* A sum in which one value changes.
LEMMA AmountChange ==
    ASSUME NEW s, IsFiniteSet(s), NEW v \in [s -> Int], NEW w \in [s -> Int], NEW t \in s,
           \A x \in s : x # t => v[x] = w[x]
    PROVE  Amount(v, s) \in Int /\ Amount(w, s) = Amount(v, s) + (w[t] - v[t])
<1> DEFINE r == s \ {t}
<1>1. IsFiniteSet(r) /\ t \notin r /\ r \cup {t} = s
  BY FS_Subset
<1> HIDE DEF r
<1>2. Amount(v, r) \in Int /\ Amount(v, s) = Amount(v, r) + v[t]
  BY <1>1, AmountAdd
<1>3. Amount(w, r) \in Int /\ Amount(w, s) = Amount(w, r) + w[t]
  BY <1>1, AmountAdd
<1>4. Amount(v, r) = Amount(w, r)
  BY <1>1, AmountSame
<1> QED
  BY <1>2, <1>3, <1>4

\* A sum of numbers is a number.
LEMMA AmountInt ==
    ASSUME NEW s, IsFiniteSet(s), NEW v, s \subseteq DOMAIN v, \A x \in s : v[x] \in Int
    PROVE  Amount(v, s) \in Int
<1> DEFINE w == [x \in DOMAIN v |-> -v[x]]
<1>1. Amount(v, s) = Cardinality(Units(v, s)) - Cardinality(Units(w, s)) /\ \A x \in s : w[x] \in Int
  BY DEF Amount
<1> HIDE DEF w
<1> QED
  BY <1>1, UnitsFinite

\* A sum of natural numbers is the number of their units.
LEMMA AmountNat ==
    ASSUME NEW s, IsFiniteSet(s), NEW v, s \subseteq DOMAIN v, \A x \in s : v[x] \in Nat
    PROVE  /\ IsFiniteSet(Units(v, s)) /\ Amount(v, s) \in Nat
           /\ Amount(v, s) = Cardinality(Units(v, s))
<1> DEFINE w == [x \in DOMAIN v |-> -v[x]]
<1>1. \A x \in s : 1 .. w[x] = {}
  OBVIOUS
<1>2. Amount(v, s) = Cardinality(Units(v, s)) - Cardinality(Units(w, s))
  BY DEF Amount
<1> HIDE DEF w
<1>3. Units(w, s) = {}
  BY <1>1 DEF Units
<1>4. Cardinality(Units(w, s)) = 0
  BY <1>3, FS_EmptySet
<1>5. IsFiniteSet(Units(v, s)) /\ Cardinality(Units(v, s)) \in Nat
  BY UnitsFinite
<1> QED
  BY <1>2, <1>4, <1>5

\* Part of a sum of natural numbers is not more than the whole.
LEMMA AmountPart ==
    ASSUME NEW s, IsFiniteSet(s), NEW r, r \subseteq s, NEW v, s \subseteq DOMAIN v,
           \A x \in s : v[x] \in Nat
    PROVE  Amount(v, r) <= Amount(v, s)
<1>1. IsFiniteSet(r)
  BY FS_Subset
<1>2. /\ IsFiniteSet(Units(v, s)) /\ Amount(v, s) = Cardinality(Units(v, s))
      /\ Amount(v, r) = Cardinality(Units(v, r))
  BY <1>1, AmountNat
<1>3. Units(v, r) \subseteq Units(v, s)
  BY DEF Units
<1> QED
  BY <1>2, <1>3, FS_Subset

\* Two parts that have nothing in common have no unit in common.
LEMMA UnitsParts ==
    ASSUME NEW s, IsFiniteSet(s), NEW r, IsFiniteSet(r), s \cap r = {},
           NEW v, \A x \in s \cup r : v[x] \in Int
    PROVE  Cardinality(Units(v, s \cup r)) = Cardinality(Units(v, s)) + Cardinality(Units(v, r))
<1> DEFINE us == Units(v, s)
           ur == Units(v, r)
<1>1. Units(v, s \cup r) = us \cup ur
  BY DEF Units
<1>2. us \cap ur = {}
  BY DEF Units
<1>3. IsFiniteSet(us) /\ IsFiniteSet(ur) /\ Cardinality(us) \in Nat /\ Cardinality(ur) \in Nat
  BY UnitsFinite
<1> HIDE DEF us, ur
<1>4. Cardinality(us \cup ur) = Cardinality(us) + Cardinality(ur) - Cardinality({})
  BY <1>2, <1>3, FS_Union
<1>5. Cardinality({}) = 0
  BY FS_EmptySet
<1>6. Cardinality(us \cup ur) = Cardinality(us) + Cardinality(ur)
  BY <1>3, <1>4, <1>5
<1> QED
  BY <1>1, <1>6 DEF us, ur

\* Two parts that have nothing in common.
LEMMA AmountParts ==
    ASSUME NEW s, IsFiniteSet(s), NEW r, IsFiniteSet(r), s \cap r = {},
           NEW v, s \cup r \subseteq DOMAIN v, \A x \in s \cup r : v[x] \in Int
    PROVE  /\ Amount(v, s) \in Int /\ Amount(v, r) \in Int
           /\ Amount(v, s \cup r) = Amount(v, s) + Amount(v, r)
<1> DEFINE w == [x \in DOMAIN v |-> -v[x]]
<1>1. \A x \in s \cup r : w[x] \in Int
  OBVIOUS
<1>2. \A t : Amount(v, t) = Cardinality(Units(v, t)) - Cardinality(Units(w, t))
  BY DEF Amount
<1> HIDE DEF w
<1>3. Cardinality(Units(v, s \cup r)) = Cardinality(Units(v, s)) + Cardinality(Units(v, r))
  BY UnitsParts
<1>4. Cardinality(Units(w, s \cup r)) = Cardinality(Units(w, s)) + Cardinality(Units(w, r))
  BY <1>1, UnitsParts
<1>5. /\ Cardinality(Units(v, s)) \in Nat /\ Cardinality(Units(v, r)) \in Nat
      /\ Cardinality(Units(w, s)) \in Nat /\ Cardinality(Units(w, r)) \in Nat
  BY <1>1, UnitsFinite
<1> QED
  BY <1>2, <1>3, <1>4, <1>5

\* Finitely many things of which each has a number: one has the highest.
LEMMA Highest ==
    ASSUME NEW S, IsFiniteSet(S), S # {}, NEW f, \A x \in S : f[x] \in Int
    PROVE  \E x \in S : \A y \in S : f[y] <= f[x]
<1> DEFINE C == {T \in SUBSET S : T # {} /\ ~\E x \in T : \A y \in T : f[y] <= f[x]}
<1> SUFFICES ASSUME C # {} PROVE FALSE
  <2>1. S \notin C => \E x \in S : \A y \in S : f[y] <= f[x]
    OBVIOUS
  <2> QED
    BY <2>1
<1>1. PICK T \in C : \A U \in C : U \subseteq T => U = T
  <2>1. C \subseteq SUBSET S
    OBVIOUS
  <2> HIDE DEF C
  <2> QED
    BY <2>1, LeastSubset
<1>2. T \in SUBSET S /\ T # {} /\ ~\E x \in T : \A y \in T : f[y] <= f[x]
  OBVIOUS
<1>3. PICK z \in T : TRUE
  BY <1>2
<1>4. T \ {z} # {}
  BY <1>2, <1>3
<1>5. T \ {z} \notin C
  BY <1>1, <1>3
<1>6. PICK x \in T \ {z} : \A y \in T \ {z} : f[y] <= f[x]
  BY <1>2, <1>4, <1>5
<1>7. f[x] \in Int /\ f[z] \in Int /\ \A y \in T : f[y] \in Int
  BY <1>2, <1>3, <1>6
<1>8. CASE f[z] <= f[x]
  <2>1. \A y \in T : f[y] <= f[x]
    BY <1>6, <1>8
  <2> QED
    BY <1>2, <1>6, <2>1
<1>9. CASE f[x] <= f[z]
  <2>1. \A y \in T : f[y] <= f[z]
    BY <1>6, <1>7, <1>9
  <2> QED
    BY <1>2, <1>3, <2>1
<1> QED
  BY <1>7, <1>8, <1>9

\* Values that are all 0 add up to 0.
LEMMA AmountZero ==
    ASSUME NEW s, IsFiniteSet(s), NEW v, s \subseteq DOMAIN v, \A x \in s : v[x] = 0
    PROVE  Amount(v, s) = 0
<1>1. \A x \in s : 1 .. v[x] = {}
  OBVIOUS
<1>2. Units(v, s) = {}
  BY <1>1 DEF Units
<1>3. Amount(v, s) = Cardinality(Units(v, s))
  BY AmountNat
<1> QED
  BY <1>2, <1>3, FS_EmptySet

\* Two sums can be added element by element.
LEMMA AmountPlus ==
    ASSUME NEW S, IsFiniteSet(S), NEW f \in [S -> Int], NEW g \in [S -> Int],
           NEW h, S \subseteq DOMAIN h, \A x \in S : h[x] = f[x] + g[x]
    PROVE  /\ Amount(f, S) \in Int /\ Amount(g, S) \in Int
           /\ Amount(h, S) = Amount(f, S) + Amount(g, S)
<1> DEFINE Good(s) == /\ Amount(f, s) \in Int /\ Amount(g, s) \in Int
                      /\ Amount(h, s) = Amount(f, s) + Amount(g, s)
           bad == {s \in SUBSET S : ~Good(s)}
<1>1. \A x \in S : h[x] \in Int /\ f[x] \in Int /\ g[x] \in Int
  OBVIOUS
<1>2. Good({})
  <2>1. Amount(f, {}) = 0 /\ Amount(g, {}) = 0 /\ Amount(h, {}) = 0
    BY AmountEmpty
  <2> QED
    BY <2>1
<1> SUFFICES ASSUME bad # {} PROVE FALSE
  <2>1. Good(S)
    OBVIOUS
  <2> QED
    BY <2>1
<1>3. PICK s \in bad : \A u \in bad : u \subseteq s => u = s
  <2>1. bad \subseteq SUBSET S
    OBVIOUS
  <2> HIDE DEF bad
  <2> QED
    BY <2>1, LeastSubset
<1>4. s \in SUBSET S /\ ~Good(s) /\ s # {}
  BY <1>2
<1>5. PICK t \in s : TRUE
  BY <1>4
<1> DEFINE r == s \ {t}
<1>6. IsFiniteSet(r) /\ t \notin r /\ r \cup {t} = s /\ r \in SUBSET S
  BY <1>4, <1>5, FS_Subset
<1>7. Good(r)
  BY <1>3, <1>5, <1>6
<1> HIDE DEF r, bad
<1>8. /\ Amount(f, s) = Amount(f, r) + f[t]
      /\ Amount(g, s) = Amount(g, r) + g[t]
      /\ Amount(h, s) = Amount(h, r) + h[t]
  <2>1. r \cup {t} \subseteq S
    BY <1>4, <1>6
  <2> QED
    BY <1>1, <1>6, <2>1, AmountAdd
<1>9. f[t] \in Int /\ g[t] \in Int /\ h[t] = f[t] + g[t]
  BY <1>1, <1>4, <1>5
<1>10. Good(s)
  BY <1>7, <1>8, <1>9
<1> QED
  BY <1>4, <1>10

\* A sum can be multiplied element by element.
LEMMA AmountTimes ==
    ASSUME NEW S, IsFiniteSet(S), NEW f \in [S -> Int], NEW p \in Int,
           NEW h, S \subseteq DOMAIN h, \A x \in S : h[x] = p * f[x]
    PROVE  Amount(f, S) \in Int /\ Amount(h, S) = p * Amount(f, S)
<1> DEFINE Good(s) == Amount(f, s) \in Int /\ Amount(h, s) = p * Amount(f, s)
           bad == {s \in SUBSET S : ~Good(s)}
<1>1. \A x \in S : h[x] \in Int /\ f[x] \in Int
  OBVIOUS
<1>2. Good({})
  <2>1. Amount(f, {}) = 0 /\ Amount(h, {}) = 0
    BY AmountEmpty
  <2> QED
    BY <2>1
<1> SUFFICES ASSUME bad # {} PROVE FALSE
  <2>1. Good(S)
    OBVIOUS
  <2> QED
    BY <2>1
<1>3. PICK s \in bad : \A u \in bad : u \subseteq s => u = s
  <2>1. bad \subseteq SUBSET S
    OBVIOUS
  <2> HIDE DEF bad
  <2> QED
    BY <2>1, LeastSubset
<1>4. s \in SUBSET S /\ ~Good(s) /\ s # {}
  BY <1>2
<1>5. PICK t \in s : TRUE
  BY <1>4
<1> DEFINE r == s \ {t}
<1>6. IsFiniteSet(r) /\ t \notin r /\ r \cup {t} = s /\ r \in SUBSET S
  BY <1>4, <1>5, FS_Subset
<1>7. Good(r)
  BY <1>3, <1>5, <1>6
<1> HIDE DEF r, bad
<1>8. Amount(f, s) = Amount(f, r) + f[t] /\ Amount(h, s) = Amount(h, r) + h[t]
  <2>1. r \cup {t} \subseteq S
    BY <1>4, <1>6
  <2> QED
    BY <1>1, <1>6, <2>1, AmountAdd
<1> DEFINE ft == f[t]
           fr == Amount(f, r)
<1>9. ft \in Int /\ fr \in Int /\ h[t] = p * ft /\ Amount(h, r) = p * fr
  BY <1>1, <1>4, <1>5, <1>7
<1>10. Amount(f, s) = fr + ft /\ Amount(h, s) = p * fr + p * ft
  BY <1>8, <1>9
<1> HIDE DEF ft, fr
<1>11. p * (fr + ft) = p * fr + p * ft
  BY <1>9
<1>12. Good(s)
  BY <1>9, <1>10, <1>11
<1> QED
  BY <1>4, <1>12

\* A sum taken group by group: what falls into the groups of r adds up to what
\* the groups add up to.
LEMMA AmountGrouped ==
    ASSUME NEW s, IsFiniteSet(s), NEW v \in [s -> Int], NEW key,
           NEW R, IsFiniteSet(R), NEW u,
           R \subseteq DOMAIN u, \A b \in R : u[b] = Amount(v, {x \in s : key[x] = b})
    PROVE  /\ \A b \in R : u[b] \in Int
           /\ Amount(u, R) = Amount(v, {x \in s : key[x] \in R})
<1> DEFINE In(r) == {x \in s : key[x] \in r}
           Of(b) == {x \in s : key[x] = b}
           bad == {r \in SUBSET R : Amount(u, r) # Amount(v, In(r))}
<1>1. \A b \in R : u[b] \in Int
  <2>1. ASSUME NEW b \in R PROVE u[b] \in Int
    <3>1. IsFiniteSet(Of(b)) /\ Of(b) \subseteq DOMAIN v /\ \A x \in Of(b) : v[x] \in Int
      BY FS_Subset
    <3>2. Amount(v, Of(b)) \in Int
      <4> HIDE DEF Of
      <4> QED
        BY <3>1, AmountInt
    <3> QED
      BY <3>2
  <2> QED
    BY <2>1
<1> SUFFICES ASSUME bad # {} PROVE FALSE
  BY <1>1
<1>2. PICK r \in bad : \A w \in bad : w \subseteq r => w = r
  <2>1. bad \subseteq SUBSET R
    OBVIOUS
  <2> HIDE DEF bad
  <2> QED
    BY <2>1, LeastSubset
<1>3. r # {}
  <2>1. Amount(u, {}) = 0 /\ Amount(v, {}) = 0
    BY AmountEmpty
  <2>2. In({}) = {}
    OBVIOUS
  <2>3. {} \notin bad
    BY <2>1, <2>2
  <2> QED
    BY <2>3
<1>4. PICK t \in r : TRUE
  BY <1>3
<1> DEFINE q == r \ {t}
<1>5. IsFiniteSet(q) /\ t \notin q /\ q \cup {t} = r /\ q \in SUBSET R /\ t \in R
  BY <1>2, <1>4, FS_Subset
<1>6. Amount(u, q) = Amount(v, In(q))
  BY <1>2, <1>4, <1>5
<1>7. Amount(u, q) \in Int /\ Amount(u, r) = Amount(u, q) + u[t]
  <2>1. q \cup {t} \subseteq DOMAIN u /\ \A x \in q \cup {t} : u[x] \in Int
    BY <1>1, <1>5
  <2> HIDE DEF q
  <2> QED
    BY <1>5, <2>1, AmountAdd
<1>8. In(r) = In(q) \cup Of(t) /\ In(q) \cap Of(t) = {}
  BY <1>5
<1>9. IsFiniteSet(In(q)) /\ IsFiniteSet(Of(t)) /\ In(q) \subseteq s /\ Of(t) \subseteq s
  BY FS_Subset
<1>10. u[t] = Amount(v, Of(t))
  BY <1>5
<1>11. Amount(v, In(r)) = Amount(v, In(q)) + Amount(v, Of(t))
  <2> DEFINE iq == In(q)
             ot == Of(t)
  <2>1. /\ IsFiniteSet(iq) /\ IsFiniteSet(ot) /\ iq \cap ot = {}
        /\ iq \cup ot \subseteq DOMAIN v /\ \A x \in iq \cup ot : v[x] \in Int
    BY <1>8, <1>9
  <2> HIDE DEF iq, ot
  <2>2. Amount(v, iq \cup ot) = Amount(v, iq) + Amount(v, ot)
    BY <2>1, AmountParts
  <2> QED
    BY <1>8, <2>2 DEF iq, ot
<1> HIDE DEF In, Of, q
<1>12. Amount(u, r) = Amount(v, In(r))
  BY <1>6, <1>7, <1>10, <1>11
<1> QED
  BY <1>2, <1>12

\* What is 0 can be left out of a sum.
LEMMA AmountRest ==
    ASSUME NEW S, IsFiniteSet(S), NEW s, s \subseteq S, NEW v, S \subseteq DOMAIN v,
           \A x \in S : v[x] \in Int, \A x \in S \ s : v[x] = 0
    PROVE  Amount(v, S) = Amount(v, s)
<1> DEFINE r == S \ s
<1>1. IsFiniteSet(s) /\ IsFiniteSet(r) /\ s \cap r = {} /\ s \cup r = S
  BY FS_Subset
<1>2. \A x \in r : v[x] = 0
  OBVIOUS
<1> HIDE DEF r
<1>3. Amount(v, S) = Amount(v, s) + Amount(v, r) /\ Amount(v, s) \in Int
  BY <1>1, AmountParts
<1>4. Amount(v, r) = 0
  BY <1>1, <1>2, AmountZero
<1> QED
  BY <1>3, <1>4

\* Larger values do not add up to less.
LEMMA AmountLess ==
    ASSUME NEW S, IsFiniteSet(S), NEW f \in [S -> Int], NEW g \in [S -> Int],
           \A x \in S : f[x] <= g[x]
    PROVE  Amount(f, S) \in Int /\ Amount(g, S) \in Int /\ Amount(f, S) <= Amount(g, S)
<1> DEFINE h == [x \in S |-> g[x] - f[x]]
<1>1. /\ Amount(f, S) \in Int /\ Amount(h, S) \in Int
      /\ Amount(g, S) = Amount(f, S) + Amount(h, S)
  <2>1. h \in [S -> Int] /\ S \subseteq DOMAIN g /\ \A x \in S : g[x] = f[x] + h[x]
    OBVIOUS
  <2> HIDE DEF h
  <2> QED
    BY <2>1, AmountPlus
<1>2. S \subseteq DOMAIN h /\ \A x \in S : h[x] \in Nat
  OBVIOUS
<1> HIDE DEF h
<1>3. Amount(h, S) \in Nat
  BY <1>2, AmountNat
<1> QED
  BY <1>1, <1>3
=============================================================================
