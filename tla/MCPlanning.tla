----------------------------- MODULE MCPlanning -----------------------------
(* A bounded instance of Planning for TLC: two stocks, cash, savings. *)
EXTENDS Planning

CONSTANTS s, t, k, e, none, a1, a2

\* An active rule that lets the bucket be bought.
Limit(target, minimum, maximum, priority) ==
    [target |-> target, minimum |-> minimum, maximum |-> maximum,
     allow |-> TRUE, priority |-> priority, active |-> TRUE]

Strategies == {
    <<Limit(65, Absent, Absent, 1), Limit(35, Absent, Absent, 1)>>,     \* adds up to 100
    <<Limit(33, 10, 45, 2), Limit(60, Absent, 55, 1)>> }                \* a maximum below a target

Beginnings1 ==
    {[worth |-> (s :> w) @@ (t :> 4) @@ (k :> c) @@ (e :> 3),
      home |-> (s :> 1) @@ (t :> 2) @@ (k :> Absent) @@ (e :> 3),
      config |-> [emergency |-> e, excluded |-> x],
      bucket |-> [b \in 1 .. 3 |-> [name |-> 4 - b, active |-> TRUE]],
      rule |-> rules] : w \in {0, 9}, c \in {0, 7}, x \in BOOLEAN, rules \in Strategies}

Symmetry == Permutations(Admins)

NewRules1 == {Limit(Absent, Absent, 10, 0)}
Requests1 == {[minimum |-> 60], [maximum |-> 30, target |-> 20], [allow |-> FALSE], [target |-> 65, priority |-> 3]}
=============================================================================
