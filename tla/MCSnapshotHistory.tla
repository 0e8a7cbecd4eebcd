------------------------- MODULE MCSnapshotHistory --------------------------
(* Bounded instances of SnapshotHistory for TLC. *)
EXTENDS SnapshotHistory, TLC

CONSTANTS cash, stock

Post(type, asset, qty) == [type |-> type, asset |-> asset, qty |-> qty]

\* Cash flows and one trade, so that a period can have a gain of its own.
FlowsAndTrade == { Post("DEPOSIT", cash, 2), Post("WITHDRAWAL", cash, 1), Post("BUY", stock, 1) }

\* Nothing but external cash, which no return may come from.
FlowsOnly == { Post("DEPOSIT", cash, 2), Post("WITHDRAWAL", cash, 1) }

\* Sessions are alike, and so are runs of the worker; no temporal property is
\* checked here.
Alike == Permutations(Sessions) \cup Permutations(Workers)

\* The midnights of both days.
Midnights == {Midnight(d) : d \in 0 .. 1}
=============================================================================
