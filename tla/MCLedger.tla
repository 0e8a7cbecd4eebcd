------------------------------ MODULE MCLedger ------------------------------
(* Bounded instances of Ledger for TLC. *)
EXTENDS Ledger

CONSTANTS cash, savings, stock

Post(type, asset, qty) == [type |-> type, asset |-> asset, qty |-> qty]

\* One stock and one cash account, each moved both ways by amounts that can
\* and cannot be covered.
MixedRequests ==
    { Post("BUY", stock, 2), Post("SELL", stock, 2),
      Post("DEPOSIT", cash, 2), Post("WITHDRAWAL", cash, 1), Post("DEPOSIT", stock, 1) }

\* Two accounts and nothing but cash flows.
TwoAccounts ==
    { Post("DEPOSIT", cash, 2), Post("DEPOSIT", savings, 2), Post("WITHDRAWAL", savings, 1) }

OneDay  == {0}
=============================================================================
