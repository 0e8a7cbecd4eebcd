---------------------------- MODULE AtomicLedger ----------------------------
(***************************************************************************)
(* What POST /transactions promises, with the database left out: requests   *)
(* take effect one at a time, each against the balance the previous one     *)
(* left ("Transaction Atomicity" and "Transaction Concurrency" in           *)
(* FINANCIAL_RULES.md).  Module Ledger is shown to implement it.            *)
(***************************************************************************)
EXTENDS TransactionRules, Sequences

CONSTANTS
    Assets,      \* the assets of one portfolio
    CashAssets   \* those of type CASH or SAVINGS

VARIABLES
    quantity,    \* quantity[a]: units of a held, 0 where nothing was recorded
    history      \* the transactions recorded so far, in the order they took effect

atomicVars == <<quantity, history>>

AtomicInit ==
    /\ quantity = [a \in Assets |-> 0]
    /\ history = <<>>

\* t is recorded and its holding moved in one step.  t.after is the quantity
\* left, which the response reports.
Record(t) ==
    /\ t.asset \in Assets
    /\ t.type \in Types
    /\ t.qty \in Nat \ {0}
    /\ IsCashFlow(t) => t.asset \in CashAssets
    /\ Accepts(t, quantity[t.asset])
    /\ t.after = quantity[t.asset] + Signed(t)
    /\ quantity' = [quantity EXCEPT ![t.asset] = t.after]
    /\ history' = Append(history, t)

\* The transaction recorded is one of the new history: quantifying over those
\* spares a model checker the enumeration of all records.
AtomicNext == \E i \in DOMAIN history' : Record(history'[i])

AtomicSpec == AtomicInit /\ [][AtomicNext]_atomicVars
=============================================================================
