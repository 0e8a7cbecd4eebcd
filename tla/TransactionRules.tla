-------------------------- MODULE TransactionRules --------------------------
(***************************************************************************)
(* The quantity rules of domain/transaction_engine.py, and the sums the     *)
(* snapshot builder takes over a transaction history.                       *)
(*                                                                          *)
(* A transaction is a record with at least the fields                       *)
(*     type      "BUY" | "SELL" | "DEPOSIT" | "WITHDRAWAL"                  *)
(*     asset, qty                                                           *)
(*     date      transaction_date, the moment the user declares             *)
(*     created   created_at, the start of the database transaction          *)
(*                                                                          *)
(* Quantities are whole units.  Prices, fees and average cost take no part  *)
(* in any decision made here, so they are left out.                         *)
(***************************************************************************)
EXTENDS Integers, FiniteSetsExt

TradeTypes    == {"BUY", "SELL"}
CashFlowTypes == {"DEPOSIT", "WITHDRAWAL"}
Types         == TradeTypes \cup CashFlowTypes

IsTrade(t)    == t.type \in TradeTypes
IsCashFlow(t) == t.type \in CashFlowTypes
TakesOut(t)   == t.type \in {"SELL", "WITHDRAWAL"}

\* What a transaction adds to the holding's quantity.
Signed(t) == IF TakesOut(t) THEN -t.qty ELSE t.qty

\* apply_sell and apply_withdrawal refuse more than is held; a position with
\* no holding row counts as 0.
Accepts_Unchecked(t, held) == TRUE
Accepts(t, held) == TakesOut(t) => t.qty <= held

\* The order every history is read in: (transaction_date, created_at).  The
\* final tiebreak on id never decides here, since created differs.
Before(t, u) == \/ t.date < u.date
                \/ t.date = u.date /\ t.created < u.created

\* Cumulative net external capital over the transactions in S.
InvestedCapital(S) == MapThenSumSet(Signed, {t \in S : IsCashFlow(t)})

\* The quantity of asset a that the transactions in S add up to.
Net(S, a) == MapThenSumSet(Signed, {t \in S : t.asset = a})

\* replay_cumulative_realized_pnl feeds the BUYs and SELLs of S, in Before
\* order, to apply_buy and apply_sell from empty positions; apply_sell raises
\* OversellError, which nothing on the way catches.  Cash flows are no part of
\* the replay.
ReplayOversells(S) ==
    \E sell \in {t \in S : t.type = "SELL"} :
        LET earlier == {t \in S : IsTrade(t) /\ t.asset = sell.asset /\ Before(t, sell)}
        IN  sell.qty > MapThenSumSet(Signed, earlier)
=============================================================================
