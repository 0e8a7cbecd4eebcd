------------------------------ MODULE MCMarket ------------------------------
(* A bounded instance of Market for TLC: a stock quoted in the portfolio's  *)
(* currency and a fund quoted in another, from Friday morning to Monday.    *)
EXTENDS Market, TLC

CONSTANTS stock, fund

QuotedIn1 == [a \in Assets |-> IF a = fund THEN "USD" ELSE "EGP"]

Setting(providers, auto, lock, threshold) ==
    [primary |-> providers > 0, secondary |-> providers > 1,
     auto |-> auto, lock |-> lock, threshold |-> threshold]

Lags1 == {1, -1}

Configs1 == {Setting(1, TRUE, FALSE, 1), Setting(0, FALSE, TRUE, 0)}

\* Either the fund is locked and the stock has two providers; or the fund has
\* no configuration, and the stock a provider that is not asked.
Beginnings1 == { [a \in {stock, fund} |-> IF a = fund THEN Setting(1, TRUE, TRUE, 1)
                                          ELSE Setting(2, TRUE, FALSE, 0)],
                 [a \in {stock} |-> Setting(1, FALSE, FALSE, 0)] }

\* Users are alike; no temporal property but action properties is checked.
Alike == Permutations(Users)
=============================================================================
