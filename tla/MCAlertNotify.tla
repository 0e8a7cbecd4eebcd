--------------------------- MODULE MCAlertNotify ----------------------------
(* Bounded instances of AlertNotify for TLC. *)
EXTENDS AlertNotify

CONSTANTS x, y

OneAlert == {{"price_target"}}
AnyOne == {{f} : f \in Flags}

NoAdvice  == <<>>
TwoAdvices == <<x, y>>
=============================================================================
