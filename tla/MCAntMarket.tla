---------------------------- MODULE MCAntMarket -----------------------------
(* Model values and small instances of AntMarket for TLC.                  *)
EXTENDS AntMarket, TLC

CONSTANTS u1, u2

(* The second user has two orders, with the first one's between them.      *)
TwoOwners == 1 :> u2 @@ 2 :> u1 @@ 3 :> u2

(* A number below nothing, one above it, and none.                         *)
MixedAmounts == {-1, 2, NaN}
=============================================================================
