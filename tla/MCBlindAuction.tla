--------------------------- MODULE MCBlindAuction ---------------------------
(* Model values and small instances of BlindAuction for TLC.               *)
EXTENDS BlindAuctionRefinement, TLC

CONSTANTS v1, v2, n1

(* Each validator can afford either bid, but not one bid in each of two    *)
(* auctions.                                                               *)
RichEnough == [v \in Validators |-> 2]

Symmetry == Permutations(Validators)
=============================================================================
