---------------------------- MODULE MCAuctionNode ----------------------------
(* Model values and small instances of AuctionNode for TLC.                *)
EXTENDS AuctionNode, TLC

CONSTANTS v1, v2, n1

RichEnough == [v \in Validators |-> 2]

Symmetry == Permutations(Validators)
=============================================================================
