---------------------------- MODULE MCConsensus -----------------------------
(* Model values and small instances of Consensus for TLC.                  *)
EXTENDS Consensus, TLC

CONSTANTS v1, v2

(* The first validator can pay for any license, the second for none.       *)
SomeLzn == v1 :> 3 @@ v2 :> 0

SomeAnt == [v \in Validators |-> 0]

(* Compliance of 60 of 100: half of the reward.                            *)
SmallReports == {[current |-> 600, required |-> 1000]}

DefaultThresholds == [high |-> 100, warning |-> 90, medium |-> 70, low |-> 50]
=============================================================================
