------------------------------ MODULE MCLizenz ------------------------------
(* Model values and small instances of Lizenz for TLC.                     *)
EXTENDS Lizenz

CONSTANTS v1, v2, v3

(* Everybody can pay for the largest license.                              *)
Funded == [v \in Validators |-> 3]

(* The second validator has no LZN.                                        *)
OneWithout == v1 :> 3 @@ v2 :> 0 @@ v3 :> 3

NoAnt == [v \in Validators |-> 1]

(* One report: activity worth 85.5 of the 100 points required.             *)
SmallReports == {[current |-> 855, required |-> 1000]}
=============================================================================
