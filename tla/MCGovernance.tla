---------------------------- MODULE MCGovernance ----------------------------
(* Model values and small instances of Governance for TLC.                 *)
EXTENDS Governance, TLC

CONSTANTS a1, a2

Change(key, value) == [key |-> key, value |-> value]

(* A shorter timelock; a quorum nobody holds; a list whose last entry      *)
(* cannot be applied; a number of 33 bits; one against the constitution.   *)
SmallChangeLists ==
  { << Change("timelock_period", 1) >>,
    << Change("quorum", 100), Change("max_open_orders", 2) >>,
    << Change("max_open_orders", 2), Change("timelock_period", 0) >>,
    << Change("max_open_orders", MaxUint32 + 1) >>,
    << Change("wrt_total_supply", 1) >> }

SmallParams ==
  [key \in Keys |->
     CASE key = "voting_period"   -> 3
       [] key = "timelock_period" -> 2
       [] key = "min_deposit"     -> 1
       [] key = "quorum"          -> 40
       [] key = "threshold"       -> 50
       [] OTHER                   -> 1]

(* One holder of the quorum and one below it; transfers make others.       *)
SmallBalances == [a \in Accounts |-> IF a = a1 THEN 3 ELSE 1]
=============================================================================
