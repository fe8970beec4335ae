---------------------------- MODULE MCStandalone ----------------------------
(* Standalone for TLC: two nodes of which the first holds more than two     *)
(* thirds of the power, so the second lags behind; four of equal power.     *)
(* The blocks hold a transaction that fails after its first message, one    *)
(* without messages, one that panics after its balances, on credit or with  *)
(* a sum that is too large, and a transfer.                                 *)
EXTENDS Standalone, FiniteSets, FiniteSetsExt, TLC

CONSTANTS n1, n2, n3, n4, a, b

Message(kind, from, to) ==
    [kind |-> kind, from |-> from, to |-> to, amount |-> 2]

Power == IF Nodes = {n1, n2} THEN n1 :> 30 @@ n2 :> 10 ELSE [n \in Nodes |-> 10]

PowerOf(Q) == MapThenSumSet(LAMBDA n : Power[n], Q)

TwoThirds == {Q \in SUBSET Nodes : 3 * PowerOf(Q) > 2 * PowerOf(Nodes)}

HalfDone == <<Message("send", a, b), Message("unknown", a, b)>>
Repeated == <<Message("repeated", b, a)>>
Transfer == <<Message("send", a, b)>>

SmallBlocks == {<<HalfDone, <<>>>>, <<Repeated, Transfer>>}
EmptyBlocks == {<<>>, <<<<>>>>}

Equals == Permutations(Nodes)
=============================================================================
