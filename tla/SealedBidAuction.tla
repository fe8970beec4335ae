-------------------------- MODULE SealedBidAuction --------------------------
(***************************************************************************)
(* What the blind auction for one block promises its bidders, without      *)
(* hashes, nonces, phases or balances: a bidder seals one bid; the bidding *)
(* is closed before any bid is opened; a bid that is opened is the one     *)
(* that was sealed; the auction is awarded once, to a bidder who opened    *)
(* its bid, at that bid.  An awarded auction may be forgotten with         *)
(* everything in it.                                                       *)
(***************************************************************************)
CONSTANTS Bidders, Amounts, NoBid, Nobody

VARIABLES
  stage,   \* "bidding", "opening" or "awarded"
  sealed,  \* bidder -> the bid it is bound to, or NoBid
  opened,  \* bidder -> the bid it has shown, or NoBid
  award    \* who won, and at which price

vars == <<stage, sealed, opened, award>>

NoBids == [b \in Bidders |-> NoBid]

NoAward == [winner |-> Nobody, price |-> NoBid]

Init ==
  /\ stage = "bidding"
  /\ sealed = NoBids
  /\ opened = NoBids
  /\ award = NoAward

Seal(b, amount) ==
  /\ stage = "bidding"
  /\ sealed[b] = NoBid
  /\ sealed' = [sealed EXCEPT ![b] = amount]
  /\ UNCHANGED <<stage, opened, award>>

Close ==
  /\ stage = "bidding"
  /\ stage' = "opening"
  /\ UNCHANGED <<sealed, opened, award>>

Open(b) ==
  /\ stage = "opening"
  /\ sealed[b] # NoBid
  /\ opened[b] = NoBid
  /\ opened' = [opened EXCEPT ![b] = sealed[b]]
  /\ UNCHANGED <<stage, sealed, award>>

Award(b) ==
  /\ stage = "opening"
  /\ opened[b] # NoBid
  /\ stage' = "awarded"
  /\ award' = [winner |-> b, price |-> opened[b]]
  /\ UNCHANGED <<sealed, opened>>

Forget ==
  /\ stage = "awarded"
  /\ stage' = "bidding"
  /\ sealed' = NoBids
  /\ opened' = NoBids
  /\ award' = NoAward

Next ==
  \/ \E b \in Bidders, amount \in Amounts : Seal(b, amount)
  \/ Close
  \/ \E b \in Bidders : Open(b) \/ Award(b)
  \/ Forget

Spec == Init /\ [][Next]_vars
=============================================================================
