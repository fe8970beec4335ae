----------------------- MODULE BlindAuctionRefinement -----------------------
(***************************************************************************)
(* The keeper's auction of each height implements SealedBidAuction: the    *)
(* bid a validator is sealed to is the one inside its commitment, and the  *)
(* bid it has opened is the one of its lottery ticket.  An auction that    *)
(* does not exist is one nobody has bid in yet, since CommitBid creates    *)
(* it; the cleanup of a completed auction is Forget.                       *)
(***************************************************************************)
EXTENDS BlindAuction

CONSTANT NoBid

ASSUME NoBidConstant == NoBid \notin Nat

StageOf(a) ==
  CASE a.phase \in {"none", "commit"} -> "bidding"
    [] a.phase = "reveal"             -> "opening"
    [] a.phase = "complete"           -> "awarded"

HasCommitted(a, v) == \E c \in a.commits : c.validator = v

SealedOf(a) ==
  [v \in Validators |->
     IF HasCommitted(a, v)
     THEN (CHOOSE c \in a.commits : c.validator = v).hash.bid
     ELSE NoBid]

OpenedOf(a) ==
  [v \in Validators |->
     IF HasRevealed(a, v)
     THEN a.reveals[CHOOSE i \in DOMAIN a.reveals : a.reveals[i].validator = v].bid
     ELSE NoBid]

AwardOf(a) ==
  IF a.phase = "complete"
  THEN [winner |-> a.winner, price |-> a.winningBid]
  ELSE [winner |-> NoValidator, price |-> NoBid]

Sealed(h) == INSTANCE SealedBidAuction WITH
  Bidders <- Validators,
  Amounts <- Bids \union {0},
  Nobody  <- NoValidator,
  stage   <- StageOf(auctions[h]),
  sealed  <- SealedOf(auctions[h]),
  opened  <- OpenedOf(auctions[h]),
  award   <- AwardOf(auctions[h])

(* At every height, the keeper's auction behaves as the sealed-bid auction *)
(* of SealedBidAuction: no bid is added or changed once bids can be        *)
(* opened, what is opened is what was sealed, the award is made once, at a *)
(* bid that was opened (CommitBid, RevealBid, SelectAuctionWinner and the  *)
(* cleanup taken together).                                                *)
ImplementsSealedBid ==
  /\ \A h \in Heights : Sealed(h)!Init
  /\ [][\A h \in Heights : [Sealed(h)!Next]_(Sealed(h)!vars)]_vars
=============================================================================
