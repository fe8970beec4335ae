----------------------------- MODULE AuctionNode -----------------------------
(***************************************************************************)
(* The blind auction as a node runs it.  Only two of the keeper's          *)
(* operations can be sent as messages, CommitBid and RevealBid, each for   *)
(* any block height; everything else happens in the EndBlocker of          *)
(* x/consensus, which looks at the auction of the block it ends, creates   *)
(* the auction of the next one and cleans up.  A failing message is rolled *)
(* back, so it is no step.  The rest of the EndBlocker (consensus state,   *)
(* rewards, halving) does not touch the state of this module.              *)
(***************************************************************************)
EXTENDS BlindAuction

ASSUME NodeConstants == Heights = 1..(LastBlock + 1)

(* Mutant: a single commitment does not open the auction.                  *)
OutcomesOfSeveral(a) ==
  {[auction |-> IF Cardinality(a.commits) > 1 THEN Transitioned(a) ELSE a,
    ant     |-> ant]}

(* What EndBlocker makes of the auction of its own height.  It reads the   *)
(* auction once: both phase tests see that copy, so an auction moved to    *)
(* the reveal phase here is not settled in the same call.                  *)
Outcomes(a) ==
  IF a.phase = "reveal" /\ a.reveals # << >>
  THEN {[auction |-> Awarded(a, a.reveals[i]), ant |-> Burned(a.reveals[i])] :
          i \in DOMAIN a.reveals}
  ELSE {[auction |-> IF a.commits # {} THEN Transitioned(a) ELSE a, ant |-> ant]}

(* Mutant: the auction of the next block is opened, not this one's.        *)
EndBlockerOffByOne(step) ==
  /\ height < LastBlock
  /\ auctions' = [auctions EXCEPT ![height + 1] = Transitioned(Created(@))]
  /\ height' = height + 1
  /\ now' = now + step
  /\ UNCHANGED <<ant, history, bids>>

(* Mutant: every auction that has commitments is opened, old ones too.     *)
EndBlockerOpensAll(step) ==
  /\ height < LastBlock
  /\ auctions' = [h \in Heights |->
       IF h <= height /\ auctions[h].commits # {} THEN Transitioned(auctions[h])
       ELSE IF h = height + 1 THEN Created(auctions[h]) ELSE auctions[h]]
  /\ height' = height + 1
  /\ now' = now + step
  /\ UNCHANGED <<ant, history, bids>>

(* EndBlocker and the start of the next block.                             *)
EndBlocker(step) ==
  /\ height < LastBlock
  /\ \E outcome \in Outcomes(auctions[height]) :
       /\ auctions' = Cleaned([auctions EXCEPT ![height] = outcome.auction,
                                               ![height + 1] = Created(@)],
                              height)
       /\ ant' = outcome.ant
  /\ height' = height + 1
  /\ now' = now + step
  /\ UNCHANGED <<history, bids>>

NodeNext ==
  \/ Messages
  \/ Market
  \/ \E step \in TimeSteps : EndBlocker(step)

NodeSpec == Init /\ [][NodeNext]_vars

-----------------------------------------------------------------------------
(* Bids for a block stay sealed until the block ends: from the moment its  *)
(* auction exists to its own EndBlocker it takes commitments, and every    *)
(* block but the first finds its auction waiting.                          *)
SealedUntilItsBlockEnds ==
  /\ \A h \in Heights : h >= height =>
       auctions[h].phase \in {"none", "commit"} /\ auctions[h].reveals = << >>
  /\ height > 1 => auctions[height].phase = "commit"

LateCommitmentsStep ==
  \A h \in Heights :
    h < height /\ auctions[h].phase \in {"none", "commit"}
      => auctions'[h].phase \in {"none", "commit"}

(* An auction nobody entered before its block ended never opens: the       *)
(* commitments CommitBid still accepts for that past height are dead.      *)
LateCommitmentsNeverOpen == [][LateCommitmentsStep]_vars

TimelyCommitmentsStep ==
  \A h \in Heights : auctions[h].commits # {} =>
    /\ h = height /\ height' # height => auctions'[h].phase = "reveal"
    /\ h < height /\ auctions[h].phase = "reveal" => auctions'[h].phase = "reveal"

(* A commitment made before its block ends can be opened from the next     *)
(* block on, for as long as the node runs.                                 *)
TimelyCommitmentsOpen == [][TimelyCommitmentsStep]_vars

-----------------------------------------------------------------------------
(* "If auction is in reveal phase and we have reveals, select winner": an  *)
(* EndBlocker leaves no auction open whose bids it finds revealed.         *)
EndBlockerSettlesReveals ==
  [][height' # height =>
       \A h \in Heights :
         auctions[h].phase = "reveal" /\ auctions[h].reveals # << >>
           => auctions'[h].phase = "complete"]_vars
=============================================================================
