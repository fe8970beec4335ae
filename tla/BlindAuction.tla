---------------------------- MODULE BlindAuction ----------------------------
(***************************************************************************)
(* The sealed-bid auction for the right to create a block, as the keeper   *)
(* of x/consensus implements it: one auction per block height, which       *)
(* validators enter with a hash (commit), open later (reveal), and which   *)
(* ends with a lottery weighted by the revealed bids whose winner pays in  *)
(* ANT.  Every exported operation of the keeper is an action, called for   *)
(* any height; AuctionNode restricts the calls to those a node makes.      *)
(*                                                                         *)
(* The list of commits is a set: it is searched by validator, and its      *)
(* order decides nothing.  The list of reveals stays a sequence: each of   *)
(* its entries is a ticket of the lottery.                                 *)
(*                                                                         *)
(* Data abstraction.  A SHA-256 hash is the pair it was computed from      *)
(* (the text hashed is "nonce:bid" and a bid is digits only, so no two     *)
(* pairs give the same text); Junk is a well-formed hash nobody can open.  *)
(* An ANT position is its balance, or NoBalance when the position is       *)
(* missing or its balance does not parse as an unsigned integer, which the *)
(* keeper treats alike.  Wall-clock stamps of the records are left out;    *)
(* the block time, which the bid history keeps, is not.                    *)
(***************************************************************************)
EXTENDS Integers, Sequences, FiniteSets

CONSTANTS
  Validators,           \* addresses that send auction messages
  Nonces,               \* nonces of the commitments
  Bids,                 \* bid amounts a validator may commit to
  NoNonce,              \* the "nonce" of Junk, in no reveal
  NoValidator,          \* the empty winner field
  NoBalance,            \* no position, or one whose balance does not parse
  InitialAnt,           \* ANT balances at genesis
  MarketBalances,       \* what x/anteil may set a balance to meanwhile
  MaxBurnAmount,        \* params.MaxBurnAmount
  RapidBidLimit,        \* params.RapidBidLimit
  RapidWindow,          \* seconds a bid counts as recent (100 in the code)
  BidHistoryLimit,      \* params.BidHistoryLimit
  AuctionHistoryBlocks, \* params.AuctionHistoryBlocks
  TimeSteps,            \* seconds from one block to the next
  Heights,              \* bound: the heights whose auctions are modelled
  LastBlock             \* bound: the last block of the model

ASSUME AuctionConstants ==
  /\ Bids \subseteq Nat
  /\ NoNonce \notin Nonces
  /\ NoValidator \notin Validators
  /\ NoBalance \notin Nat
  /\ InitialAnt \in [Validators -> Nat \union {NoBalance}]
  /\ MarketBalances \subseteq Nat \union {NoBalance}
  /\ MaxBurnAmount \in Nat
  /\ RapidBidLimit \in Nat \ {0}
  /\ RapidWindow \in Nat
  /\ BidHistoryLimit \in Nat \ {0}
  /\ AuctionHistoryBlocks \in Nat \ {0}
  /\ TimeSteps \subseteq Nat
  /\ Heights \subseteq Nat \ {0}
  /\ LastBlock \in Nat \ {0}

VARIABLES
  auctions,   \* height -> the stored BlindAuction
  ant,        \* validator -> ANT balance of its position in x/anteil
  history,    \* validator -> block times of its recorded bids, oldest first
  bids,       \* history: validator -> block times of all its bids, kept or not
  height,     \* the block being executed
  now         \* its block time, in seconds

vars == <<auctions, ant, history, bids, height, now>>

Balances == Nat \union {NoBalance}

Junk == [nonce |-> NoNonce, bid |-> 0]

HashCommit(nonce, bid) == [nonce |-> nonce, bid |-> bid]

CommitHashes == [nonce : Nonces, bid : Bids] \union {Junk}

Commits == [validator : Validators, hash : CommitHashes]

Reveals == [validator : Validators, nonce : Nonces, bid : Bids]

Phases == {"none", "commit", "reveal", "complete"}

Auction == [phase     : Phases,
            commits   : SUBSET Commits,
            reveals   : Seq(Reveals),
            winner    : Validators \union {NoValidator},
            winningBid : Bids \union {0}]

NoAuction ==
  [phase |-> "none", commits |-> {}, reveals |-> << >>,
   winner |-> NoValidator, winningBid |-> 0]

NewAuction == [NoAuction EXCEPT !.phase = "commit"]

-----------------------------------------------------------------------------
(* What each keeper method makes of an auction or of the store.            *)

Created(a) == IF a.phase = "none" THEN NewAuction ELSE a

Transitioned(a) == IF a.phase = "commit" THEN [a EXCEPT !.phase = "reveal"] ELSE a

(* Mutant: the price is not stored with the winner.                        *)
AwardedWithoutPrice(a, r) ==
  [a EXCEPT !.phase = "complete", !.winner = r.validator]

Awarded(a, r) == [a EXCEPT !.phase      = "complete",
                           !.winner     = r.validator,
                           !.winningBid = r.bid]

CanPay(v, bid) == ant[v] \in Nat /\ bid <= ant[v]

(* Mutant: the balance is not compared with the bid before the burn.       *)
BurnedUnchecked(r) ==
  IF ant[r.validator] \in Nat
  THEN [ant EXCEPT ![r.validator] = @ - r.bid]
  ELSE ant

(* Mutant: the whole balance is burned, as x/anteil does for a citizen.    *)
BurnedWhole(r) ==
  IF CanPay(r.validator, r.bid)
  THEN [ant EXCEPT ![r.validator] = 0]
  ELSE ant

(* A winner who can no longer pay still wins; nothing is burned then.      *)
Burned(r) ==
  IF CanPay(r.validator, r.bid)
  THEN [ant EXCEPT ![r.validator] = @ - r.bid]
  ELSE ant

(* Mutant: old auctions are deleted whatever their phase.                  *)
CleanedOfAll(aucs, currentHeight) ==
  [h \in Heights |->
     IF h + AuctionHistoryBlocks < currentHeight THEN NoAuction ELSE aucs[h]]

Cleaned(aucs, currentHeight) ==
  [h \in Heights |->
     IF h + AuctionHistoryBlocks < currentHeight /\ aucs[h].phase = "complete"
     THEN NoAuction ELSE aucs[h]]

RecentBids(v) == {i \in DOMAIN history[v] : now - history[v][i] < RapidWindow}

(* Mutant: the limit is passed by one.                                     *)
ValidateAuctionBidOneMore(v, bid) ==
  /\ bid > 0
  /\ CanPay(v, bid)
  /\ bid <= MaxBurnAmount
  /\ Cardinality(RecentBids(v)) <= RapidBidLimit

ValidateAuctionBid(v, bid) ==
  /\ bid > 0
  /\ CanPay(v, bid)
  /\ bid <= MaxBurnAmount
  /\ Cardinality(RecentBids(v)) < RapidBidLimit

Recorded(hist) ==
  LET longer == Append(hist, now) IN
  IF Len(longer) > BidHistoryLimit
  THEN SubSeq(longer, Len(longer) - BidHistoryLimit + 1, Len(longer))
  ELSE longer

HasRevealed(a, v) == \E i \in DOMAIN a.reveals : a.reveals[i].validator = v

(* Mutant: the reveal is not compared with the commit hash.                *)
OpensUnverified(a, v, nonce, bid) ==
  \E c \in a.commits : c.validator = v

Opens(a, v, nonce, bid) ==
  \E c \in a.commits : c.validator = v /\ c.hash = HashCommit(nonce, bid)

-----------------------------------------------------------------------------
Init ==
  /\ auctions = [h \in Heights |-> NoAuction]
  /\ ant = InitialAnt
  /\ history = [v \in Validators |-> << >>]
  /\ bids = [v \in Validators |-> << >>]
  /\ height = 1
  /\ now = 0

CreateBlindAuction(h) ==
  /\ auctions' = [auctions EXCEPT ![h] = Created(@)]
  /\ UNCHANGED <<ant, history, bids, height, now>>

CommitBid(v, hash, h) ==
  LET a == Created(auctions[h]) IN
  /\ a.phase = "commit"
  /\ \A c \in a.commits : c.validator # v
  /\ auctions' = [auctions EXCEPT
       ![h] = [a EXCEPT !.commits = @ \union {[validator |-> v, hash |-> hash]}]]
  /\ UNCHANGED <<ant, history, bids, height, now>>

RevealBid(v, nonce, bid, h) ==
  LET a == auctions[h] IN
  /\ a.phase = "reveal"
  /\ ~HasRevealed(a, v)
  /\ Opens(a, v, nonce, bid)
  /\ ValidateAuctionBid(v, bid)
  /\ history' = [history EXCEPT ![v] = Recorded(@)]
  /\ bids' = [bids EXCEPT ![v] = Append(@, now)]
  /\ auctions' = [auctions EXCEPT
       ![h].reveals = Append(@, [validator |-> v, nonce |-> nonce, bid |-> bid])]
  /\ UNCHANGED <<ant, height, now>>

TransitionAuctionPhase(h) ==
  /\ auctions[h].phase # "none"
  /\ auctions' = [auctions EXCEPT ![h] = Transitioned(@)]
  /\ UNCHANGED <<ant, history, bids, height, now>>

(* Every revealed bid is positive, so every reveal has a ticket.           *)
SelectAuctionWinner(h) ==
  /\ auctions[h].phase = "reveal"
  /\ \E i \in DOMAIN auctions[h].reveals :
       LET r == auctions[h].reveals[i] IN
       /\ auctions' = [auctions EXCEPT ![h] = Awarded(@, r)]
       /\ ant' = Burned(r)
  /\ UNCHANGED <<history, bids, height, now>>

CleanupOldAuctions ==
  /\ auctions' = Cleaned(auctions, height)
  /\ UNCHANGED <<ant, history, bids, height, now>>

(* x/anteil overwrites a balance: a trade, a daily accrual, a burn.        *)
UpdateUserPosition(v, balance) ==
  /\ ant' = [ant EXCEPT ![v] = balance]
  /\ UNCHANGED <<auctions, history, bids, height, now>>

NextBlock(step) ==
  /\ height < LastBlock
  /\ height' = height + 1
  /\ now' = now + step
  /\ UNCHANGED <<auctions, ant, history, bids>>

Messages ==
  \/ \E v \in Validators, hash \in CommitHashes, h \in Heights : CommitBid(v, hash, h)
  \/ \E v \in Validators, n \in Nonces, b \in Bids, h \in Heights : RevealBid(v, n, b, h)

Market == \E v \in Validators, b \in MarketBalances : UpdateUserPosition(v, b)

Next ==
  \/ Messages
  \/ \E h \in Heights : CreateBlindAuction(h)
  \/ \E h \in Heights : TransitionAuctionPhase(h)
  \/ \E h \in Heights : SelectAuctionWinner(h)
  \/ CleanupOldAuctions
  \/ Market
  \/ \E step \in TimeSteps : NextBlock(step)

Spec == Init /\ [][Next]_vars

-----------------------------------------------------------------------------
(* Every stored auction, balance and bid history has its type; the balance *)
(* of a burn never goes below zero.                                        *)
TypeOK ==
  /\ auctions \in [Heights -> Auction]
  /\ ant \in [Validators -> Balances]
  /\ history \in [Validators -> Seq(Nat)]
  /\ bids \in [Validators -> Seq(Nat)]
  /\ height \in 1..LastBlock
  /\ now \in Nat

(* A validator has one commitment and one lottery ticket per auction, and  *)
(* the ticket is the bid its own commitment fixed (CommitBid, RevealBid).  *)
RevealsMatchCommits ==
  \A h \in Heights :
    LET a == auctions[h] IN
    /\ \A c, d \in a.commits : c.validator = d.validator => c = d
    /\ \A i, j \in DOMAIN a.reveals :
         a.reveals[i].validator = a.reveals[j].validator => i = j
    /\ \A i \in DOMAIN a.reveals : \E c \in a.commits :
         /\ c.validator = a.reveals[i].validator
         /\ c.hash = HashCommit(a.reveals[i].nonce, a.reveals[i].bid)

(* While bids can still be committed nobody has shown a bid: the auction   *)
(* is blind.  Exactly the complete auctions name a winner, and winner and  *)
(* price are one of the revealed bids.                                     *)
BlindThenAwarded ==
  \A h \in Heights :
    LET a == auctions[h] IN
    /\ a.phase = "none" => a.commits = {}
    /\ a.phase \in {"none", "commit"} => a.reveals = << >>
    /\ a.phase = "complete" <=> a.winner # NoValidator
    /\ a.phase = "complete" =>
         \E i \in DOMAIN a.reveals :
           a.winner = a.reveals[i].validator /\ a.winningBid = a.reveals[i].bid

(* "Prevent too many rapid bids": no stretch of RapidWindow seconds holds  *)
(* more than RapidBidLimit bids of one validator, over all the auctions it *)
(* bids in.                                                                *)
RapidBidsLimited ==
  \A v \in Validators : \A i \in DOMAIN bids[v] :
    Cardinality({j \in 1..i : bids[v][i] - bids[v][j] < RapidWindow})
      <= RapidBidLimit

(* With a history at least as long as the limit, which the parameters do   *)
(* not enforce, the bids RecordBidHistory has already forgotten count too: *)
(* ValidateAuctionBid never lets more than RapidBidLimit into a window.    *)
RapidBidsBounded == BidHistoryLimit >= RapidBidLimit => RapidBidsLimited

OnlyWinnersPayStep ==
  auctions' # auctions =>
    \A v \in Validators :
      \/ ant'[v] = ant[v]
      \/ \E h \in Heights :
           /\ auctions[h].phase = "reveal"
           /\ auctions'[h].phase = "complete"
           /\ auctions'[h].winner = v
           /\ \E c \in auctions[h].commits :
                c.validator = v /\ ant'[v] = ant[v] - c.hash.bid

(* Auction traffic touches the ANT of nobody but a winner, in the step     *)
(* that completes its auction, and takes exactly the bid it had committed. *)
OnlyWinnersPay == [][OnlyWinnersPayStep]_vars
=============================================================================
