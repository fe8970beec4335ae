------------------------- MODULE BlindAuctionProofs -------------------------
(***************************************************************************)
(* Proofs about the blind auction for every set of validators, nonces,     *)
(* bids and heights, in four parts.                                        *)
(*  1. The keeper on its own (BlindAuction): type correctness, the safety  *)
(*     invariants of the auction, and who may lose ANT to it.  The two     *)
(*     auction invariants and the type are inductive together: a reveal is *)
(*     matched to a commitment by RevealBid, and stays matched because no  *)
(*     phase after "commit" adds one.                                      *)
(*  2. The limit on rapid bids, over all bids ever made: what the history  *)
(*     has forgotten is too old to count while the history is not full of  *)
(*     recent bids.                                                        *)
(*  3. The auction as a node runs it (AuctionNode): the invariant adds     *)
(*     that the auctions of the current and later blocks are still sealed. *)
(*     From it follows that EndBlocker, which only looks at the auction of *)
(*     its own block, never finds one it could settle.                     *)
(*  4. The refinement (BlindAuctionRefinement): the keeper's auction of    *)
(*     every height implements SealedBidAuction.  The mapping reads a      *)
(*     validator's bid out of its commitment and out of its ticket; the    *)
(*     invariant of part 1 makes both readings unique and makes them agree.*)
(* NodeConstants is cited in part 3 only, NoBidConstant in part 4 only.    *)
(***************************************************************************)
EXTENDS AuctionNode, BlindAuctionRefinement, FiniteSetTheorems, SequenceTheorems, TLAPS

-----------------------------------------------------------------------------
(* 1. The keeper on its own.                                               *)

(* The invariant of one stored auction.                                    *)
Tickets(a) ==
  /\ \A c, d \in a.commits : c.validator = d.validator => c = d
  /\ \A i, j \in DOMAIN a.reveals :
       a.reveals[i].validator = a.reveals[j].validator => i = j
  /\ \A i \in DOMAIN a.reveals : \E c \in a.commits :
       /\ c.validator = a.reveals[i].validator
       /\ c.hash = HashCommit(a.reveals[i].nonce, a.reveals[i].bid)

Blind(a) ==
  /\ a.phase = "none" => a.commits = {}
  /\ a.phase \in {"none", "commit"} => a.reveals = << >>
  /\ a.phase = "complete" <=> a.winner # NoValidator
  /\ a.phase = "complete" =>
       \E i \in DOMAIN a.reveals :
         a.winner = a.reveals[i].validator /\ a.winningBid = a.reveals[i].bid

Good(a) == a \in Auction /\ Tickets(a) /\ Blind(a)

IInv == TypeOK /\ RevealsMatchCommits /\ BlindThenAwarded

(* IInv is TypeOK together with Good of every auction.                     *)
LEMMA GoodAuctions ==
  IInv <=> TypeOK /\ \A h \in Heights : Good(auctions[h])
BY DEF IInv, TypeOK, RevealsMatchCommits, BlindThenAwarded, Good, Tickets, Blind

LEMMA NoAuctionIsGood == Good(NoAuction) /\ Good(NewAuction)
<1>1. NoAuction \in Auction /\ NewAuction \in Auction
  <2>1. << >> \in Seq(Reveals)
    OBVIOUS
  <2>2. NoAuction \in Auction
    BY <2>1 DEF NoAuction, Auction, Phases
  <2>. QED  BY <2>2 DEF NewAuction, Auction, Phases
<1>2. NoAuction.reveals = << >> /\ NewAuction.reveals = << >>
  BY DEF NoAuction, NewAuction
<1>3. Tickets(NoAuction) /\ Tickets(NewAuction)
  BY <1>2 DEF NoAuction, NewAuction, Tickets
<1>4. Blind(NoAuction) /\ Blind(NewAuction)
  BY <1>2 DEF NoAuction, NewAuction, Blind
<1>. QED  BY <1>1, <1>3, <1>4 DEF Good

(* CreateBlindAuction, TransitionAuctionPhase and SelectAuctionWinner keep *)
(* an auction good.                                                        *)
LEMMA CreatedIsGood == ASSUME NEW a, Good(a) PROVE Good(Created(a))
BY NoAuctionIsGood DEF Created

LEMMA TransitionedIsGood == ASSUME NEW a, Good(a) PROVE Good(Transitioned(a))
<1>1. CASE a.phase = "commit"
  <2>. DEFINE b == [a EXCEPT !.phase = "reveal"]
  <2>1. b \in Auction /\ b.phase = "reveal" /\ b.commits = a.commits
        /\ b.reveals = a.reveals /\ b.winner = a.winner
    BY DEF Good, Auction, Phases
  <2>2. Tickets(b)  BY <2>1 DEF Good, Tickets
  <2>3. Blind(b)  BY <1>1, <2>1 DEF Good, Blind
  <2>. QED  BY <1>1, <2>1, <2>2, <2>3 DEF Good, Transitioned
<1>2. CASE a.phase # "commit"
  BY <1>2 DEF Transitioned
<1>. QED  BY <1>1, <1>2

LEMMA AwardedIsGood ==
  ASSUME NEW a, Good(a), a.phase = "reveal", NEW i \in DOMAIN a.reveals
  PROVE  Good(Awarded(a, a.reveals[i]))
<1>. DEFINE r == a.reveals[i]
            b == Awarded(a, r)
<1>1. r \in Reveals
  BY DEF Good, Auction
<1>2. b \in Auction /\ b.phase = "complete" /\ b.commits = a.commits
      /\ b.reveals = a.reveals /\ b.winner = r.validator /\ b.winningBid = r.bid
  BY <1>1 DEF Awarded, Good, Auction, Phases, Reveals
<1>3. Tickets(b)
  BY <1>2 DEF Good, Tickets
<1>4. r.validator # NoValidator
  BY <1>1, AuctionConstants DEF Reveals
<1>5. Blind(b)
  BY <1>2, <1>4 DEF Blind
<1>. QED  BY <1>2, <1>3, <1>5 DEF Good

(* CommitBid: a validator without a commitment adds one while the auction  *)
(* is blind.                                                               *)
LEMMA CommittedIsGood ==
  ASSUME NEW a, Good(a), a.phase = "commit",
         NEW v \in Validators, NEW hash \in CommitHashes,
         \A c \in a.commits : c.validator # v
  PROVE  Good([a EXCEPT !.commits = @ \union {[validator |-> v, hash |-> hash]}])
<1>. DEFINE new == [validator |-> v, hash |-> hash]
            b == [a EXCEPT !.commits = @ \union {new}]
<1>1. b \in Auction /\ b.phase = "commit" /\ b.commits = a.commits \union {new}
      /\ b.reveals = << >> /\ b.winner = a.winner
  BY DEF Good, Auction, Blind, Commits
<1>2. Tickets(b)
  BY <1>1 DEF Good, Tickets
<1>3. Blind(b)
  BY <1>1 DEF Good, Blind
<1>. QED  BY <1>1, <1>2, <1>3 DEF Good

(* RevealBid: a validator without a ticket gets the one its commitment     *)
(* fixed.                                                                  *)
LEMMA RevealedIsGood ==
  ASSUME NEW a, Good(a), a.phase = "reveal",
         NEW v \in Validators, NEW n \in Nonces, NEW b \in Bids,
         ~HasRevealed(a, v), Opens(a, v, n, b)
  PROVE  Good([a EXCEPT !.reveals =
                 Append(@, [validator |-> v, nonce |-> n, bid |-> b])])
<1>. DEFINE new == [validator |-> v, nonce |-> n, bid |-> b]
            s == a.reveals
            e == [a EXCEPT !.reveals = Append(@, new)]
<1>1. s \in Seq(Reveals) /\ new \in Reveals
  BY DEF Good, Auction, Reveals
<1>2. /\ Append(s, new) \in Seq(Reveals)
      /\ DOMAIN Append(s, new) = (DOMAIN s) \union {Len(s) + 1}
      /\ Append(s, new)[Len(s) + 1] = new
      /\ \A i \in DOMAIN s : Append(s, new)[i] = s[i] /\ i # Len(s) + 1
  BY <1>1
<1>3. e \in Auction /\ e.phase = "reveal" /\ e.commits = a.commits
      /\ e.reveals = Append(s, new) /\ e.winner = a.winner
  BY <1>2 DEF Good, Auction
<1>4. \A i \in DOMAIN s : s[i].validator # v
  BY DEF HasRevealed
<1>5. Tickets(e)
  <2>1. \A i, j \in DOMAIN e.reveals :
          e.reveals[i].validator = e.reveals[j].validator => i = j
    BY <1>2, <1>3, <1>4 DEF Good, Tickets
  <2>2. \A i \in DOMAIN e.reveals : \E c \in e.commits :
          /\ c.validator = e.reveals[i].validator
          /\ c.hash = HashCommit(e.reveals[i].nonce, e.reveals[i].bid)
    BY <1>2, <1>3 DEF Good, Tickets, Opens
  <2>. QED  BY <1>3, <2>1, <2>2 DEF Good, Tickets
<1>6. Blind(e)
  BY <1>3 DEF Good, Blind
<1>. QED  BY <1>3, <1>5, <1>6 DEF Good

(* RecordBidHistory keeps a history a sequence of times.                   *)
LEMMA RecordedType ==
  ASSUME NEW hist \in Seq(Nat), now \in Nat
  PROVE  Recorded(hist) \in Seq(Nat)
<1>. DEFINE longer == Append(hist, now)
            first == Len(longer) - BidHistoryLimit + 1
<1>1. longer \in Seq(Nat)
  OBVIOUS
<1>2. CASE Len(longer) > BidHistoryLimit
  <2>1. first \in 1..Len(longer)
    BY <1>1, <1>2, AuctionConstants
  <2>2. SubSeq(longer, first, Len(longer)) \in Seq(Nat)
    BY <1>1, <2>1, SubSeqProperties
  <2>. QED  BY <1>2, <2>2 DEF Recorded
<1>3. CASE ~(Len(longer) > BidHistoryLimit)
  BY <1>1, <1>3 DEF Recorded
<1>. QED  BY <1>2, <1>3

(* The burn of SelectAuctionWinner leaves every balance a balance.         *)
LEMMA BurnedType ==
  ASSUME ant \in [Validators -> Balances], NEW r \in Reveals
  PROVE  Burned(r) \in [Validators -> Balances]
<1>1. r.validator \in Validators /\ r.bid \in Nat
  BY AuctionConstants DEF Reveals
<1>2. CASE CanPay(r.validator, r.bid)
  BY <1>1, <1>2 DEF Burned, CanPay, Balances
<1>3. CASE ~CanPay(r.validator, r.bid)
  BY <1>3 DEF Burned
<1>. QED  BY <1>2, <1>3

LEMMA InitEstablishesIInv == Init => IInv
<1>. SUFFICES ASSUME Init PROVE IInv
  OBVIOUS
<1>1. \A h \in Heights : auctions[h] = NoAuction
  BY DEF Init
<1>2. TypeOK
  <2>1. auctions \in [Heights -> Auction]
    BY NoAuctionIsGood DEF Init, Good
  <2>2. ant \in [Validators -> Balances]
    BY AuctionConstants DEF Init, Balances
  <2>3. /\ history \in [Validators -> Seq(Nat)] /\ now \in Nat
        /\ bids \in [Validators -> Seq(Nat)]
    BY DEF Init
  <2>4. height \in 1..LastBlock
    BY AuctionConstants DEF Init
  <2>. QED  BY <2>1, <2>2, <2>3, <2>4 DEF TypeOK
<1>. QED  BY <1>1, <1>2, NoAuctionIsGood, GoodAuctions

(***************************************************************************)
(* One lemma per action: a step that replaces one auction by a good one,   *)
(* and nothing else of the auctions, keeps all of them good.               *)
(***************************************************************************)
LEMMA OneAuctionReplaced ==
  ASSUME IInv, NEW h \in Heights, NEW b, Good(b),
         auctions' = [auctions EXCEPT ![h] = b],
         ant' \in [Validators -> Balances],
         history' \in [Validators -> Seq(Nat)],
         bids' \in [Validators -> Seq(Nat)],
         UNCHANGED <<height, now>>
  PROVE  IInv'
<1>1. TypeOK /\ \A g \in Heights : Good(auctions[g])
  BY GoodAuctions
<1>2. \A g \in Heights : auctions'[g] = IF g = h THEN b ELSE auctions[g]
  BY <1>1 DEF TypeOK
<1>3. \A g \in Heights : Good(auctions'[g])
  BY <1>1, <1>2
<1>4. TypeOK'
  <2>1. auctions' \in [Heights -> Auction]
    BY <1>1 DEF TypeOK, Good
  <2>. QED  BY <1>1, <2>1 DEF TypeOK
<1>. QED  BY <1>3, <1>4
          DEF IInv, TypeOK, RevealsMatchCommits, BlindThenAwarded, Good, Tickets, Blind

LEMMA CreateBlindAuctionKeeps ==
  ASSUME IInv, NEW h \in Heights, CreateBlindAuction(h) PROVE IInv'
<1>1. Good(Created(auctions[h]))
  BY GoodAuctions, CreatedIsGood
<1>2. auctions' = [auctions EXCEPT ![h] = Created(auctions[h])]
  BY DEF CreateBlindAuction, IInv, TypeOK
<1>. QED  BY <1>1, <1>2, OneAuctionReplaced DEF CreateBlindAuction, IInv, TypeOK

LEMMA CommitBidKeeps ==
  ASSUME IInv, NEW v \in Validators, NEW hash \in CommitHashes, NEW h \in Heights,
         CommitBid(v, hash, h)
  PROVE  IInv'
<1>. DEFINE a == Created(auctions[h])
            b == [a EXCEPT !.commits = @ \union {[validator |-> v, hash |-> hash]}]
<1>1. Good(a)
  BY GoodAuctions, CreatedIsGood
<1>2. Good(b)
  BY <1>1, CommittedIsGood DEF CommitBid
<1>3. auctions' = [auctions EXCEPT ![h] = b]
  BY DEF CommitBid
<1>. HIDE DEF b
<1>. QED  BY <1>2, <1>3, OneAuctionReplaced DEF CommitBid, IInv, TypeOK

LEMMA RevealBidKeeps ==
  ASSUME IInv, NEW v \in Validators, NEW n \in Nonces, NEW b \in Bids,
         NEW h \in Heights, RevealBid(v, n, b, h)
  PROVE  IInv'
<1>. DEFINE a == auctions[h]
            e == [a EXCEPT !.reveals =
                    Append(@, [validator |-> v, nonce |-> n, bid |-> b])]
<1>1. Good(e)
  BY GoodAuctions, RevealedIsGood DEF RevealBid
<1>2. auctions' = [auctions EXCEPT ![h] = e]
  BY DEF RevealBid, IInv, TypeOK
<1>3. history' \in [Validators -> Seq(Nat)] /\ bids' \in [Validators -> Seq(Nat)]
  <2>1. /\ history \in [Validators -> Seq(Nat)] /\ now \in Nat
        /\ bids \in [Validators -> Seq(Nat)]
    BY DEF IInv, TypeOK
  <2>2. Recorded(history[v]) \in Seq(Nat)
    BY <2>1, RecordedType
  <2>. QED  BY <2>1, <2>2 DEF RevealBid
<1>. HIDE DEF e
<1>. QED  BY <1>1, <1>2, <1>3, OneAuctionReplaced DEF RevealBid, IInv, TypeOK

LEMMA TransitionAuctionPhaseKeeps ==
  ASSUME IInv, NEW h \in Heights, TransitionAuctionPhase(h) PROVE IInv'
<1>1. Good(Transitioned(auctions[h]))
  BY GoodAuctions, TransitionedIsGood
<1>2. auctions' = [auctions EXCEPT ![h] = Transitioned(auctions[h])]
  BY DEF TransitionAuctionPhase, IInv, TypeOK
<1>. QED  BY <1>1, <1>2, OneAuctionReplaced DEF TransitionAuctionPhase, IInv, TypeOK

LEMMA SelectAuctionWinnerKeeps ==
  ASSUME IInv, NEW h \in Heights, SelectAuctionWinner(h) PROVE IInv'
<1>1. PICK i \in DOMAIN auctions[h].reveals :
        /\ auctions' = [auctions EXCEPT ![h] = Awarded(@, auctions[h].reveals[i])]
        /\ ant' = Burned(auctions[h].reveals[i])
  BY DEF SelectAuctionWinner
<1>. DEFINE r == auctions[h].reveals[i]
<1>2. Good(auctions[h]) /\ auctions[h].phase = "reveal"
  BY GoodAuctions DEF SelectAuctionWinner
<1>3. Good(Awarded(auctions[h], r))
  BY <1>2, AwardedIsGood
<1>4. r \in Reveals
  BY <1>2 DEF Good, Auction
<1>5. ant' \in [Validators -> Balances]
  BY <1>1, <1>4, BurnedType DEF IInv, TypeOK
<1>6. auctions' = [auctions EXCEPT ![h] = Awarded(auctions[h], r)]
  BY <1>1 DEF IInv, TypeOK
<1>. HIDE DEF r
<1>. QED  BY <1>3, <1>5, <1>6, OneAuctionReplaced DEF SelectAuctionWinner, IInv, TypeOK

(* CleanupOldAuctions replaces auctions by no auction.                     *)
LEMMA CleanupOldAuctionsKeeps ==
  ASSUME IInv, CleanupOldAuctions PROVE IInv'
<1>1. TypeOK /\ \A g \in Heights : Good(auctions[g])
  BY GoodAuctions
<1>2. \A g \in Heights : auctions'[g] = NoAuction \/ auctions'[g] = auctions[g]
  BY DEF CleanupOldAuctions, Cleaned
<1>3. \A g \in Heights : Good(auctions'[g])
  BY <1>1, <1>2, NoAuctionIsGood
<1>4. auctions' \in [Heights -> Auction]
  BY <1>3 DEF CleanupOldAuctions, Cleaned, Good
<1>5. TypeOK'
  BY <1>1, <1>4 DEF TypeOK, CleanupOldAuctions
<1>. QED  BY <1>3, <1>5
          DEF IInv, TypeOK, RevealsMatchCommits, BlindThenAwarded, Good, Tickets, Blind

LEMMA NextPreservesIInv == IInv /\ [Next]_vars => IInv'
<1>. SUFFICES ASSUME IInv, [Next]_vars PROVE IInv'
  OBVIOUS
<1>1. ASSUME NEW v \in Validators, NEW hash \in CommitHashes, NEW h \in Heights,
             CommitBid(v, hash, h)
      PROVE  IInv'
  BY <1>1, CommitBidKeeps
<1>2. ASSUME NEW v \in Validators, NEW n \in Nonces, NEW b \in Bids,
             NEW h \in Heights, RevealBid(v, n, b, h)
      PROVE  IInv'
  BY <1>2, RevealBidKeeps
<1>3. ASSUME NEW h \in Heights, CreateBlindAuction(h) PROVE IInv'
  BY <1>3, CreateBlindAuctionKeeps
<1>4. ASSUME NEW h \in Heights, TransitionAuctionPhase(h) PROVE IInv'
  BY <1>4, TransitionAuctionPhaseKeeps
<1>5. ASSUME NEW h \in Heights, SelectAuctionWinner(h) PROVE IInv'
  BY <1>5, SelectAuctionWinnerKeeps
<1>6. CASE CleanupOldAuctions
  BY <1>6, CleanupOldAuctionsKeeps
<1>7. ASSUME NEW v \in Validators, NEW b \in MarketBalances, UpdateUserPosition(v, b)
      PROVE  IInv'
  <2>1. ant' \in [Validators -> Balances]
    BY <1>7, AuctionConstants DEF UpdateUserPosition, IInv, TypeOK, Balances
  <2>. QED  BY <1>7, <2>1
            DEF UpdateUserPosition, IInv, TypeOK, RevealsMatchCommits, BlindThenAwarded
<1>8. ASSUME NEW step \in TimeSteps, NextBlock(step) PROVE IInv'
  <2>1. height' \in 1..LastBlock /\ now' \in Nat
    BY <1>8, AuctionConstants DEF NextBlock, IInv, TypeOK
  <2>. QED  BY <1>8, <2>1
            DEF NextBlock, IInv, TypeOK, RevealsMatchCommits, BlindThenAwarded
<1>9. CASE UNCHANGED vars
  BY <1>9 DEF vars, IInv, TypeOK, RevealsMatchCommits, BlindThenAwarded
<1>. QED  BY <1>1, <1>2, <1>3, <1>4, <1>5, <1>6, <1>7, <1>8, <1>9
          DEF Next, Messages, Market

LEMMA IInvHolds == Spec => []IInv
BY InitEstablishesIInv, NextPreservesIInv, PTL DEF Spec

-----------------------------------------------------------------------------
(* Whatever the keeper's operations do, the stored auctions, balances and  *)
(* histories are well formed; a burn never goes below zero.                *)
THEOREM TypeCorrect == Spec => []TypeOK
BY IInvHolds, PTL DEF IInv

(* Every lottery ticket is the bid its owner committed to, and nobody has  *)
(* two (CommitBid, RevealBid).                                             *)
THEOREM TicketsAreCommitments == Spec => []RevealsMatchCommits
BY IInvHolds, PTL DEF IInv

(* No bid is visible while bids are taken, and a winner always holds one   *)
(* of the tickets (TransitionAuctionPhase, SelectAuctionWinner).           *)
THEOREM AuctionIsBlind == Spec => []BlindThenAwarded
BY IInvHolds, PTL DEF IInv

LEMMA WinnerStepPays ==
  ASSUME IInv, NEW h \in Heights, SelectAuctionWinner(h) PROVE OnlyWinnersPayStep
<1>1. PICK i \in DOMAIN auctions[h].reveals :
        /\ auctions' = [auctions EXCEPT ![h] = Awarded(@, auctions[h].reveals[i])]
        /\ ant' = Burned(auctions[h].reveals[i])
  BY DEF SelectAuctionWinner
<1>. DEFINE a == auctions[h]
            r == a.reveals[i]
<1>2. Good(a) /\ a.phase = "reveal"
  BY GoodAuctions DEF SelectAuctionWinner
<1>3. auctions'[h].phase = "complete" /\ auctions'[h].winner = r.validator
  BY <1>1, <1>2 DEF Awarded, Good, Auction, IInv, TypeOK
<1>4. PICK c \in a.commits : /\ c.validator = r.validator
                             /\ c.hash = HashCommit(r.nonce, r.bid)
  BY <1>2 DEF Good, Tickets
<1>5. ASSUME NEW v \in Validators
      PROVE  \/ ant'[v] = ant[v]
             \/ v = r.validator /\ ant'[v] = ant[v] - r.bid
  BY <1>1 DEF Burned, IInv, TypeOK
<1>6. c.hash.bid = r.bid
  BY <1>4 DEF HashCommit
<1>. HIDE DEF r
<1>. QED  BY <1>2, <1>3, <1>4, <1>5, <1>6 DEF OnlyWinnersPayStep

(* Nobody loses ANT to an auction but its winner, and the winner loses the *)
(* bid that its own commitment fixed (SelectAuctionWinner).                *)
THEOREM OnlyWinnersEverPay == Spec => OnlyWinnersPay
<1>1. IInv /\ [Next]_vars => [OnlyWinnersPayStep]_vars
  <2>. SUFFICES ASSUME IInv, Next PROVE OnlyWinnersPayStep
    OBVIOUS
  <2>1. ASSUME ant' = ant PROVE OnlyWinnersPayStep
    BY <2>1 DEF OnlyWinnersPayStep
  <2>2. ASSUME auctions' = auctions PROVE OnlyWinnersPayStep
    BY <2>2 DEF OnlyWinnersPayStep
  <2>3. ASSUME NEW h \in Heights, SelectAuctionWinner(h) PROVE OnlyWinnersPayStep
    BY <2>3, WinnerStepPays
  <2>4. \/ ant' = ant
        \/ auctions' = auctions
        \/ \E h \in Heights : SelectAuctionWinner(h)
    BY DEF Next, Messages, Market, CommitBid, RevealBid, CreateBlindAuction,
           TransitionAuctionPhase, CleanupOldAuctions, UpdateUserPosition, NextBlock
  <2>. QED  BY <2>1, <2>2, <2>3, <2>4
<1>. QED  BY <1>1, IInvHolds, PTL DEF Spec, OnlyWinnersPay

-----------------------------------------------------------------------------
(* 2. The limit on rapid bids.                                             *)

(* The bids of a list that are recent when its i-th bid is made.           *)
RecentAt(s, i) == {j \in 1..i : s[i] - s[j] < RapidWindow}

BoundedBids(s) ==
  \A i \in DOMAIN s : Cardinality(RecentAt(s, i)) <= RapidBidLimit

(* The bids of a list that are recent now.                                 *)
RecentNow(s) == {j \in 1..Len(s) : now - s[j] < RapidWindow}

(* The stored history is the end of the list of all bids, cut only when it *)
(* is full, and the bids are in the order of their times.                  *)
KeepsTheLast(h, s) ==
  /\ Len(h) <= Len(s) /\ Len(h) <= BidHistoryLimit
  /\ Len(h) < BidHistoryLimit => Len(h) = Len(s)
  /\ \A j \in 1..Len(h) : h[j] = s[j + (Len(s) - Len(h))]

InOrder(s, t) ==
  /\ \A i, j \in 1..Len(s) : i <= j => s[i] <= s[j]
  /\ \A i \in 1..Len(s) : s[i] <= t

RapidInv ==
  /\ TypeOK
  /\ \A v \in Validators : KeepsTheLast(history[v], bids[v]) /\ InOrder(bids[v], now)
  /\ RapidBidsBounded

(* What the history has forgotten is not recent when the recent bids it    *)
(* holds are too few to fill it, so counting those is enough.              *)
LEMMA ForgottenBidsAreOld ==
  ASSUME NEW v \in Validators, NEW s \in Seq(Nat), NEW h \in Seq(Nat), h = history[v],
         now \in Nat, KeepsTheLast(h, s), InOrder(s, now), BidHistoryLimit >= RapidBidLimit,
         Cardinality(RecentBids(v)) < RapidBidLimit
  PROVE  /\ IsFiniteSet(RecentNow(s))
         /\ Cardinality(RecentNow(s)) < RapidBidLimit
<1>. DEFINE n == Len(s)
            m == Len(h)
            d == n - m
<1>1. /\ n \in Nat /\ m \in Nat
      /\ \A j \in 1..n : s[j] \in Nat
      /\ \A j \in 1..m : h[j] \in Nat
  OBVIOUS
<1>2. /\ m <= n /\ m <= BidHistoryLimit
      /\ m < BidHistoryLimit => m = n
      /\ \A j \in 1..m : h[j] = s[j + d]
      /\ \A i, j \in 1..n : i <= j => s[i] <= s[j]
  BY DEF KeepsTheLast, InOrder
<1>3. /\ RecentBids(v) = {i \in 1..m : now - h[i] < RapidWindow}
      /\ RecentNow(s) = {i \in 1..n : now - s[i] < RapidWindow}
  BY DEF RecentBids, RecentNow
<1>4. BidHistoryLimit \in Nat /\ RapidBidLimit \in Nat /\ RapidWindow \in Nat
  BY AuctionConstants
<1>. HIDE DEF n, m
<1>5. IsFiniteSet(RecentBids(v)) /\ IsFiniteSet(RecentNow(s))
  <2>1. IsFiniteSet(1..m) /\ IsFiniteSet(1..n)
    BY <1>1, FS_Interval
  <2>. QED  BY <1>3, <2>1, FS_Subset
<1>6. d \in Nat
  BY <1>1, <1>2
<1>7. \A j \in RecentNow(s) : j - d \in RecentBids(v)
  <2>1. CASE d = 0
    <3>1. n = m
      BY <1>1, <2>1
    <3>2. ASSUME NEW j \in 1..m PROVE j - d = j /\ j + d = j
      BY <2>1, <3>2
    <3>. HIDE DEF d
    <3>3. \A j \in 1..m : h[j] = s[j]
      BY <1>2, <3>2
    <3>. QED  BY <1>3, <3>1, <3>2, <3>3
  <2>2. CASE d # 0
    <3>1. m >= RapidBidLimit
      BY <1>1, <1>2, <1>4, <2>2
    <3>2. PICK i \in 1..m : ~(now - h[i] < RapidWindow)
      <4>1. Cardinality(1..m) = IF 1 > m THEN 0 ELSE m - 1 + 1
        BY <1>1, FS_Interval
      <4>2. Cardinality(1..m) = m
        BY <1>1, <4>1
      <4>3. Cardinality(RecentBids(v)) \in Nat
        BY <1>5, FS_CardinalityType
      <4>4. RecentBids(v) # 1..m
        BY <1>1, <1>4, <3>1, <4>2, <4>3
      <4>. QED  BY <1>3, <4>4
    <3>3. i + d \in 1..n /\ h[i] = s[i + d]
      BY <1>1, <1>2
    <3>. HIDE DEF d
    <3>4. ASSUME NEW j \in RecentNow(s) PROVE j \in 1..n /\ j > i + d
      <4>1. j \in 1..n /\ now - s[j] < RapidWindow
        BY <1>3
      <4>2. s[j] \in Nat /\ s[i + d] \in Nat /\ ~(now - s[i + d] < RapidWindow)
        BY <1>1, <3>2, <3>3, <4>1
      <4>3. ~(s[j] <= s[i + d])
        BY <1>4, <4>1, <4>2
      <4>4. ~(j <= i + d)
        BY <1>2, <3>3, <4>1, <4>3
      <4>. QED  BY <1>1, <1>6, <4>1, <4>4
    <3>5. ASSUME NEW j \in RecentNow(s) PROVE j - d \in 1..m /\ h[j - d] = s[j]
      <4>1. j - d \in 1..m
        BY <1>1, <3>4 DEF d
      <4>2. (j - d) + d = j
        BY <1>1, <1>6, <3>4
      <4>. QED  BY <1>2, <4>1, <4>2
    <3>. QED  BY <1>3, <3>5
  <2>. QED  BY <2>1, <2>2
<1>. HIDE DEF d
<1>8. Cardinality(RecentNow(s)) <= Cardinality(RecentBids(v))
  <2>. DEFINE back == [j \in RecentNow(s) |-> j - d]
  <2>1. back \in Injection(RecentNow(s), RecentBids(v))
    <3>1. \A j \in RecentNow(s) : j \in Int
      BY <1>3
    <3>. QED  BY <1>6, <1>7, <3>1 DEF Injection, IsInjective
  <2>. QED  BY <1>5, <2>1, FS_Injection
<1>9. Cardinality(RecentNow(s)) \in Nat /\ Cardinality(RecentBids(v)) \in Nat
  BY <1>5, FS_CardinalityType
<1>. QED  BY <1>4, <1>5, <1>8, <1>9

(* A bid made when fewer than the limit are recent is at most the last one *)
(* the limit allows; the bids before it saw what they saw.                 *)
LEMMA AppendedBounded ==
  ASSUME NEW s \in Seq(Nat), now \in Nat, BoundedBids(s),
         IsFiniteSet(RecentNow(s)), Cardinality(RecentNow(s)) < RapidBidLimit
  PROVE  BoundedBids(Append(s, now))
<1>. DEFINE n == Len(s)
            longer == Append(s, now)
<1>1. /\ n \in Nat /\ DOMAIN s = 1..n /\ DOMAIN longer = 1..(n + 1)
      /\ longer[n + 1] = now /\ \A j \in 1..n : longer[j] = s[j] /\ s[j] \in Nat
  OBVIOUS
<1>. HIDE DEF longer
<1>. SUFFICES ASSUME NEW i \in 1..(n + 1)
              PROVE  Cardinality(RecentAt(longer, i)) <= RapidBidLimit
  BY <1>1 DEF BoundedBids, longer
<1>2. CASE i \in 1..n
  <2>1. RecentAt(longer, i) = RecentAt(s, i)
    BY <1>1, <1>2 DEF RecentAt
  <2>. QED  BY <1>1, <1>2, <2>1 DEF BoundedBids
<1>3. CASE i = n + 1
  <2>1. RecentAt(longer, i) \subseteq RecentNow(s) \union {n + 1}
    BY <1>1, <1>3 DEF RecentAt, RecentNow
  <2>2. n + 1 \notin RecentNow(s)
    BY <1>1 DEF RecentNow
  <2>3. /\ IsFiniteSet(RecentNow(s) \union {n + 1})
        /\ Cardinality(RecentNow(s) \union {n + 1}) = Cardinality(RecentNow(s)) + 1
    BY <2>2, FS_AddElement
  <2>4. Cardinality(RecentAt(longer, i)) <= Cardinality(RecentNow(s)) + 1
    BY <2>1, <2>3, FS_Subset
  <2>5. Cardinality(RecentNow(s)) \in Nat /\ RapidBidLimit \in Nat
    BY FS_CardinalityType, AuctionConstants
  <2>6. Cardinality(RecentAt(longer, i)) \in Nat
    BY <2>1, <2>3, FS_Subset, FS_CardinalityType
  <2>. QED  BY <2>4, <2>5, <2>6
<1>. QED  BY <1>1, <1>2, <1>3

(* RecordBidHistory keeps the last bids: appending to both lists leaves    *)
(* the history at the end of the other, and cutting it takes the oldest.   *)
LEMMA RecordedKeepsTheLast ==
  ASSUME NEW s \in Seq(Nat), NEW h \in Seq(Nat), now \in Nat,
         KeepsTheLast(h, s), InOrder(s, now)
  PROVE  KeepsTheLast(Recorded(h), Append(s, now)) /\ InOrder(Append(s, now), now)
<1>. DEFINE longer == Append(h, now)
            all == Append(s, now)
            n == Len(s)
            m == Len(h)
<1>1. /\ n \in Nat /\ m \in Nat /\ BidHistoryLimit \in Nat \ {0}
      /\ longer \in Seq(Nat) /\ Len(longer) = m + 1
      /\ all \in Seq(Nat) /\ Len(all) = n + 1
  BY AuctionConstants
<1>2. /\ \A j \in 1..m : longer[j] = h[j]
      /\ \A j \in 1..n : all[j] = s[j] /\ s[j] \in Nat
      /\ longer[m + 1] = now /\ all[n + 1] = now
  OBVIOUS
<1>3. /\ m <= n /\ m <= BidHistoryLimit
      /\ m < BidHistoryLimit => m = n
      /\ \A j \in 1..m : h[j] = s[j + (n - m)]
      /\ \A i, j \in 1..n : i <= j => s[i] <= s[j]
      /\ \A i \in 1..n : s[i] <= now
  BY DEF KeepsTheLast, InOrder
<1>. HIDE DEF longer, all, n, m
<1>4. InOrder(all, now)
  <2>1. ASSUME NEW i \in 1..(n + 1) PROVE all[i] <= now
    <3>1. CASE i = n + 1
      BY <1>2, <3>1
    <3>2. CASE i \in 1..n
      BY <1>2, <1>3, <3>2
    <3>. QED  BY <1>1, <3>1, <3>2
  <2>2. ASSUME NEW i \in 1..(n + 1), NEW j \in 1..(n + 1), i <= j PROVE all[i] <= all[j]
    <3>1. CASE j = n + 1
      BY <1>2, <2>1, <3>1
    <3>2. CASE j \in 1..n /\ i \in 1..n
      BY <1>2, <1>3, <2>2, <3>2
    <3>. QED  BY <1>1, <2>2, <3>1, <3>2
  <2>. QED  BY <1>1, <2>1, <2>2 DEF InOrder
<1>5. ASSUME NEW j \in 1..(m + 1) PROVE longer[j] = all[j + (n - m)]
  <2>1. CASE j = m + 1
    <3>1. j + (n - m) = n + 1
      BY <1>1, <2>1
    <3>. QED  BY <1>2, <2>1, <3>1
  <2>2. CASE j \in 1..m
    <3>1. j + (n - m) \in 1..n
      BY <1>1, <1>3, <2>2
    <3>. QED  BY <1>2, <1>3, <2>2, <3>1
  <2>. QED  BY <1>1, <2>1, <2>2
<1>6. CASE Len(longer) > BidHistoryLimit
  <2>1. m = BidHistoryLimit /\ Len(longer) - BidHistoryLimit + 1 = 2 /\ 2 \in 1..(m + 1)
    BY <1>1, <1>3, <1>6
  <2>2. Recorded(h) = SubSeq(longer, 2, m + 1)
    BY <1>1, <1>6, <2>1 DEF Recorded, longer
  <2>3. /\ Len(SubSeq(longer, 2, m + 1)) = m
        /\ \A j \in 1..m : SubSeq(longer, 2, m + 1)[j] = longer[j + 1]
    BY <1>1, <2>1, SubSeqProperties
  <2>4. \A j \in 1..m : Recorded(h)[j] = all[j + ((n + 1) - m)]
    <3>1. ASSUME NEW j \in 1..m PROVE Recorded(h)[j] = all[(j + 1) + (n - m)]
      <4>1. j + 1 \in 1..(m + 1)
        BY <1>1
      <4>. QED  BY <1>5, <2>2, <2>3, <4>1
    <3>2. \A j \in 1..m : (j + 1) + (n - m) = j + ((n + 1) - m)
      BY <1>1
    <3>. QED  BY <3>1, <3>2
  <2>5. Len(Recorded(h)) = m /\ m <= n + 1 /\ m <= BidHistoryLimit /\ ~(m < BidHistoryLimit)
    BY <1>1, <1>3, <2>1, <2>2, <2>3
  <2>6. KeepsTheLast(Recorded(h), all)
    BY <1>1, <2>4, <2>5 DEF KeepsTheLast
  <2>. QED  BY <1>4, <2>6 DEF all
<1>7. CASE ~(Len(longer) > BidHistoryLimit)
  <2>1. Recorded(h) = longer
    BY <1>7 DEF Recorded, longer
  <2>2. m = n /\ m + 1 <= BidHistoryLimit
    BY <1>1, <1>3, <1>7
  <2>3. \A j \in 1..(m + 1) : longer[j] = all[j + ((n + 1) - (m + 1))]
    <3>1. (n + 1) - (m + 1) = n - m
      BY <1>1
    <3>. QED  BY <1>5, <3>1
  <2>4. /\ Len(longer) = m + 1 /\ Len(all) = m + 1 /\ m + 1 <= BidHistoryLimit
        /\ m + 1 \in Nat
    BY <1>1, <2>2
  <2>5. \A j \in 1..(m + 1) : longer[j] = all[j + ((m + 1) - (m + 1))]
    BY <2>2, <2>3
  <2>6. KeepsTheLast(longer, all)
    BY <2>4, <2>5 DEF KeepsTheLast
  <2>. QED  BY <1>4, <2>1, <2>6 DEF all
<1>. QED  BY <1>6, <1>7

LEMMA RapidBidsKept == RapidInv /\ IInv' /\ [Next]_vars => RapidInv'
<1>. SUFFICES ASSUME RapidInv, IInv', [Next]_vars PROVE RapidInv'
  OBVIOUS
<1>1. /\ TypeOK /\ TypeOK'
      /\ \A v \in Validators : KeepsTheLast(history[v], bids[v]) /\ InOrder(bids[v], now)
      /\ BidHistoryLimit >= RapidBidLimit => \A v \in Validators : BoundedBids(bids[v])
  BY DEF RapidInv, IInv, RapidBidsBounded, RapidBidsLimited, BoundedBids, RecentAt
<1>2. ASSUME NEW v \in Validators, NEW n \in Nonces, NEW b \in Bids,
             NEW h \in Heights, RevealBid(v, n, b, h), NEW w \in Validators
      PROVE  /\ KeepsTheLast(history'[w], bids'[w]) /\ InOrder(bids'[w], now')
             /\ BidHistoryLimit >= RapidBidLimit => BoundedBids(bids'[w])
  <2>1. Cardinality(RecentBids(v)) < RapidBidLimit /\ now \in Nat /\ now' = now
    BY <1>1, <1>2 DEF RevealBid, ValidateAuctionBid, TypeOK
  <2>2. /\ history'[w] = IF w = v THEN Recorded(history[v]) ELSE history[w]
        /\ bids'[w] = IF w = v THEN Append(bids[v], now) ELSE bids[w]
        /\ history[v] \in Seq(Nat) /\ bids[v] \in Seq(Nat)
    BY <1>1, <1>2 DEF RevealBid, TypeOK
  <2>3. CASE w = v
    <3>1. KeepsTheLast(history'[w], bids'[w]) /\ InOrder(bids'[w], now')
      BY <1>1, <2>1, <2>2, <2>3, RecordedKeepsTheLast
    <3>2. ASSUME BidHistoryLimit >= RapidBidLimit PROVE BoundedBids(bids'[w])
      <4>1. IsFiniteSet(RecentNow(bids[v])) /\ Cardinality(RecentNow(bids[v])) < RapidBidLimit
        BY <1>1, <2>1, <2>2, <3>2, ForgottenBidsAreOld
      <4>2. BoundedBids(Append(bids[v], now))
        BY <1>1, <2>1, <2>2, <3>2, <4>1, AppendedBounded
      <4>. QED  BY <2>2, <2>3, <4>2
    <3>. QED  BY <3>1, <3>2
  <2>4. CASE w # v
    <3>1. history'[w] = history[w] /\ bids'[w] = bids[w]
      BY <2>2, <2>4
    <3>. QED  BY <1>1, <2>1, <3>1 DEF KeepsTheLast, InOrder
  <2>. QED  BY <2>3, <2>4
<1>3. ASSUME UNCHANGED <<history, bids>>, now' >= now, NEW w \in Validators
      PROVE  /\ KeepsTheLast(history'[w], bids'[w]) /\ InOrder(bids'[w], now')
             /\ BidHistoryLimit >= RapidBidLimit => BoundedBids(bids'[w])
  <2>1. bids[w] \in Seq(Nat) /\ now \in Nat /\ now' \in Nat
    BY <1>1 DEF TypeOK
  <2>2. \A i \in 1..Len(bids[w]) : bids[w][i] \in Nat /\ bids[w][i] <= now
    BY <1>1, <2>1 DEF InOrder
  <2>3. \A i \in 1..Len(bids[w]) : bids[w][i] <= now'
    BY <1>3, <2>1, <2>2
  <2>. QED  BY <1>1, <1>3, <2>3 DEF InOrder
<1>4. \/ UNCHANGED <<history, bids>> /\ now' >= now
      \/ \E v \in Validators, n \in Nonces, b \in Bids, h \in Heights : RevealBid(v, n, b, h)
  <2>1. now \in Nat /\ TimeSteps \subseteq Nat
    BY <1>1, AuctionConstants DEF TypeOK
  <2>2. ASSUME NEW step \in TimeSteps, NextBlock(step)
        PROVE  UNCHANGED <<history, bids>> /\ now' >= now
    BY <2>1, <2>2 DEF NextBlock
  <2>. QED
    BY <2>1, <2>2 DEF Next, Messages, Market, CommitBid, CreateBlindAuction, TransitionAuctionPhase,
         SelectAuctionWinner, CleanupOldAuctions, UpdateUserPosition, vars
<1>5. \A w \in Validators : KeepsTheLast(history'[w], bids'[w]) /\ InOrder(bids'[w], now')
  BY <1>2, <1>3, <1>4
<1>6. BidHistoryLimit >= RapidBidLimit => \A w \in Validators : BoundedBids(bids'[w])
  BY <1>2, <1>3, <1>4
<1>7. RapidBidsBounded'
  BY <1>6 DEF RapidBidsBounded, RapidBidsLimited, BoundedBids, RecentAt
<1>. QED  BY <1>1, <1>5, <1>7 DEF RapidInv

(* However a validator spreads its bids over the auctions, and however     *)
(* many of them its history has forgotten, the bids it makes never exceed  *)
(* the rapid bid limit in any window, as long as the history limit is not  *)
(* below it (ValidateAuctionBid, RecordBidHistory).                        *)
THEOREM RapidBidsStayBounded == Spec => []RapidBidsBounded
<1>1. Init => RapidInv
  <2>. SUFFICES ASSUME Init PROVE RapidInv
    OBVIOUS
  <2>1. TypeOK
    BY InitEstablishesIInv DEF IInv
  <2>2. \A v \in Validators : history[v] = << >> /\ bids[v] = << >>
    BY DEF Init
  <2>3. KeepsTheLast(<< >>, << >>) /\ InOrder(<< >>, now)
    BY AuctionConstants DEF KeepsTheLast, InOrder
  <2>. QED  BY <2>1, <2>2, <2>3 DEF RapidInv, RapidBidsBounded, RapidBidsLimited
<1>2. RapidInv => RapidBidsBounded
  BY DEF RapidInv
<1>. QED  BY <1>1, <1>2, RapidBidsKept, IInvHolds, PTL DEF Spec

-----------------------------------------------------------------------------
(* 3. The auction as a node runs it.                                       *)

NothingIsAwarded == \A h \in Heights : auctions[h].phase # "complete"

NodeInv ==
  /\ IInv
  /\ SealedUntilItsBlockEnds
  /\ NothingIsAwarded

(* What EndBlocker does to the auctions: it opens the one of its own block *)
(* if that has commitments, creates the next one, and nothing else.        *)
LEMMA EndBlockerEffect ==
  ASSUME NodeInv, NEW step \in TimeSteps, EndBlocker(step)
  PROVE  /\ auctions' = [h \in Heights |->
              IF h = height /\ auctions[h].commits # {} THEN Transitioned(auctions[h])
              ELSE IF h = height + 1 THEN Created(auctions[h]) ELSE auctions[h]]
         /\ ant' = ant
         /\ height' = height + 1 /\ height' \in 1..LastBlock /\ now' \in Nat
<1>1. height \in Heights /\ height + 1 \in Heights /\ height \in Nat
  BY NodeConstants, AuctionConstants DEF EndBlocker, NodeInv, IInv, TypeOK
<1>2. auctions[height].phase \in {"none", "commit"}
  BY <1>1 DEF NodeInv, SealedUntilItsBlockEnds
<1>. DEFINE kept == IF auctions[height].commits # {}
                    THEN Transitioned(auctions[height]) ELSE auctions[height]
            aucs == [auctions EXCEPT ![height] = kept, ![height + 1] = Created(@)]
<1>3. \A outcome \in Outcomes(auctions[height]) :
        outcome.auction = kept /\ outcome.ant = ant
  BY <1>2 DEF Outcomes
<1>4. auctions' = Cleaned(aucs, height) /\ ant' = ant
  BY <1>3 DEF EndBlocker
<1>5. \A h \in Heights : aucs[h] =
        IF h = height /\ auctions[h].commits # {} THEN Transitioned(auctions[h])
        ELSE IF h = height + 1 THEN Created(auctions[h]) ELSE auctions[h]
  BY <1>1 DEF NodeInv, IInv, TypeOK
<1>6. \A h \in Heights : aucs[h].phase # "complete"
  <2>1. \A h \in Heights : auctions[h].phase # "complete"
    BY DEF NodeInv, NothingIsAwarded
  <2>2. \A h \in Heights : Created(auctions[h]).phase # "complete"
    BY <2>1 DEF Created, NewAuction, NoAuction
  <2>3. \A h \in Heights : Transitioned(auctions[h]).phase # "complete"
    BY <2>1 DEF Transitioned, NodeInv, IInv, TypeOK, Auction
  <2>. HIDE DEF aucs
  <2>. QED  BY <1>5, <2>1, <2>2, <2>3
<1>. HIDE DEF aucs
<1>7. \A h \in Heights : Cleaned(aucs, height)[h] = aucs[h]
  BY <1>6 DEF Cleaned
<1>8. Cleaned(aucs, height) = [h \in Heights |-> aucs[h]]
  BY <1>7 DEF Cleaned
<1>9. height' = height + 1 /\ height' \in 1..LastBlock /\ now' \in Nat
  BY <1>1, AuctionConstants DEF EndBlocker, NodeInv, IInv, TypeOK
<1>. QED  BY <1>4, <1>5, <1>8, <1>9

LEMMA EndBlockerKeeps ==
  ASSUME NodeInv, NEW step \in TimeSteps, EndBlocker(step) PROVE NodeInv'
<1>1. /\ \A h \in Heights : auctions'[h] =
           IF h = height /\ auctions[h].commits # {} THEN Transitioned(auctions[h])
           ELSE IF h = height + 1 THEN Created(auctions[h]) ELSE auctions[h]
      /\ auctions' = [h \in Heights |-> auctions'[h]]
      /\ ant' = ant /\ history' = history /\ bids' = bids
      /\ height' = height + 1 /\ height' \in 1..LastBlock /\ now' \in Nat
  BY EndBlockerEffect DEF EndBlocker
<1>2. TypeOK /\ \A h \in Heights : Good(auctions[h])
  BY GoodAuctions DEF NodeInv
<1>3. \A h \in Heights : Good(auctions'[h])
  BY <1>1, <1>2, TransitionedIsGood, CreatedIsGood
<1>4. TypeOK'
  BY <1>1, <1>2, <1>3 DEF TypeOK, Good
<1>5. IInv'
  BY <1>3, <1>4
     DEF IInv, TypeOK, RevealsMatchCommits, BlindThenAwarded, Good, Tickets, Blind
<1>6. height \in Nat /\ height + 1 \in Heights /\ Heights \subseteq Nat
  BY <1>1, <1>2, NodeConstants, AuctionConstants DEF TypeOK
<1>7. \A h \in Heights :
        /\ Created(auctions[h]).phase = "none" => FALSE
        /\ auctions[h].phase \in {"none", "commit"} /\ auctions[h].reveals = << >>
             => Created(auctions[h]).phase = "commit" /\ Created(auctions[h]).reveals = << >>
        /\ auctions[h].phase # "complete" => Created(auctions[h]).phase # "complete"
  BY DEF Created, NewAuction, NoAuction
<1>8. \A h \in Heights :
        auctions[h].phase # "complete" => Transitioned(auctions[h]).phase # "complete"
  BY <1>2 DEF Transitioned, TypeOK, Auction
<1>9. SealedUntilItsBlockEnds'
  <2>1. \A h \in Heights : h >= height =>
          auctions[h].phase \in {"none", "commit"} /\ auctions[h].reveals = << >>
    BY DEF NodeInv, SealedUntilItsBlockEnds
  <2>2. \A h \in Heights : h >= height + 1 => h >= height /\ h # height
    BY <1>6
  <2>3. \A h \in Heights : h >= height + 1 =>
          /\ auctions'[h].phase \in {"none", "commit"} /\ auctions'[h].reveals = << >>
          /\ h = height + 1 => auctions'[h].phase = "commit"
    BY <1>1, <1>7, <2>1, <2>2
  <2>4. height' = height + 1
    BY <1>1
  <2>5. height + 1 >= height + 1
    BY <1>6
  <2>6. auctions'[height + 1].phase = "commit"
    BY <1>6, <2>3, <2>5
  <2>. QED  BY <2>3, <2>4, <2>6 DEF SealedUntilItsBlockEnds
<1>10. NothingIsAwarded'
  BY <1>1, <1>7, <1>8 DEF NodeInv, NothingIsAwarded
<1>. QED  BY <1>5, <1>9, <1>10 DEF NodeInv

LEMMA MessageKeeps ==
  ASSUME NodeInv, Messages PROVE NodeInv'
<1>1. ASSUME NEW v \in Validators, NEW hash \in CommitHashes, NEW g \in Heights,
             CommitBid(v, hash, g)
      PROVE  NodeInv'
  <2>1. IInv'
    BY <1>1, CommitBidKeeps DEF NodeInv
  <2>2. \A h \in Heights :
          /\ h # g => auctions'[h] = auctions[h]
          /\ h = g => /\ auctions'[h].phase = "commit"
                      /\ auctions[h].phase \in {"none", "commit"}
    BY <1>1 DEF CommitBid, Created, NewAuction, NoAuction, NodeInv, IInv, TypeOK, Auction
  <2>3. \A h \in Heights : auctions'[h].phase \in {"none", "commit"}
                             => auctions'[h].reveals = << >>
    BY <2>1 DEF IInv, BlindThenAwarded
  <2>4. height' = height /\ height \in Heights
    BY <1>1, NodeConstants, AuctionConstants DEF CommitBid, NodeInv, IInv, TypeOK
  <2>. QED  BY <2>1, <2>2, <2>3, <2>4
            DEF NodeInv, SealedUntilItsBlockEnds, NothingIsAwarded
<1>2. ASSUME NEW v \in Validators, NEW n \in Nonces, NEW b \in Bids,
             NEW g \in Heights, RevealBid(v, n, b, g)
      PROVE  NodeInv'
  <2>1. IInv'
    BY <1>2, RevealBidKeeps DEF NodeInv
  <2>2. \A h \in Heights :
          /\ h # g => auctions'[h] = auctions[h]
          /\ h = g => auctions'[h].phase = "reveal" /\ auctions[h].phase = "reveal"
    BY <1>2 DEF RevealBid, NodeInv, IInv, TypeOK, Auction
  <2>3. height' = height /\ height \in Heights
    BY <1>2, NodeConstants, AuctionConstants DEF RevealBid, NodeInv, IInv, TypeOK
  <2>. QED  BY <2>1, <2>2, <2>3
            DEF NodeInv, SealedUntilItsBlockEnds, NothingIsAwarded
<1>. QED  BY <1>1, <1>2 DEF Messages

LEMMA NodeNextKeeps == NodeInv /\ [NodeNext]_vars => NodeInv'
<1>. SUFFICES ASSUME NodeInv, [NodeNext]_vars PROVE NodeInv'
  OBVIOUS
<1>1. CASE Messages
  BY <1>1, MessageKeeps
<1>2. ASSUME UNCHANGED <<auctions, height>>, IInv' PROVE NodeInv'
  BY <1>2 DEF NodeInv, SealedUntilItsBlockEnds, NothingIsAwarded
<1>3. CASE Market
  <2>1. IInv'
    BY <1>3, NextPreservesIInv DEF Next, NodeInv
  <2>. QED  BY <1>2, <1>3, <2>1 DEF Market, UpdateUserPosition
<1>4. ASSUME NEW step \in TimeSteps, EndBlocker(step) PROVE NodeInv'
  BY <1>4, EndBlockerKeeps
<1>5. CASE UNCHANGED vars
  <2>1. IInv'
    BY <1>5, NextPreservesIInv DEF NodeInv
  <2>. QED  BY <1>2, <1>5, <2>1 DEF vars
<1>. QED  BY <1>1, <1>3, <1>4, <1>5 DEF NodeNext

LEMMA NodeInitInv == Init => NodeInv
<1>. SUFFICES ASSUME Init PROVE NodeInv
  OBVIOUS
<1>1. \A h \in Heights : auctions[h] = NoAuction
  BY DEF Init
<1>2. ~(height > 1)
  BY DEF Init
<1>. QED  BY <1>1, <1>2, InitEstablishesIInv
          DEF NodeInv, SealedUntilItsBlockEnds, NothingIsAwarded, NoAuction

LEMMA NodeInvHolds == NodeSpec => []NodeInv
BY NodeInitInv, NodeNextKeeps, PTL DEF NodeSpec

-----------------------------------------------------------------------------
(* On a node, bids for a block stay sealed until that block's EndBlocker.  *)
THEOREM BidsStaySealed == NodeSpec => []SealedUntilItsBlockEnds
BY NodeInvHolds, PTL DEF NodeInv

(* On a node no auction is ever won: an auction leaves the commit phase in *)
(* the EndBlocker of its own block, and no later EndBlocker looks at it.   *)
THEOREM NoAuctionIsEverWon == NodeSpec => []NothingIsAwarded
BY NodeInvHolds, PTL DEF NodeInv

(* What a step may do to an auction: nothing; a commitment, before or      *)
(* after its block; a ticket; the opening by its own EndBlocker; or its    *)
(* creation one block ahead.                                               *)
LEMMA StepsOfAnAuction ==
  ASSUME NodeInv, NodeNext, NEW h \in Heights, h <= height
  PROVE  \/ auctions'[h] = auctions[h]
         \/ /\ height' = height
            /\ auctions[h].phase \in {"none", "commit"}
            /\ auctions'[h].phase = "commit"
         \/ /\ height' = height
            /\ auctions[h].phase = "reveal" /\ auctions'[h].phase = "reveal"
         \/ /\ h = height
            /\ auctions[h].commits # {}
            /\ auctions'[h] = Transitioned(auctions[h])
<1>1. ASSUME NEW v \in Validators, NEW hash \in CommitHashes, NEW g \in Heights,
             CommitBid(v, hash, g)
      PROVE  \/ auctions'[h] = auctions[h]
             \/ /\ height' = height
                /\ auctions[h].phase \in {"none", "commit"}
                /\ auctions'[h].phase = "commit"
  BY <1>1 DEF CommitBid, Created, NewAuction, NoAuction, NodeInv, IInv, TypeOK, Auction
<1>2. ASSUME NEW v \in Validators, NEW n \in Nonces, NEW b \in Bids,
             NEW g \in Heights, RevealBid(v, n, b, g)
      PROVE  \/ auctions'[h] = auctions[h]
             \/ /\ height' = height
                /\ auctions[h].phase = "reveal" /\ auctions'[h].phase = "reveal"
  BY <1>2 DEF RevealBid, NodeInv, IInv, TypeOK, Auction
<1>3. ASSUME NEW step \in TimeSteps, EndBlocker(step)
      PROVE  \/ auctions'[h] = auctions[h]
             \/ /\ h = height
                /\ auctions[h].commits # {}
                /\ auctions'[h] = Transitioned(auctions[h])
  <2>1. height \in Nat /\ h # height + 1
    BY AuctionConstants DEF NodeInv, IInv, TypeOK
  <2>. QED  BY <1>3, <2>1, EndBlockerEffect
<1>4. CASE Market
  BY <1>4 DEF Market, UpdateUserPosition
<1>. QED  BY <1>1, <1>2, <1>3, <1>4 DEF NodeNext, Messages

(* A commitment for a block that has ended unopened is never opened: no    *)
(* step takes a past auction out of the commit phase.                      *)
THEOREM LateCommitmentsAreDead == NodeSpec => LateCommitmentsNeverOpen
<1>1. NodeInv /\ [NodeNext]_vars => [LateCommitmentsStep]_vars
  <2>. SUFFICES ASSUME NodeInv, NodeNext, NEW h \in Heights, h < height,
                       auctions[h].phase \in {"none", "commit"}
                PROVE  auctions'[h].phase \in {"none", "commit"}
    BY DEF LateCommitmentsStep
  <2>1. h <= height /\ h # height
    BY AuctionConstants DEF NodeInv, IInv, TypeOK
  <2>. QED  BY <2>1, StepsOfAnAuction
<1>. QED  BY <1>1, NodeInvHolds, PTL DEF NodeSpec, LateCommitmentsNeverOpen

(* A commitment made in time is opened by its block's EndBlocker and can   *)
(* be revealed ever after: no step closes an opened auction again.         *)
THEOREM TimelyCommitmentsAreOpened == NodeSpec => TimelyCommitmentsOpen
<1>1. NodeInv /\ [NodeNext]_vars => [TimelyCommitmentsStep]_vars
  <2>. SUFFICES ASSUME NodeInv, NodeNext, NEW h \in Heights,
                       auctions[h].commits # {}
                PROVE  /\ h = height /\ height' # height => auctions'[h].phase = "reveal"
                       /\ h < height /\ auctions[h].phase = "reveal"
                            => auctions'[h].phase = "reveal"
    BY DEF TimelyCommitmentsStep
  <2>1. ASSUME h = height, height' # height PROVE auctions'[h].phase = "reveal"
    <3>1. PICK step \in TimeSteps : EndBlocker(step)
      BY <2>1 DEF NodeNext, Messages, Market, CommitBid, RevealBid, UpdateUserPosition
    <3>2. auctions'[h] = Transitioned(auctions[h])
      BY <2>1, <3>1, EndBlockerEffect
    <3>3. auctions[h].phase = "commit" /\ auctions[h] \in Auction
      <4>1. auctions[h].phase \in {"none", "commit"}
        BY <2>1, AuctionConstants DEF NodeInv, SealedUntilItsBlockEnds, IInv, TypeOK
      <4>2. auctions[h].phase # "none"
        BY DEF NodeInv, IInv, BlindThenAwarded
      <4>. QED  BY <4>1, <4>2 DEF NodeInv, IInv, TypeOK
    <3>. QED  BY <3>2, <3>3 DEF Transitioned, Auction
  <2>2. ASSUME h < height, auctions[h].phase = "reveal" PROVE auctions'[h].phase = "reveal"
    <3>1. h <= height /\ h # height
      BY <2>2, AuctionConstants DEF NodeInv, IInv, TypeOK
    <3>. QED  BY <2>2, <3>1, StepsOfAnAuction
  <2>. QED  BY <2>1, <2>2
<1>. QED  BY <1>1, NodeInvHolds, PTL DEF NodeSpec, TimelyCommitmentsOpen

-----------------------------------------------------------------------------
(* 4. The refinement.                                                      *)

(* A commitment is what the mapping seals its validator to.                *)
LEMMA SealedIsCommitted ==
  ASSUME NEW a, Good(a), NEW c \in a.commits
  PROVE  /\ c.validator \in Validators /\ HasCommitted(a, c.validator)
         /\ SealedOf(a)[c.validator] = c.hash.bid
         /\ c.hash.bid \in Bids \union {0} /\ c.hash.bid # NoBid
<1>1. c \in Commits
  BY DEF Good, Auction
<1>2. c.validator \in Validators /\ c.hash \in CommitHashes
  BY <1>1 DEF Commits
<1>3. c.hash.bid \in Bids \union {0} /\ c.hash.bid # NoBid
  <2>1. CASE c.hash \in [nonce : Nonces, bid : Bids]
    BY <2>1, AuctionConstants, NoBidConstant
  <2>2. CASE c.hash = Junk
    BY <2>2, NoBidConstant DEF Junk
  <2>. QED  BY <1>2, <2>1, <2>2 DEF CommitHashes
<1>4. (CHOOSE d \in a.commits : d.validator = c.validator) = c
  BY DEF Good, Tickets
<1>. QED  BY <1>2, <1>3, <1>4 DEF SealedOf, HasCommitted

(* A ticket is the bid the mapping has its validator open, and the one it  *)
(* was sealed to.                                                          *)
LEMMA OpenedIsRevealed ==
  ASSUME NEW a, Good(a), NEW i \in DOMAIN a.reveals
  PROVE  LET v == a.reveals[i].validator IN
         /\ v \in Validators /\ HasRevealed(a, v)
         /\ OpenedOf(a)[v] = a.reveals[i].bid
         /\ SealedOf(a)[v] = a.reveals[i].bid
         /\ a.reveals[i].bid # NoBid
<1>. DEFINE r == a.reveals[i]
<1>1. r \in Reveals
  BY DEF Good, Auction
<1>2. r.validator \in Validators /\ r.bid # NoBid
  BY <1>1, AuctionConstants, NoBidConstant DEF Reveals
<1>3. (CHOOSE j \in DOMAIN a.reveals : a.reveals[j].validator = r.validator) = i
  BY DEF Good, Tickets
<1>4. HasRevealed(a, r.validator) /\ OpenedOf(a)[r.validator] = r.bid
  BY <1>2, <1>3 DEF OpenedOf, HasRevealed
<1>5. PICK c \in a.commits : /\ c.validator = r.validator
                             /\ c.hash = HashCommit(r.nonce, r.bid)
  BY DEF Good, Tickets
<1>6. c.hash.bid = r.bid
  BY <1>5 DEF HashCommit
<1>7. SealedOf(a)[r.validator] = r.bid
  BY <1>5, <1>6, SealedIsCommitted
<1>. QED  BY <1>2, <1>4, <1>7

(* The mapped state does not change when the auction does not, and nothing *)
(* else of the keeper is in it.                                            *)
LEMMA SameAuction ==
  ASSUME NEW h \in Heights, auctions'[h] = auctions[h]
  PROVE  UNCHANGED Sealed(h)!vars
BY DEF Sealed!vars

LEMMA CreatedMaps ==
  ASSUME NEW h \in Heights, Good(auctions[h]), auctions'[h] = Created(auctions[h])
  PROVE  UNCHANGED Sealed(h)!vars
<1>1. CASE auctions[h].phase = "none"
  <2>1. /\ auctions'[h].phase = "commit" /\ auctions'[h].commits = auctions[h].commits
        /\ auctions'[h].reveals = auctions[h].reveals
    BY <1>1 DEF Created, NewAuction, NoAuction, Good, Blind
  <2>. QED  BY <1>1, <2>1
            DEF Sealed!vars, StageOf, SealedOf, OpenedOf, AwardOf, HasCommitted, HasRevealed
<1>2. CASE auctions[h].phase # "none"
  BY <1>2, SameAuction DEF Created
<1>. QED  BY <1>1, <1>2

(* CommitBid is Seal, of the bid inside the commitment.                    *)
LEMMA CommittedMaps ==
  ASSUME IInv, NEW v \in Validators, NEW hash \in CommitHashes, NEW h \in Heights,
         CommitBid(v, hash, h)
  PROVE  Sealed(h)!Next
<1>. DEFINE a == Created(auctions[h])
            new == [validator |-> v, hash |-> hash]
            b == auctions'[h]
<1>1. Good(a) /\ a.phase = "commit" /\ \A c \in a.commits : c.validator # v
  BY GoodAuctions, CreatedIsGood DEF CommitBid
<1>2. auctions'[h] = [a EXCEPT !.commits = @ \union {new}]
  BY DEF CommitBid, IInv, TypeOK
<1>3. /\ b.phase = "commit" /\ b.commits = a.commits \union {new}
      /\ b.reveals = << >> /\ a.reveals = << >>
  BY <1>1, <1>2 DEF Good, Auction, Blind
<1>4. /\ auctions[h].phase \in {"none", "commit"} /\ auctions[h].commits = a.commits
      /\ auctions[h].reveals = << >>
  BY <1>1, GoodAuctions DEF Created, NewAuction, NoAuction, Good, Blind
<1>5. Good(b)
  BY <1>1, <1>2, CommittedIsGood
<1>6. new \in b.commits /\ new.validator = v /\ new.hash = hash
  BY <1>3
<1>7. SealedOf(b)[v] = hash.bid /\ hash.bid \in Bids \union {0}
  BY <1>5, <1>6, SealedIsCommitted
<1>8. SealedOf(auctions[h])[v] = NoBid
  BY <1>1, <1>4 DEF SealedOf, HasCommitted
<1>9. \A w \in Validators : w # v => SealedOf(b)[w] = SealedOf(auctions[h])[w]
  <2>. SUFFICES ASSUME NEW w \in Validators, w # v
                PROVE  SealedOf(b)[w] = SealedOf(auctions[h])[w]
    OBVIOUS
  <2>1. CASE \E c \in a.commits : c.validator = w
    <3>1. PICK c \in a.commits : c.validator = w
      BY <2>1
    <3>2. Good(auctions[h]) /\ c \in auctions[h].commits /\ c \in b.commits
      BY <1>3, <1>4, GoodAuctions
    <3>. HIDE DEF b
    <3>. QED  BY <1>5, <3>1, <3>2, SealedIsCommitted
  <2>2. CASE \A c \in a.commits : c.validator # w
    <3>1. ~HasCommitted(b, w) /\ ~HasCommitted(auctions[h], w)
      BY <1>3, <1>4, <2>2 DEF HasCommitted
    <3>. QED  BY <3>1 DEF SealedOf
  <2>. QED  BY <2>1, <2>2
<1>10. SealedOf(b) = [SealedOf(auctions[h]) EXCEPT ![v] = hash.bid]
  <2>1. /\ SealedOf(b) = [w \in Validators |-> SealedOf(b)[w]]
        /\ SealedOf(auctions[h]) = [w \in Validators |-> SealedOf(auctions[h])[w]]
    BY DEF SealedOf
  <2>. HIDE DEF b
  <2>. QED  BY <1>7, <1>9, <2>1
<1>11. /\ StageOf(auctions[h]) = "bidding" /\ StageOf(b) = "bidding"
       /\ OpenedOf(b) = OpenedOf(auctions[h]) /\ AwardOf(b) = AwardOf(auctions[h])
  BY <1>3, <1>4 DEF StageOf, OpenedOf, AwardOf, HasRevealed
<1>12. Sealed(h)!Seal(v, hash.bid)
  BY <1>8, <1>10, <1>11 DEF Sealed!Seal
<1>. QED  BY <1>7, <1>12 DEF Sealed!Next

(* RevealBid is Open.                                                      *)
LEMMA RevealedMaps ==
  ASSUME IInv, NEW v \in Validators, NEW n \in Nonces, NEW bid \in Bids,
         NEW h \in Heights, RevealBid(v, n, bid, h)
  PROVE  Sealed(h)!Next
<1>. DEFINE a == auctions[h]
            new == [validator |-> v, nonce |-> n, bid |-> bid]
            b == auctions'[h]
            last == Len(a.reveals) + 1
<1>1. Good(a) /\ a.phase = "reveal" /\ ~HasRevealed(a, v)
  BY GoodAuctions DEF RevealBid
<1>2. Good([a EXCEPT !.reveals = Append(@, new)])
  BY <1>1, RevealedIsGood DEF RevealBid
<1>3. b = [a EXCEPT !.reveals = Append(@, new)]
  BY DEF RevealBid, IInv, TypeOK
<1>4. b.phase = "reveal" /\ b.commits = a.commits /\ b.reveals = Append(a.reveals, new)
  BY <1>1, <1>3 DEF Good, Auction
<1>5. /\ DOMAIN b.reveals = (DOMAIN a.reveals) \union {last}
      /\ b.reveals[last] = new
      /\ \A i \in DOMAIN a.reveals : b.reveals[i] = a.reveals[i]
  <2>1. a.reveals \in Seq(Reveals) /\ new \in Reveals
    BY <1>1 DEF Good, Auction, Reveals
  <2>. QED  BY <1>4, <2>1
<1>6. Good(b)
  BY <1>2, <1>3
<1>. HIDE DEF b, last
<1>7. last \in DOMAIN b.reveals /\ b.reveals[last].validator = v
      /\ b.reveals[last].bid = bid
  BY <1>5
<1>8. OpenedOf(b)[v] = bid /\ SealedOf(b)[v] = bid /\ bid # NoBid
  BY <1>6, <1>7, OpenedIsRevealed
<1>9. SealedOf(b) = SealedOf(a)
  BY <1>4 DEF SealedOf, HasCommitted
<1>10. OpenedOf(a)[v] = NoBid
  BY <1>1 DEF OpenedOf
<1>11. \A w \in Validators : w # v => OpenedOf(b)[w] = OpenedOf(a)[w]
  <2>. SUFFICES ASSUME NEW w \in Validators, w # v
                PROVE  OpenedOf(b)[w] = OpenedOf(a)[w]
    OBVIOUS
  <2>1. CASE HasRevealed(a, w)
    <3>1. PICK i \in DOMAIN a.reveals : a.reveals[i].validator = w
      BY <2>1 DEF HasRevealed
    <3>2. OpenedOf(a)[w] = a.reveals[i].bid
      BY <1>1, <3>1, OpenedIsRevealed
    <3>3. i \in DOMAIN b.reveals /\ b.reveals[i] = a.reveals[i]
      BY <1>5
    <3>4. OpenedOf(b)[w] = b.reveals[i].bid
      BY <1>6, <3>1, <3>3, OpenedIsRevealed
    <3>. QED  BY <3>2, <3>3, <3>4
  <2>2. CASE ~HasRevealed(a, w)
    <3>1. ~HasRevealed(b, w)
      BY <1>5, <2>2 DEF HasRevealed
    <3>. QED  BY <2>2, <3>1 DEF OpenedOf
  <2>. QED  BY <2>1, <2>2
<1>12. OpenedOf(b) = [OpenedOf(a) EXCEPT ![v] = SealedOf(a)[v]]
  <2>1. /\ OpenedOf(b) = [w \in Validators |-> OpenedOf(b)[w]]
        /\ OpenedOf(a) = [w \in Validators |-> OpenedOf(a)[w]]
    BY DEF OpenedOf
  <2>. QED  BY <1>8, <1>9, <1>11, <2>1
<1>13. /\ StageOf(a) = "opening" /\ StageOf(b) = "opening"
       /\ AwardOf(b) = AwardOf(a)
  BY <1>1, <1>4 DEF StageOf, AwardOf
<1>14. SealedOf(a)[v] # NoBid
  BY <1>8, <1>9
<1>15. Sealed(h)!Open(v)
  BY <1>9, <1>10, <1>12, <1>13, <1>14 DEF Sealed!Open, b
<1>. QED  BY <1>15 DEF Sealed!Next

(* TransitionAuctionPhase is Close, or no step of the auction.             *)
LEMMA TransitionedMaps ==
  ASSUME IInv, NEW h \in Heights, auctions'[h] = Transitioned(auctions[h])
  PROVE  [Sealed(h)!Next]_(Sealed(h)!vars)
<1>1. Good(auctions[h])
  BY GoodAuctions
<1>2. CASE auctions[h].phase = "commit"
  <2>1. /\ auctions'[h].phase = "reveal" /\ auctions'[h].commits = auctions[h].commits
        /\ auctions'[h].reveals = auctions[h].reveals
    BY <1>1, <1>2 DEF Transitioned, Good, Auction
  <2>2. Sealed(h)!Close
    BY <1>2, <2>1
       DEF Sealed!Close, StageOf, SealedOf, OpenedOf, AwardOf, HasCommitted, HasRevealed
  <2>. QED  BY <2>2 DEF Sealed!Next
<1>3. CASE auctions[h].phase # "commit"
  BY <1>3, SameAuction DEF Transitioned
<1>. QED  BY <1>2, <1>3

(* SelectAuctionWinner is Award, to the owner of the ticket drawn.         *)
LEMMA AwardedMaps ==
  ASSUME IInv, NEW h \in Heights, SelectAuctionWinner(h)
  PROVE  Sealed(h)!Next
<1>1. PICK i \in DOMAIN auctions[h].reveals :
        auctions' = [auctions EXCEPT ![h] = Awarded(@, auctions[h].reveals[i])]
  BY DEF SelectAuctionWinner
<1>. DEFINE a == auctions[h]
            r == a.reveals[i]
            b == auctions'[h]
<1>2. Good(a) /\ a.phase = "reveal"
  BY GoodAuctions DEF SelectAuctionWinner
<1>3. b = Awarded(a, r)
  BY <1>1 DEF IInv, TypeOK
<1>4. /\ b.phase = "complete" /\ b.commits = a.commits /\ b.reveals = a.reveals
      /\ b.winner = r.validator /\ b.winningBid = r.bid
  BY <1>2, <1>3 DEF Awarded, Good, Auction
<1>5. r.validator \in Validators /\ OpenedOf(a)[r.validator] = r.bid /\ r.bid # NoBid
  BY <1>2, OpenedIsRevealed
<1>. HIDE DEF r, b
<1>6. SealedOf(b) = SealedOf(a) /\ OpenedOf(b) = OpenedOf(a)
  BY <1>4 DEF SealedOf, OpenedOf, HasCommitted, HasRevealed
<1>7. /\ StageOf(a) = "opening" /\ StageOf(b) = "awarded"
      /\ AwardOf(b) = [winner |-> r.validator, price |-> r.bid]
  BY <1>2, <1>4 DEF StageOf, AwardOf
<1>8. Sealed(h)!Award(r.validator)
  BY <1>5, <1>6, <1>7 DEF Sealed!Award, b
<1>. QED  BY <1>5, <1>8 DEF Sealed!Next

(* Deleting a complete auction is Forget.                                  *)
LEMMA DeletedMaps ==
  ASSUME NEW h \in Heights, auctions[h].phase = "complete", auctions'[h] = NoAuction
  PROVE  Sealed(h)!Next
<1>1. /\ auctions'[h].phase = "none" /\ auctions'[h].commits = {}
      /\ auctions'[h].reveals = << >>
  BY DEF NoAuction
<1>2. Sealed(h)!Forget
  BY <1>1 DEF Sealed!Forget, Sealed!NoBids, Sealed!NoAward, StageOf, SealedOf, OpenedOf,
              AwardOf, HasCommitted, HasRevealed
<1>. QED  BY <1>2 DEF Sealed!Next

-----------------------------------------------------------------------------
(* The auction of every height is a sealed-bid auction, whatever is done   *)
(* to the auctions of the other heights, to the balances and to the clock. *)
THEOREM BlindAuctionIsSealedBid == Spec => ImplementsSealedBid
<1>1. Init => \A h \in Heights : Sealed(h)!Init
  BY DEF Init, Sealed!Init, Sealed!NoBids, Sealed!NoAward, StageOf, SealedOf, OpenedOf,
         AwardOf, HasRevealed, HasCommitted, NoAuction
<1>2. IInv /\ [Next]_vars => [\A h \in Heights : [Sealed(h)!Next]_(Sealed(h)!vars)]_vars
  <2>. SUFFICES ASSUME IInv, Next, NEW h \in Heights
                PROVE  [Sealed(h)!Next]_(Sealed(h)!vars)
    OBVIOUS
  <2>0. Good(auctions[h]) /\ auctions \in [Heights -> Auction]
    BY GoodAuctions DEF TypeOK
  <2>. USE <2>0
  <2>1. ASSUME NEW v \in Validators, NEW hash \in CommitHashes, NEW g \in Heights,
               CommitBid(v, hash, g)
        PROVE  [Sealed(h)!Next]_(Sealed(h)!vars)
    <3>1. CASE g = h  BY <2>1, <3>1, CommittedMaps
    <3>2. CASE g # h  BY <2>1, <3>2, SameAuction DEF CommitBid
    <3>. QED  BY <3>1, <3>2
  <2>2. ASSUME NEW v \in Validators, NEW n \in Nonces, NEW b \in Bids,
               NEW g \in Heights, RevealBid(v, n, b, g)
        PROVE  [Sealed(h)!Next]_(Sealed(h)!vars)
    <3>1. CASE g = h  BY <2>2, <3>1, RevealedMaps
    <3>2. CASE g # h  BY <2>2, <3>2, SameAuction DEF RevealBid
    <3>. QED  BY <3>1, <3>2
  <2>3. ASSUME NEW g \in Heights, CreateBlindAuction(g)
        PROVE  [Sealed(h)!Next]_(Sealed(h)!vars)
    <3>1. CASE g = h  BY <2>3, <3>1, CreatedMaps DEF CreateBlindAuction
    <3>2. CASE g # h  BY <2>3, <3>2, SameAuction DEF CreateBlindAuction
    <3>. QED  BY <3>1, <3>2
  <2>4. ASSUME NEW g \in Heights, TransitionAuctionPhase(g)
        PROVE  [Sealed(h)!Next]_(Sealed(h)!vars)
    <3>1. CASE g = h  BY <2>4, <3>1, TransitionedMaps DEF TransitionAuctionPhase
    <3>2. CASE g # h  BY <2>4, <3>2, SameAuction DEF TransitionAuctionPhase
    <3>. QED  BY <3>1, <3>2
  <2>5. ASSUME NEW g \in Heights, SelectAuctionWinner(g)
        PROVE  [Sealed(h)!Next]_(Sealed(h)!vars)
    <3>1. CASE g = h  BY <2>5, <3>1, AwardedMaps
    <3>2. CASE g # h  BY <2>5, <3>2, SameAuction DEF SelectAuctionWinner
    <3>. QED  BY <3>1, <3>2
  <2>6. CASE CleanupOldAuctions
    <3>1. \/ auctions'[h] = auctions[h]
          \/ auctions[h].phase = "complete" /\ auctions'[h] = NoAuction
      BY <2>6 DEF CleanupOldAuctions, Cleaned
    <3>. QED  BY <3>1, SameAuction, DeletedMaps
  <2>7. CASE Market \/ \E step \in TimeSteps : NextBlock(step)
    BY <2>7, SameAuction DEF Market, UpdateUserPosition, NextBlock
  <2>. QED  BY <2>1, <2>2, <2>3, <2>4, <2>5, <2>6, <2>7 DEF Next, Messages
<1>. QED  BY <1>1, <1>2, IInvHolds, PTL DEF Spec, ImplementsSealedBid
=============================================================================
