----------------------------- MODULE Consensus ------------------------------
(***************************************************************************)
(* Block creation in x/consensus: its BeginBlocker and EndBlocker, the     *)
(* messages between them, and a new chain started from an exported         *)
(* genesis.  The blind auction, which the EndBlocker also runs, is         *)
(* AuctionNode; it shares no state with what is modelled here.             *)
(***************************************************************************)
EXTENDS LicenseStore

CONSTANTS
  HalvingInterval,
  BaseBlockReward,
  UintWidth,           \* 2^64, the width the shares are computed in
  Thresholds,          \* MOA penalty thresholds in hundredths
  AverageBlockTimeWindowSize,
  DefaultBlockTime,
  TimeSteps,           \* distances between blocks
  Weights,             \* weights SetValidatorWeight may give
  BankOutcomes,        \* what the bank may answer: "panic" if the module may not mint
  LastBlock,           \* bound on the height
  MaxRestarts,         \* bound on the new chains
  NoValidator, NoGap

ASSUME ConsensusConstants ==
  /\ HalvingInterval \in Nat \ {0} /\ BaseBlockReward \in Nat /\ UintWidth \in Nat \ {0}
  /\ Thresholds \in [{"high", "warning", "medium", "low"} -> Nat]
  /\ AverageBlockTimeWindowSize \in Nat \ {0} /\ DefaultBlockTime \in Nat
  /\ TimeSteps \subseteq Nat /\ Weights \subseteq Nat \ {0}
  /\ BankOutcomes \subseteq {"paid", "not minted", "not sent", "panic"}
  /\ LastBlock \in Nat /\ MaxRestarts \in Nat
  /\ NoValidator \notin Validators /\ NoGap \notin Nat

VARIABLES
  height, inBlock,     \* the block, and whether its EndBlocker is still to come
  elapsed,             \* time since the block before
  gaps,                \* recorded block times, as distances to the block before
  average,             \* average block time
  halving,             \* HalvingInfo: last and next halving height
  consensusState,      \* stored height and active validators
  creators,            \* block creators by height
  payout,              \* WRT the block just ended paid, counted and left unsent
  halted,              \* whether an EndBlocker has panicked
  restarts

chain == <<height, inBlock, elapsed, gaps, average, halving, consensusState, creators,
           halted, restarts>>
vars == <<store, chain, payout>>

Heights == 1..(LastBlock + 1)

TypeOK ==
  /\ StoreTypeOK
  /\ height \in 0..LastBlock /\ inBlock \in BOOLEAN /\ elapsed \in TimeSteps \cup {0}
  /\ gaps \in [Heights -> Nat \cup {NoGap}]
  /\ average \in Nat
  /\ halving \in [last : Nat, next : Nat]
  /\ consensusState \in [height : Nat, active : SUBSET Validators]
  /\ creators \in [Heights -> Validators \cup {NoValidator}]
  /\ payout \in [paid : [Validators -> Nat], counted : [Validators -> Nat], unsent : Nat]
  /\ halted \in BOOLEAN /\ restarts \in 0..MaxRestarts

(* InitGenesis: halving starts over, whatever the genesis says.            *)
GenesisHalving == [last |-> 0, next |-> HalvingInterval]
GenesisState == [height |-> 0, active |-> {}]
NoGaps == [h \in Heights |-> NoGap]
NoAmounts == [v \in Validators |-> 0]
NoPayout == [paid |-> NoAmounts, counted |-> NoAmounts, unsent |-> 0]

Init ==
  /\ EmptyStore
  /\ height = 0 /\ inBlock = FALSE /\ elapsed = 0
  /\ gaps = NoGaps /\ average = DefaultBlockTime
  /\ halving = GenesisHalving /\ consensusState = GenesisState
  /\ creators = [h \in Heights |-> NoValidator]
  /\ payout = NoPayout
  /\ halted = FALSE /\ restarts = 0

-----------------------------------------------------------------------------
(* Mutant: the next halving is counted from the block that finds it due.   *)
HalvedFromHere(info, h) ==
  IF h > info.next THEN [last |-> h, next |-> h + HalvingInterval] ELSE info

(* ProcessHalving at height h.  The estimated date is not stored.          *)
Halved(info, h) ==
  IF h >= info.next
  THEN [last |-> info.next, next |-> info.next + HalvingInterval] ELSE info

Active == {v \in Validators : registered[v] = "active"}

(* What both blockers store.  The total of burned ANT, which they take for *)
(* the sum of the weights, is left out.                                    *)
ConsensusStateAt(h) == [height |-> h, active |-> Active]

(* BeginBlocker of the next block.  Balances, reward statistics and the    *)
(* module account are the sums of the payouts, which start anew here.      *)
BeginBlocker(step) ==
  /\ ~inBlock /\ height < LastBlock
  /\ height' = height + 1 /\ inBlock' = TRUE /\ elapsed' = step
  /\ consensusState' = ConsensusStateAt(height + 1)
  /\ halving' = Halved(halving, height + 1)
  /\ payout' = NoPayout
  /\ UNCHANGED <<store, gaps, average, creators, halted, restarts>>

-----------------------------------------------------------------------------
(* RecordBlockTime: the first block of a chain has nothing before it.      *)
Recorded == IF height > 1 THEN [gaps EXCEPT ![height] = elapsed] ELSE gaps

(* Mutant: the window lies one block too far back.                         *)
WindowBehind(recorded) ==
  LET start == IF height > AverageBlockTimeWindowSize
               THEN height - AverageBlockTimeWindowSize ELSE 0
  IN {h \in Heights : start < h /\ h < height /\ recorded[h] # NoGap}

(* The blocks updateAverageBlockTime measures: the first of the window     *)
(* only serves as the start of the second.                                 *)
Window(recorded) ==
  LET start == IF height > AverageBlockTimeWindowSize
               THEN height - AverageBlockTimeWindowSize ELSE 0
  IN {h \in Heights : start + 1 < h /\ h <= height /\ recorded[h] # NoGap}

(* With nothing to measure the average stays as it is.                     *)
Averaged(recorded) ==
  LET window == Window(recorded) IN
    IF window = {} THEN average
    ELSE SumFunctionOnSet(recorded, window) \div Cardinality(window)

(* CalculateBaseReward halves by the height, not by the stored HalvingInfo.*)
CalculateBaseReward(h) ==
  LET halved == BaseBlockReward \div (2 ^ (h \div HalvingInterval))
  IN IF halved = 0 THEN 1 ELSE halved

(* CalculateMOAPenaltyMultiplier, in hundredths.                           *)
PenaltyMultiplier(v) ==
  IF ComplianceAtLeast(v, Thresholds["high"]) \/ ComplianceAtLeast(v, Thresholds["warning"])
  THEN 100
  ELSE IF ComplianceAtLeast(v, Thresholds["medium"]) THEN 75
  ELSE IF ComplianceAtLeast(v, Thresholds["low"]) THEN 50
  ELSE 0

BaseRewardAmount(v, reward) ==
  ((reward * licenses[v]) % UintWidth) \div GetTotalActivatedLizenz(licenses)

(* Mutant: shares are rounded up.                                          *)
FinalRewardRoundedUp(v, reward) ==
  1 + (BaseRewardAmount(v, reward) * PenaltyMultiplier(v)) \div 100

FinalReward(v, reward) == (BaseRewardAmount(v, reward) * PenaltyMultiplier(v)) \div 100

Compliant == {v \in Holders : ComplianceAtLeast(v, 100)}

(* CalculateRewardDistribution: what rounding and penalties leave goes to  *)
(* the compliant validator the map iteration meets first.                  *)
Distributions(reward) ==
  LET final == [v \in Validators |-> IF Licensed(v) THEN FinalReward(v, reward) ELSE 0]
      remainder == reward - SumFunction(final)
  IN IF remainder > 0 /\ Compliant # {}
     THEN {[final EXCEPT ![v] = @ + remainder] : v \in Compliant}
     ELSE {final}

(* UpdateRewardStats writes the license back, so it fails for a validator  *)
(* over the 33% limit, and the reward is paid but not counted.             *)
Counted(amounts) == [v \in Validators |-> IF MayUpdate(v) THEN amounts[v] ELSE 0]

(* DistributeBaseRewards: statistics first, then one mint and one send per *)
(* license, whose failures are logged and skipped.  A refused mint is not  *)
(* a failure: bank's MintCoins panics if the account of the module has no  *)
(* permission to mint, as it has none in the application (maccPerms).      *)
DistributeBaseRewards(amounts, outcome) ==
  [paid    |-> [v \in Validators |->
                  IF v \in Holders /\ outcome[v] = "paid" THEN amounts[v] ELSE 0],
   counted |-> Counted(amounts),
   unsent  |-> SumFunctionOnSet(amounts, {v \in Holders : outcome[v] = "not sent"})]

Panics(outcome) == \E v \in Holders : outcome[v] = "panic"

EndBlocker ==
  /\ inBlock /\ ~halted
  /\ inBlock' = FALSE
  /\ gaps' = Recorded
  /\ average' = Averaged(Recorded)
  /\ consensusState' = ConsensusStateAt(height)
  /\ IF Holders = {} THEN UNCHANGED payout
     ELSE \E amounts \in Distributions(CalculateBaseReward(height)),
             outcome \in [Holders -> BankOutcomes] :
            /\ ~Panics(outcome)
            /\ payout' = DistributeBaseRewards(amounts, outcome)
  /\ halving' = Halved(halving, height)
  /\ UNCHANGED <<store, height, elapsed, creators, halted, restarts>>

(* A panic of the EndBlocker: nothing of the block is stored, and every    *)
(* node that tries it again meets the same panic.                          *)
EndBlockerPanics ==
  /\ inBlock /\ ~halted
  /\ \E outcome \in [Holders -> BankOutcomes] : Panics(outcome)
  /\ halted' = TRUE
  /\ UNCHANGED <<store, height, inBlock, elapsed, gaps, average, halving, consensusState,
                 creators, payout, restarts>>

-----------------------------------------------------------------------------
(* The messages of a block.  Those with an authority compare it with one   *)
(* fixed name.                                                             *)
ActivateLZN(v, n) ==
  /\ inBlock /\ ~halted /\ SetActivatedLizenz(v, n)
  /\ UNCHANGED <<chain, payout>>

DeactivateLZN(v) ==
  /\ inBlock /\ ~halted /\ DeleteActivatedLizenz(v)
  /\ UNCHANGED <<chain, payout>>

Report(v, report) ==
  /\ inBlock /\ ~halted /\ SetMOAStatus(v, report)
  /\ UNCHANGED <<chain, payout>>

SetValidatorWeight(v, w) ==
  /\ inBlock /\ ~halted
  /\ weights' = [weights EXCEPT ![v] = w]
  /\ UNCHANGED <<licenses, bank, moa, registered, positions, chain, payout>>

UpdateConsensusState(h, active) ==
  /\ inBlock /\ ~halted
  /\ consensusState' = [height |-> h, active |-> active]
  /\ UNCHANGED <<store, height, inBlock, elapsed, gaps, average, halving, creators, halted,
                 restarts, payout>>

ProcessHalving ==
  /\ inBlock /\ ~halted
  /\ halving' = Halved(halving, height)
  /\ UNCHANGED <<store, height, inBlock, elapsed, gaps, average, consensusState, creators,
                 halted, restarts, payout>>

(* GetAllValidators reads by a prefix that the keys of the weights share:  *)
(* a validator takes part by its record, by its weight, or by both.        *)
Candidates == {v \in Validators : registered[v] # "none" \/ weights[v] > 0}

(* A weight read as a validator is its ANT balance; activation leaves the  *)
(* balance of a real record at 0.                                          *)
Weighted ==
  {v \in Candidates : Licensed(v) \/ weights[v] > 0 \/ registered[v] = "dormant"}

(* SelectBlockCreator for the next height.  The auction of that height is  *)
(* still taking commitments (AuctionNode!SealedUntilItsBlockEnds), so the  *)
(* lottery decides: anybody with a weight, or anybody if nobody has one.   *)
SelectBlockCreator ==
  /\ inBlock /\ ~halted
  /\ \E v \in (IF Weighted # {} THEN Weighted ELSE Candidates) :
       creators' = [creators EXCEPT ![height + 1] = v]
  /\ UNCHANGED <<store, height, inBlock, elapsed, gaps, average, halving, consensusState,
                 halted, restarts, payout>>

-----------------------------------------------------------------------------
(* Mutant: where both exist, the weight read as a validator is kept.       *)
ImportedLast ==
  [v \in Validators |->
     IF weights[v] > 0 THEN "dormant" ELSE registered[v]]

(* InitGenesis stores the exported validators in the order of their keys:  *)
(* the weights come first, as validators without a status, and a real      *)
(* record overwrites them.                                                 *)
Imported ==
  [v \in Validators |->
     IF registered[v] = "none" /\ weights[v] > 0 THEN "dormant" ELSE registered[v]]

(* A new chain from the exported genesis.  The bank keeps its balances and *)
(* x/consensus its validators and creators; licenses, MOA statuses, ANT    *)
(* positions, weights and block times are not exported.                    *)
Restart ==
  /\ ~inBlock /\ height > 0 /\ restarts < MaxRestarts
  /\ restarts' = restarts + 1
  /\ registered' = Imported
  /\ licenses' = [v \in Validators |-> 0]
  /\ weights' = [v \in Validators |-> 0]
  /\ positions' = [v \in Validators |-> 0]
  /\ moa' = [v \in Validators |-> NoStatus]
  /\ height' = 0 /\ elapsed' = 0 /\ payout' = NoPayout
  /\ gaps' = NoGaps /\ average' = DefaultBlockTime
  /\ halving' = GenesisHalving /\ consensusState' = GenesisState
  /\ UNCHANGED <<bank, inBlock, creators, halted>>

Next ==
  \/ \E step \in TimeSteps : BeginBlocker(step)
  \/ EndBlocker
  \/ EndBlockerPanics
  \/ \E v \in Validators, n \in Amounts : ActivateLZN(v, n)
  \/ \E v \in Validators : DeactivateLZN(v)
  \/ \E v \in Validators, r \in Reports : Report(v, r)
  \/ \E v \in Validators, w \in Weights : SetValidatorWeight(v, w)
  \/ UpdateConsensusState(LastBlock + 1, {})
  \/ ProcessHalving
  \/ SelectBlockCreator
  \/ Restart

Spec == Init /\ [][Next]_vars

-----------------------------------------------------------------------------
(* Halvings keep to the grid of the interval although three callers, twice *)
(* a block and on demand, run the same code, and a new chain starts the    *)
(* grid anew: the recorded halvings are those CalculateBaseReward counts.  *)
HalvingsMatchRewards ==
  /\ halving.last = HalvingInterval * (height \div HalvingInterval)
  /\ halving.next = halving.last + HalvingInterval

LastEnded == IF inBlock THEN height - 1 ELSE height

RecentGaps ==
  {gaps[h] : h \in {k \in Heights : /\ LastEnded - AverageBlockTimeWindowSize + 1 < k
                                    /\ k <= LastEnded /\ gaps[k] # NoGap}}

(* The average block time lies between the shortest and the longest of the *)
(* recent blocks of this chain, and nothing of an earlier chain is in it.  *)
AverageIsRecent ==
  IF RecentGaps = {} THEN average = DefaultBlockTime
  ELSE \E low, high \in RecentGaps : low <= average /\ average <= high

(* No block mints more than its reward, however it is divided, rounded,    *)
(* penalised, topped up and partly refused, and whoever the topping up     *)
(* meets; only licenses are paid.                                          *)
RewardsWithinSchedule ==
  ~inBlock =>
    /\ SumFunction(payout.paid) + payout.unsent <= CalculateBaseReward(height)
    /\ \A v \in Validators : payout.paid[v] > 0 => Licensed(v)

(* A registered validator stays active: no weight, no deactivation and no  *)
(* new chain that reads the weights as validators replaces its record.     *)
ActiveStaysActive == [][\A v \in Active : v \in Active']_vars
=============================================================================
