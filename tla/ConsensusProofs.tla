--------------------------- MODULE ConsensusProofs ---------------------------
(***************************************************************************)
(* What block creation relies on, for every interval, window and set of    *)
(* validators, and all weights, shares and failures of the bank.           *)
(*                                                                         *)
(* The recorded halvings are those the reward counts, and no step takes a  *)
(* validator record away; these need the halvings and records only.  A     *)
(* block pays no more than its reward, and its average time lies between   *)
(* times the chain has seen; these need the types of the whole state and   *)
(* the sums that the payouts and the average are.                          *)
(***************************************************************************)
EXTENDS Consensus, FoldTheorems

(* The halvings recorded are a multiple of the interval, the last one not  *)
(* past the height and the next one not reached: this says of the height   *)
(* what HalvingsMatchRewards says with a division.                         *)
OnGrid(info, h) ==
  /\ info.next = info.last + HalvingInterval
  /\ info.last <= h /\ h < info.next
  /\ \E k \in Nat : info.last = HalvingInterval * k

ChainTypeOK ==
  /\ height \in Nat
  /\ halving \in [last : Nat, next : Nat]
  /\ registered \in [Validators -> {"none", "active", "dormant"}]

Kept ==
  /\ ChainTypeOK
  /\ OnGrid(halving, height)

-----------------------------------------------------------------------------
LEMMA QuotientIsUnique ==
  ASSUME NEW n \in Nat, NEW d \in Nat \ {0}, NEW k \in Nat, d * k <= n, n < d * k + d
  PROVE  n \div d = k
<1> DEFINE q == n \div d
           r == n % d
<1>1. q \in Int /\ r \in 0 .. d - 1 /\ n = d * q + r
  OBVIOUS
<1> HIDE DEF q, r
<1>2. d * q < d * (k + 1) /\ d * k < d * (q + 1)
  BY <1>1
<1>3. q < k + 1 /\ k < q + 1
  BY <1>1, <1>2
<1> QED BY <1>1, <1>3 DEF q

(* On the grid, the last halving is the one of the height's interval.      *)
LEMMA GridIsTheInterval ==
  ASSUME ChainTypeOK, OnGrid(halving, height)
  PROVE  HalvingsMatchRewards
<1>1. PICK k \in Nat : halving.last = HalvingInterval * k
  BY DEF OnGrid
<1>2. /\ HalvingInterval * k <= height
      /\ height < HalvingInterval * k + HalvingInterval
  BY <1>1 DEF OnGrid
<1>3. height \div HalvingInterval = k
  BY <1>2, QuotientIsUnique, ConsensusConstants DEF ChainTypeOK
<1> QED BY <1>1, <1>3 DEF HalvingsMatchRewards, OnGrid

(* ProcessHalving steps to the next point of the grid when the height has  *)
(* reached it, and is idle when it is called again.                        *)
LEMMA HalvedStaysOnGrid ==
  ASSUME NEW info \in [last : Nat, next : Nat], NEW h \in Nat,
         info.next = info.last + HalvingInterval,
         info.last <= h, h <= info.next,
         \E k \in Nat : info.last = HalvingInterval * k
  PROVE  Halved(info, h) \in [last : Nat, next : Nat] /\ OnGrid(Halved(info, h), h)
<1>1. HalvingInterval \in Nat \ {0}
  BY ConsensusConstants
<1>2. CASE h >= info.next
  <2>1. Halved(info, h) = [last |-> info.next, next |-> info.next + HalvingInterval]
    BY <1>2 DEF Halved
  <2>2. PICK k \in Nat : info.last = HalvingInterval * k
    OBVIOUS
  <2>3. info.next = HalvingInterval * (k + 1)
    BY <2>2, <1>1
  <2>4. h = info.next
    BY <1>2
  <2>5. \E m \in Nat : info.next = HalvingInterval * m
    <3>1. k + 1 \in Nat
      OBVIOUS
    <3> QED BY <2>3, <3>1
  <2>6. info.next \in Nat /\ info.next + HalvingInterval \in Nat
        /\ h < info.next + HalvingInterval
    BY <2>4, <1>1
  <2> QED BY <2>1, <2>4, <2>5, <2>6 DEF OnGrid
<1>3. CASE ~(h >= info.next)
  <2>1. Halved(info, h) = info
    BY <1>3 DEF Halved
  <2> QED BY <2>1, <1>3 DEF OnGrid
<1> QED BY <1>2, <1>3

LEMMA InitKept == Init => Kept
<1> SUFFICES ASSUME Init PROVE Kept
  OBVIOUS
<1>1. HalvingInterval \in Nat \ {0} /\ halving = [last |-> 0, next |-> HalvingInterval]
      /\ height = 0 /\ registered = [v \in Validators |-> "none"]
  BY ConsensusConstants DEF Init, GenesisHalving, EmptyStore
<1>2. HalvingInterval * 0 = 0
  BY <1>1
<1>3. OnGrid(halving, height)
  BY <1>1, <1>2 DEF OnGrid
<1>4. ChainTypeOK
  BY <1>1 DEF ChainTypeOK
<1> QED BY <1>1, <1>3, <1>4 DEF Kept

(* What a step within a block may do: the height, the halvings and the     *)
(* validator records stay on course.                                       *)
LEMMA WithinBlockKept ==
  ASSUME Kept, height' = height, halving' = halving,
         registered' \in [Validators -> {"none", "active", "dormant"}]
  PROVE  Kept'
  BY DEF Kept, ChainTypeOK, OnGrid

LEMMA StepKept == Kept /\ [Next]_vars => Kept'
<1> SUFFICES ASSUME Kept, [Next]_vars PROVE Kept'
  OBVIOUS
<1> USE DEF chain, store
<1>1. ASSUME NEW step \in TimeSteps, BeginBlocker(step) PROVE Kept'
  <2>1. /\ inBlock' = TRUE /\ height' = height + 1
        /\ halving' = Halved(halving, height + 1) /\ registered' = registered
    BY <1>1 DEF BeginBlocker
  <2>2. /\ halving \in [last : Nat, next : Nat] /\ height + 1 \in Nat
        /\ halving.next = halving.last + HalvingInterval
        /\ halving.last <= height + 1 /\ height + 1 <= halving.next
        /\ \E k \in Nat : halving.last = HalvingInterval * k
    <3>1. /\ halving \in [last : Nat, next : Nat] /\ height \in Nat
          /\ OnGrid(halving, height)
      BY DEF Kept, ChainTypeOK
    <3>2. /\ halving.next = halving.last + HalvingInterval
          /\ halving.last <= height /\ height < halving.next
          /\ \E k \in Nat : halving.last = HalvingInterval * k
      BY <3>1 DEF OnGrid
    <3>3. halving.last <= height + 1 /\ height + 1 <= halving.next
      <4>1. halving.last \in Nat /\ halving.next \in Nat
        BY <3>1
      <4> QED BY <3>1, <3>2, <4>1
    <3> QED BY <3>1, <3>2, <3>3
  <2>3. halving' \in [last : Nat, next : Nat] /\ OnGrid(halving', height')
    BY <2>1, <2>2, HalvedStaysOnGrid
  <2> QED BY <2>1, <2>2, <2>3 DEF Kept, ChainTypeOK, OnGrid
<1>2. ASSUME halving' = Halved(halving, height), height' = height
      PROVE  halving' = halving
  BY <1>2 DEF Kept, ChainTypeOK, OnGrid, Halved
<1>3. ASSUME EndBlocker PROVE Kept'
  <2>1. /\ inBlock' = FALSE /\ height' = height /\ registered' = registered
        /\ halving' = halving
    BY <1>2, <1>3 DEF EndBlocker
  <2> QED
    BY <2>1 DEF Kept, ChainTypeOK, OnGrid
<1>4. ASSUME NEW v \in Validators, NEW n \in Amounts, ActivateLZN(v, n) PROVE Kept'
  <2>1. /\ inBlock' /\ height' = height /\ halving' = halving
        /\ registered' = [registered EXCEPT ![v] = "active"]
    BY <1>4 DEF ActivateLZN, SetActivatedLizenz, registerValidatorInConsensus
  <2> QED BY <2>1, WithinBlockKept DEF Kept, ChainTypeOK
<1>5. ASSUME NEW v \in Validators, DeactivateLZN(v) PROVE Kept'
  BY <1>5, WithinBlockKept DEF DeactivateLZN, DeleteActivatedLizenz, Kept, ChainTypeOK
<1>6. ASSUME NEW v \in Validators, NEW r \in Reports, Report(v, r) PROVE Kept'
  BY <1>6, WithinBlockKept DEF Report, SetMOAStatus, Kept, ChainTypeOK
<1>7. ASSUME NEW v \in Validators, NEW w \in Weights, SetValidatorWeight(v, w) PROVE Kept'
  BY <1>7, WithinBlockKept DEF SetValidatorWeight, Kept, ChainTypeOK
<1>8. CASE UpdateConsensusState(LastBlock + 1, {})
  BY <1>8, WithinBlockKept DEF UpdateConsensusState, Kept, ChainTypeOK
<1>9. CASE ProcessHalving
  BY <1>9, <1>2, WithinBlockKept DEF ProcessHalving, Kept, ChainTypeOK
<1>10. CASE SelectBlockCreator
  BY <1>10, WithinBlockKept DEF SelectBlockCreator, Kept, ChainTypeOK
<1>11. CASE Restart
  <2>1. /\ height' = 0 /\ halving' = [last |-> 0, next |-> HalvingInterval]
        /\ registered' = Imported
    BY <1>11 DEF Restart, GenesisHalving
  <2>2. HalvingInterval \in Nat \ {0} /\ HalvingInterval * 0 = 0
    <3>1. HalvingInterval \in Nat \ {0}
      BY ConsensusConstants
    <3> QED BY <3>1
  <2>3. OnGrid(halving', height')
    BY <2>1, <2>2 DEF OnGrid
  <2>4. ChainTypeOK'
    BY <2>1, <2>2 DEF ChainTypeOK, Imported, Kept
  <2> QED BY <2>1, <2>3, <2>4 DEF Kept, OnGrid
<1>12. CASE UNCHANGED vars
  BY <1>12 DEF vars, Kept, ChainTypeOK, OnGrid
<1>13. CASE EndBlockerPanics
  BY <1>13, WithinBlockKept DEF EndBlockerPanics, Kept, ChainTypeOK
<1> QED
  BY <1>1, <1>3, <1>4, <1>5, <1>6, <1>7, <1>8, <1>9, <1>10, <1>11, <1>12, <1>13 DEF Next

(* The stored halvings are those the block reward is computed with, though *)
(* three callers process them and a new chain starts over.                 *)
THEOREM HalvingsMatch == Spec => []HalvingsMatchRewards
<1>1. Kept => HalvingsMatchRewards
  BY GridIsTheInterval DEF Kept
<1> QED BY <1>1, InitKept, StepKept, PTL DEF Spec

(* An active validator record stays active, on a new chain too.            *)
THEOREM RecordsStay == Spec => ActiveStaysActive
<1>1. ASSUME Kept, [Next]_vars
      PROVE  [\A v \in Active : v \in Active']_vars
  <2> SUFFICES ASSUME NEW v \in Active, ~UNCHANGED vars PROVE v \in Active'
    OBVIOUS
  <2> USE DEF chain, store
  <2>0. Next
    BY <1>1
  <2>1. v \in Validators /\ registered[v] = "active"
        /\ registered \in [Validators -> {"none", "active", "dormant"}]
    BY <1>1 DEF Active, Kept, ChainTypeOK
  <2>2. ASSUME registered' = registered PROVE v \in Active'
    BY <2>1, <2>2 DEF Active
  <2>3. ASSUME NEW u \in Validators, NEW n \in Amounts, ActivateLZN(u, n)
        PROVE  v \in Active'
    <3>1. registered' = [registered EXCEPT ![u] = "active"]
      BY <2>3 DEF ActivateLZN, SetActivatedLizenz, registerValidatorInConsensus
    <3> QED BY <2>1, <3>1 DEF Active
  <2>4. CASE Restart
    <3>1. registered' = Imported
      BY <2>4 DEF Restart
    <3> QED BY <2>1, <3>1 DEF Active, Imported
  <2>5. CASE registered' = registered
    BY <2>2, <2>5
  <2>6. \/ \E u \in Validators, n \in Amounts : ActivateLZN(u, n)
        \/ Restart
        \/ registered' = registered
    BY <2>0 DEF Next, BeginBlocker, EndBlocker, EndBlockerPanics, DeactivateLZN, DeleteActivatedLizenz, Report,
       SetMOAStatus, SetValidatorWeight, UpdateConsensusState, ProcessHalving,
       SelectBlockCreator
  <2> QED BY <2>3, <2>4, <2>5, <2>6
<1> QED BY <1>1, InitKept, StepKept, PTL DEF Spec, ActiveStaysActive

-----------------------------------------------------------------------------
(* Types: what the store's operations and the rewards yield.               *)

LEMMA StoreKept ==
  ASSUME StoreTypeOK, UNCHANGED store
  PROVE  StoreTypeOK'
BY DEF StoreTypeOK, store

LEMMA ActivationTyped ==
  ASSUME StoreTypeOK, NEW v \in Validators, NEW n \in Amounts, SetActivatedLizenz(v, n)
  PROVE  StoreTypeOK'
<1>1. n \in MinLznAmount..MaxLznAmount /\ n \in Nat
  BY LicenseConstants DEF SetActivatedLizenz, MayActivate, validateLizenzAmount
<1>2. Lock(bank, v, n) \in [lzn : [Validators -> Nat], locked : Nat]
  BY <1>1 DEF Lock, StoreTypeOK
<1>. QED
  BY <1>1, <1>2 DEF SetActivatedLizenz, registerValidatorInConsensus, StoreTypeOK

LEMMA DeletionTyped ==
  ASSUME StoreTypeOK, NEW v \in Validators, DeleteActivatedLizenz(v)
  PROVE  StoreTypeOK'
<1>1. licenses[v] \in Nat
  BY LicenseConstants DEF StoreTypeOK
<1>2. Unlock(bank, v, licenses[v]) \in [lzn : [Validators -> Nat], locked : Nat]
  BY <1>1 DEF Unlock, StoreTypeOK
<1>. QED BY <1>2 DEF DeleteActivatedLizenz, StoreTypeOK

LEMMA ReportTyped ==
  ASSUME StoreTypeOK, NEW v \in Validators, NEW r \in Reports, SetMOAStatus(v, r)
  PROVE  StoreTypeOK'
BY LicenseConstants DEF SetMOAStatus, StoreTypeOK

LEMMA RecordedTyped ==
  ASSUME TypeOK, inBlock
  PROVE  Recorded \in [Heights -> Nat \cup {NoGap}]
<1>1. elapsed \in Nat
  <2>1. elapsed \in TimeSteps \cup {0}
    BY DEF TypeOK
  <2>2. TimeSteps \subseteq Nat
    BY ConsensusConstants
  <2>. QED BY <2>1, <2>2
<1>. QED BY <1>1 DEF TypeOK, Recorded

(* The window is a finite set of recorded times.                           *)
LEMMA WindowTyped ==
  ASSUME NEW recorded \in [Heights -> Nat \cup {NoGap}]
  PROVE  /\ IsFiniteSet(Window(recorded)) /\ \A h \in Window(recorded) : recorded[h] \in Nat
         /\ Cardinality(Window(recorded)) \in Nat
         /\ Window(recorded) # {} => Cardinality(Window(recorded)) > 0
<1>1. IsFiniteSet(Heights)
  <2>1. LastBlock \in Nat
    BY ConsensusConstants
  <2>2. 1 \in Int /\ LastBlock + 1 \in Int
    BY <2>1
  <2>. QED BY <2>2, FS_Interval DEF Heights
<1>2. Window(recorded) \subseteq Heights /\ \A h \in Window(recorded) : recorded[h] \in Nat
  BY DEF Window
<1>3. IsFiniteSet(Window(recorded))
  BY <1>1, <1>2, FS_Subset
<1>. QED BY <1>2, <1>3, FS_CardinalityType, FS_EmptySet

LEMMA QuotientIsNatural ==
  ASSUME NEW n \in Nat, NEW d \in Nat \ {0}
  PROVE  n \div d \in Nat
OBVIOUS

LEMMA AverageTyped ==
  ASSUME TypeOK, inBlock
  PROVE  Averaged(Recorded) \in Nat
<1>. DEFINE window == Window(Recorded)
<1>1. CASE window = {}
  BY <1>1 DEF Averaged, TypeOK
<1>2. CASE window # {}
  <2>1. /\ IsFiniteSet(window) /\ \A h \in window : Recorded[h] \in Nat
        /\ Cardinality(window) \in Nat \ {0}
    BY <1>2, RecordedTyped, WindowTyped
  <2>2. SumFunctionOnSet(Recorded, window) \in Nat
    BY <2>1, SumNat
  <2>3. Averaged(Recorded) = SumFunctionOnSet(Recorded, window) \div Cardinality(window)
    BY <1>2 DEF Averaged
  <2>. QED BY <2>1, <2>2, <2>3, QuotientIsNatural
<1>. QED BY <1>1, <1>2

LEMMA BaseRewardTyped ==
  ASSUME NEW h \in Nat
  PROVE  CalculateBaseReward(h) \in Nat
<1>1. h \div HalvingInterval \in Nat
  BY ConsensusConstants, QuotientIsNatural
<1>2. 2 ^ (h \div HalvingInterval) \in Nat \ {0}
  BY <1>1, PowerOfTwo
<1>3. BaseBlockReward \div (2 ^ (h \div HalvingInterval)) \in Nat
  BY <1>2, ConsensusConstants, QuotientIsNatural
<1>. QED BY <1>3 DEF CalculateBaseReward

-----------------------------------------------------------------------------
(* How the reward of a block is divided.                                   *)

LEMMA PoolCounts ==
  ASSUME StoreTypeOK
  PROVE  /\ Summable(licenses, Validators)
         /\ GetTotalActivatedLizenz(licenses) = SumFunctionOnSet(licenses, Validators)
         /\ GetTotalActivatedLizenz(licenses) \in Nat
         /\ \A v \in Holders : GetTotalActivatedLizenz(licenses) > 0
<1>1. IsFiniteSet(Validators) /\ \A v \in Validators : licenses[v] \in Nat
  BY LicenseConstants DEF StoreTypeOK
<1>2. DOMAIN licenses = Validators
  BY DEF StoreTypeOK
<1>3. GetTotalActivatedLizenz(licenses) = SumFunctionOnSet(licenses, Validators)
  BY <1>2, Zenon DEF GetTotalActivatedLizenz, SumFunction
<1>4. Summable(licenses, Validators) /\ SumFunctionOnSet(licenses, Validators) \in Nat
  BY <1>1, SumNat
<1>5. ASSUME NEW v \in Holders PROVE GetTotalActivatedLizenz(licenses) > 0
  <2>1. v \in Validators /\ licenses[v] # 0
    BY DEF Holders, Licensed
  <2>2. licenses[v] <= SumFunctionOnSet(licenses, Validators)
    BY <1>1, <2>1, SumMember
  <2>. QED BY <1>1, <1>3, <1>4, <2>1, <2>2
<1>. QED BY <1>3, <1>4, <1>5

LEMMA PenaltyOnly ==
  ASSUME NEW v
  PROVE  PenaltyMultiplier(v) \in {0, 50, 75, 100}
BY DEF PenaltyMultiplier

LEMMA QuotientBounds ==
  ASSUME NEW n \in Nat, NEW d \in Nat \ {0}
  PROVE  n \div d \in Nat /\ d * (n \div d) <= n
OBVIOUS

LEMMA RemainderBounds ==
  ASSUME NEW n \in Nat, NEW d \in Nat \ {0}
  PROVE  n % d \in Nat /\ n % d <= n
<1>1. n % d \in 0..(d - 1) /\ n = d * (n \div d) + (n % d) /\ n \div d \in Nat
  OBVIOUS
<1>. QED BY <1>1

LEMMA PenaltyShrinks ==
  ASSUME NEW n \in Nat, NEW m \in {0, 50, 75, 100}
  PROVE  (n * m) \div 100 \in Nat /\ (n * m) \div 100 <= n
OBVIOUS

(* A share, in the ratio of the license to the pool, is not exceeded by    *)
(* what remains of it after rounding, the overflow and the penalty.        *)
LEMMA ShareBound ==
  ASSUME StoreTypeOK, NEW v \in Holders, NEW reward \in Nat
  PROVE  /\ FinalReward(v, reward) \in Nat
         /\ GetTotalActivatedLizenz(licenses) * FinalReward(v, reward)
              <= reward * licenses[v]
<1>. DEFINE pool == GetTotalActivatedLizenz(licenses)
            base == BaseRewardAmount(v, reward)
            final == FinalReward(v, reward)
            wide == reward * licenses[v]
<1>1. pool \in Nat \ {0}
  BY PoolCounts
<1>2. licenses[v] \in Nat
  BY LicenseConstants DEF StoreTypeOK, Holders
<1>3. wide \in Nat
  BY <1>2
<1>4. base = (wide % UintWidth) \div pool
  BY DEF BaseRewardAmount
<1>5. final = (base * PenaltyMultiplier(v)) \div 100
  BY DEF FinalReward
<1>. HIDE DEF pool, base, final, wide
<1>6. wide % UintWidth \in Nat /\ wide % UintWidth <= wide
  BY <1>3, ConsensusConstants, RemainderBounds
<1>7. base \in Nat /\ pool * base <= wide % UintWidth
  BY <1>1, <1>4, <1>6, QuotientBounds
<1>8. final \in Nat /\ final <= base
  BY <1>5, <1>7, PenaltyOnly, PenaltyShrinks
<1>9. pool * final <= pool * base
  BY <1>1, <1>7, <1>8
<1>10. pool * final \in Nat /\ pool * base \in Nat
  BY <1>1, <1>7, <1>8
<1>11. pool * final <= wide
  BY <1>3, <1>6, <1>7, <1>9, <1>10
<1>. QED BY <1>8, <1>11 DEF pool, final, wide

LEMMA CancelFactor ==
  ASSUME NEW p \in Nat \ {0}, NEW a \in Nat, NEW b \in Nat, p * a <= b * p
  PROVE  a <= b
<1>. SUFFICES ASSUME a >= b + 1 PROVE FALSE
  OBVIOUS
<1>1. p * a >= p * (b + 1)
  OBVIOUS
<1>2. p * (b + 1) = b * p + p
  OBVIOUS
<1>. QED BY <1>1, <1>2

(* What CalculateRewardDistribution assigns, whoever it tops up: amounts   *)
(* that license holders alone get, and no more together than the reward.   *)
LEMMA DistributionBound ==
  ASSUME StoreTypeOK, Holders # {}, NEW reward \in Nat,
         NEW amounts \in Distributions(reward)
  PROVE  /\ amounts \in [Validators -> Nat]
         /\ \A v \in Validators : amounts[v] > 0 => Licensed(v)
         /\ SumFunctionOnSet(amounts, Validators) <= reward
<1>. DEFINE final == [v \in Validators |-> IF Licensed(v) THEN FinalReward(v, reward) ELSE 0]
            pool == GetTotalActivatedLizenz(licenses)
            total == SumFunctionOnSet(final, Validators)
            remainder == reward - SumFunction(final)
<1>1. /\ Summable(licenses, Validators) /\ pool = SumFunctionOnSet(licenses, Validators)
      /\ pool \in Nat \ {0} /\ IsFiniteSet(Validators)
  BY PoolCounts, LicenseConstants
<1>2. ASSUME NEW v \in Validators
      PROVE  /\ final[v] \in Nat /\ pool * final[v] <= reward * licenses[v]
             /\ final[v] > 0 => Licensed(v)
  <2>1. CASE Licensed(v)
    <3>1. v \in Holders /\ final[v] = FinalReward(v, reward)
      BY <2>1 DEF Holders
    <3>. QED BY <2>1, <3>1, ShareBound
  <2>2. CASE ~Licensed(v)
    <3>1. final[v] = 0 /\ licenses[v] = 0
      BY <2>2 DEF Licensed
    <3>2. pool * 0 = 0 /\ reward * 0 = 0
      BY <1>1
    <3>. QED BY <3>1, <3>2
  <2>. QED BY <2>1, <2>2
<1>3. /\ final \in [Validators -> Nat] /\ DOMAIN final = Validators
  BY <1>2
<1>4. SumFunction(final) = total
  BY <1>3, Zenon DEF SumFunction
<1>5. \/ amounts = final
      \/ /\ remainder > 0
         /\ \E v \in Compliant : amounts = [final EXCEPT ![v] = @ + remainder]
  BY DEF Distributions
<1>. HIDE DEF final, pool
<1>6. Summable(final, Validators) /\ total \in Nat
  BY <1>1, <1>3, SumNat
<1>7. pool * total <= reward * SumFunctionOnSet(licenses, Validators)
  <2>1. pool \in Int /\ reward \in Int
    BY <1>1
  <2>2. \A v \in Validators : pool * final[v] <= reward * licenses[v]
    BY <1>2
  <2>. QED BY <1>1, <1>6, <2>1, <2>2, SumBound
<1>8. total <= reward
  BY <1>1, <1>6, <1>7, CancelFactor
<1>9. CASE amounts = final
  BY <1>2, <1>3, <1>8, <1>9
<1>10. ASSUME NEW v \in Compliant, remainder > 0,
              amounts = [final EXCEPT ![v] = @ + remainder]
       PROVE  /\ amounts \in [Validators -> Nat]
              /\ \A u \in Validators : amounts[u] > 0 => Licensed(u)
              /\ SumFunctionOnSet(amounts, Validators) <= reward
  <2>1. v \in Validators /\ Licensed(v)
    BY DEF Compliant, Holders
  <2>2. remainder = reward - total /\ remainder \in Nat
    BY <1>4, <1>6, <1>8
  <2>3. amounts \in [Validators -> Nat]
    BY <1>3, <1>10, <2>1, <2>2
  <2>4. amounts[v] = final[v] + remainder /\ \A u \in Validators \ {v} : amounts[u] = final[u]
    BY <1>3, <1>10, <2>1
  <2>5. Summable(amounts, Validators)
    BY <1>1, <2>3, SumNat
  <2>6. SumFunctionOnSet(amounts, Validators) = total + amounts[v] - final[v]
    BY <1>6, <2>1, <2>4, <2>5, SumUpdate
  <2>7. SumFunctionOnSet(amounts, Validators) = reward
    BY <1>2, <1>6, <2>1, <2>2, <2>4, <2>6
  <2>8. \A u \in Validators : amounts[u] > 0 => Licensed(u)
    BY <1>2, <2>1, <2>4
  <2>. QED BY <2>3, <2>7, <2>8
<1>. QED BY <1>5, <1>9, <1>10

(* What the bank refuses is lost, not paid twice: the amounts split into   *)
(* those paid, those minted but not sent, and those never minted.          *)
LEMMA PayoutBound ==
  ASSUME NEW amounts \in [Validators -> Nat], NEW outcome
  PROVE  LET p == DistributeBaseRewards(amounts, outcome)
         IN  /\ p \in [paid : [Validators -> Nat], counted : [Validators -> Nat], unsent : Nat]
             /\ SumFunction(p.paid) + p.unsent <= SumFunctionOnSet(amounts, Validators)
             /\ \A v \in Validators : p.paid[v] > 0 => amounts[v] > 0
<1>. DEFINE paid == [v \in Validators |->
                     IF v \in Holders /\ outcome[v] = "paid" THEN amounts[v] ELSE 0]
            counted == Counted(amounts)
            Lost == {v \in Holders : outcome[v] = "not sent"}
            unsent == SumFunctionOnSet(amounts, Lost)
            lost == [v \in Validators |-> IF v \in Lost THEN amounts[v] ELSE 0]
            both == [v \in Validators |-> paid[v] + lost[v]]
            p == DistributeBaseRewards(amounts, outcome)
<1>1. p = [paid |-> paid, counted |-> counted, unsent |-> unsent]
  BY Zenon DEF DistributeBaseRewards
<1>2. /\ paid \in [Validators -> Nat] /\ counted \in [Validators -> Nat]
      /\ lost \in [Validators -> Nat] /\ both \in [Validators -> Nat]
      /\ \A v \in Validators : both[v] = paid[v] + lost[v] /\ both[v] <= amounts[v]
  <2>1. counted \in [Validators -> Nat]
    BY DEF Counted
  <2>2. \A v \in Validators :
          /\ paid[v] \in Nat /\ lost[v] \in Nat /\ paid[v] + lost[v] <= amounts[v]
    <3>. SUFFICES ASSUME NEW v \in Validators
                  PROVE  paid[v] \in Nat /\ lost[v] \in Nat /\ paid[v] + lost[v] <= amounts[v]
      BY Zenon
    <3>1. paid[v] = IF v \in Holders /\ outcome[v] = "paid" THEN amounts[v] ELSE 0
      OBVIOUS
    <3>2. lost[v] = IF v \in Holders /\ outcome[v] = "not sent" THEN amounts[v] ELSE 0
      OBVIOUS
    <3>3. amounts[v] \in Nat
      OBVIOUS
    <3>. HIDE DEF paid, lost
    <3>4. CASE outcome[v] = "paid"
      BY <3>1, <3>2, <3>3, <3>4
    <3>5. CASE outcome[v] # "paid"
      <4>1. paid[v] = 0 /\ (lost[v] = 0 \/ lost[v] = amounts[v])
        BY <3>1, <3>2, <3>5, Zenon
      <4>. QED BY <3>3, <4>1
    <3>. QED BY <3>4, <3>5
  <2>3. paid = [v \in Validators |-> paid[v]] /\ lost = [v \in Validators |-> lost[v]]
    OBVIOUS
  <2>. HIDE DEF paid, lost, counted
  <2>4. \A v \in Validators : both[v] = paid[v] + lost[v]
    OBVIOUS
  <2>5. both \in [Validators -> Nat]
    BY <2>2
  <2>. QED BY <2>1, <2>2, <2>3, <2>4, <2>5
<1>3. \A v \in Validators : paid[v] > 0 => amounts[v] > 0
  OBVIOUS
<1>4. Lost \in SUBSET Validators /\ \A v \in Validators : lost[v] = IF v \in Lost THEN amounts[v] ELSE 0
  BY DEF Holders
<1>5. DOMAIN paid = Validators
  OBVIOUS
<1>6. SumFunction(paid) = SumFunctionOnSet(paid, Validators)
  BY <1>5, Zenon DEF SumFunction
<1>7. IsFiniteSet(Validators)
  BY LicenseConstants
<1>. HIDE DEF paid, counted, Lost, lost, both, p
<1>8. Summable(paid, Validators) /\ Summable(lost, Validators) /\ Summable(both, Validators)
      /\ Summable(amounts, Validators)
  BY <1>2, <1>7, SumNat
<1>9. SumFunctionOnSet(lost, Validators) = unsent
  BY <1>4, <1>8, SumOfPart
<1>10. SumFunctionOnSet(both, Validators)
         = SumFunctionOnSet(paid, Validators) + SumFunctionOnSet(lost, Validators)
  BY <1>2, <1>8, SumAdd
<1>11. SumFunctionOnSet(both, Validators) <= SumFunctionOnSet(amounts, Validators)
  BY <1>2, <1>8, SumMonotone
<1>12. IsFiniteSet(Lost) /\ \A v \in Lost : amounts[v] \in Nat
  BY <1>4, <1>7, FS_Subset
<1>13. unsent \in Nat
  BY <1>12, SumNat
<1>. HIDE DEF unsent
<1>14. p.paid = paid /\ p.unsent = unsent
  BY <1>1
<1>15. p \in [paid : [Validators -> Nat], counted : [Validators -> Nat], unsent : Nat]
  BY <1>1, <1>2, <1>13
<1>16. SumFunction(p.paid) + p.unsent <= SumFunctionOnSet(amounts, Validators)
  BY <1>6, <1>9, <1>10, <1>11, <1>14
<1>. QED BY <1>3, <1>14, <1>15, <1>16 DEF p

-----------------------------------------------------------------------------
(* Type correctness.                                                       *)

LEMMA InitTyped == Init => TypeOK
<1>. SUFFICES ASSUME Init PROVE TypeOK
  OBVIOUS
<1>1. StoreTypeOK
  BY LicenseConstants DEF Init, EmptyStore, StoreTypeOK
<1>2. /\ HalvingInterval \in Nat /\ DefaultBlockTime \in Nat /\ LastBlock \in Nat
      /\ MaxRestarts \in Nat
  BY ConsensusConstants
<1>3. height \in 0..LastBlock /\ restarts \in 0..MaxRestarts /\ average \in Nat
  BY <1>2 DEF Init
<1>4. /\ inBlock \in BOOLEAN /\ halted \in BOOLEAN /\ elapsed \in TimeSteps \cup {0}
      /\ gaps \in [Heights -> Nat \cup {NoGap}]
      /\ creators \in [Heights -> Validators \cup {NoValidator}]
  BY DEF Init, NoGaps
<1>5. /\ halving \in [last : Nat, next : Nat]
      /\ consensusState \in [height : Nat, active : SUBSET Validators]
  BY <1>2 DEF Init, GenesisHalving, GenesisState
<1>6. payout \in [paid : [Validators -> Nat], counted : [Validators -> Nat], unsent : Nat]
  BY DEF Init, NoPayout, NoAmounts
<1>. QED BY <1>1, <1>3, <1>4, <1>5, <1>6 DEF TypeOK

LEMMA HalvedTyped ==
  ASSUME NEW info \in [last : Nat, next : Nat], NEW h \in Nat
  PROVE  Halved(info, h) \in [last : Nat, next : Nat]
<1>1. HalvingInterval \in Nat
  BY ConsensusConstants
<1>. QED BY <1>1 DEF Halved

(* What the EndBlocker leaves as payout is that of the licenses there are. *)
LEMMA EndBlockerPays ==
  ASSUME TypeOK, EndBlocker, Holders # {}
  PROVE  /\ payout' \in [paid : [Validators -> Nat], counted : [Validators -> Nat], unsent : Nat]
         /\ SumFunction(payout'.paid) + payout'.unsent <= CalculateBaseReward(height)
         /\ \A v \in Validators : payout'.paid[v] > 0 => Licensed(v)
<1>. DEFINE reward == CalculateBaseReward(height)
<1>1. StoreTypeOK /\ height \in Nat
  BY DEF TypeOK
<1>2. reward \in Nat
  BY <1>1, BaseRewardTyped
<1>3. PICK amounts \in Distributions(reward), outcome \in [Holders -> BankOutcomes] :
        payout' = DistributeBaseRewards(amounts, outcome)
  BY DEF EndBlocker
<1>. HIDE DEF reward
<1>4. /\ amounts \in [Validators -> Nat]
      /\ \A v \in Validators : amounts[v] > 0 => Licensed(v)
      /\ SumFunctionOnSet(amounts, Validators) <= reward
  BY <1>1, <1>2, DistributionBound
<1>5. /\ payout' \in [paid : [Validators -> Nat], counted : [Validators -> Nat], unsent : Nat]
      /\ SumFunction(payout'.paid) + payout'.unsent <= SumFunctionOnSet(amounts, Validators)
      /\ \A v \in Validators : payout'.paid[v] > 0 => amounts[v] > 0
  BY <1>3, <1>4, PayoutBound
<1>6. /\ SumFunctionOnSet(amounts, Validators) \in Int
      /\ SumFunction(payout'.paid) \in Int /\ payout'.unsent \in Int
  <2>1. IsFiniteSet(Validators)
    BY LicenseConstants
  <2>2. /\ payout'.paid \in [Validators -> Nat] /\ payout'.unsent \in Nat
        /\ DOMAIN payout'.paid = Validators
    BY <1>5
  <2>3. SumFunction(payout'.paid) = SumFunctionOnSet(payout'.paid, Validators)
    BY <2>2, Zenon DEF SumFunction
  <2>4. /\ \A v \in Validators : payout'.paid[v] \in Nat
        /\ \A v \in Validators : amounts[v] \in Nat
    BY <1>4, <2>2
  <2>5. SumFunctionOnSet(payout'.paid, Validators) \in Nat
        /\ SumFunctionOnSet(amounts, Validators) \in Nat
    BY <2>1, <2>4, SumNat
  <2>. QED BY <2>2, <2>3, <2>5
<1>7. SumFunction(payout'.paid) + payout'.unsent <= reward
  BY <1>2, <1>4, <1>5, <1>6
<1>. QED BY <1>4, <1>5, <1>7 DEF reward

LEMMA StepTyped == TypeOK /\ [Next]_vars => TypeOK'
<1>. SUFFICES ASSUME TypeOK, [Next]_vars PROVE TypeOK'
  OBVIOUS
<1>1. /\ StoreTypeOK /\ height \in 0..LastBlock /\ height \in Nat
      /\ LastBlock \in Nat /\ TimeSteps \subseteq Nat
  <2>1. LastBlock \in Nat /\ TimeSteps \subseteq Nat
    BY ConsensusConstants
  <2>2. StoreTypeOK /\ height \in 0..LastBlock
    BY DEF TypeOK
  <2>. QED BY <2>1, <2>2
<1>2. Active \in SUBSET Validators
  BY DEF Active
<1>3. ASSUME NEW step \in TimeSteps, BeginBlocker(step) PROVE TypeOK'
  <2>1. Halved(halving, height + 1) \in [last : Nat, next : Nat]
    <3>1. halving \in [last : Nat, next : Nat]
      BY DEF TypeOK
    <3>2. height + 1 \in Nat
      BY <1>1
    <3>. QED BY <3>1, <3>2, HalvedTyped
  <2>2. StoreTypeOK'
    BY <1>1, <1>3, StoreKept DEF BeginBlocker
  <2>3. height' \in 0..LastBlock
    BY <1>1, <1>3 DEF BeginBlocker
  <2>4. consensusState' \in [height : Nat, active : SUBSET Validators]
    BY <1>1, <1>2, <1>3 DEF BeginBlocker, ConsensusStateAt
  <2>5. payout' \in [paid : [Validators -> Nat], counted : [Validators -> Nat], unsent : Nat]
    BY <1>3 DEF BeginBlocker, NoPayout, NoAmounts
  <2>. QED BY <1>3, <2>1, <2>2, <2>3, <2>4, <2>5 DEF BeginBlocker, TypeOK
<1>4. ASSUME EndBlocker PROVE TypeOK'
  <2>1. /\ inBlock /\ inBlock' = FALSE /\ gaps' = Recorded /\ average' = Averaged(Recorded)
        /\ consensusState' = ConsensusStateAt(height)
        /\ halving' = Halved(halving, height)
        /\ UNCHANGED <<store, height, elapsed, creators, halted, restarts>>
    BY <1>4 DEF EndBlocker
  <2>2. gaps' \in [Heights -> Nat \cup {NoGap}] /\ average' \in Nat
    BY <2>1, RecordedTyped, AverageTyped
  <2>3. halving' \in [last : Nat, next : Nat]
    BY <1>1, <2>1, HalvedTyped DEF TypeOK
  <2>4. consensusState' \in [height : Nat, active : SUBSET Validators]
    BY <1>1, <1>2, <2>1 DEF ConsensusStateAt
  <2>5. payout' \in [paid : [Validators -> Nat], counted : [Validators -> Nat], unsent : Nat]
    <3>1. CASE Holders = {}
      <4>1. payout' = payout
        BY <1>4, <3>1 DEF EndBlocker
      <4>. QED BY <4>1 DEF TypeOK
    <3>. QED BY <1>4, <3>1, EndBlockerPays
  <2>6. StoreTypeOK'
    BY <1>1, <2>1, StoreKept
  <2>. QED BY <2>1, <2>2, <2>3, <2>4, <2>5, <2>6 DEF TypeOK
<1>5. ASSUME StoreTypeOK', UNCHANGED <<chain, payout>> PROVE TypeOK'
  BY <1>5 DEF TypeOK, chain
<1>6. ASSUME NEW v \in Validators, NEW n \in Amounts, ActivateLZN(v, n) PROVE TypeOK'
  BY <1>1, <1>5, <1>6, ActivationTyped DEF ActivateLZN
<1>7. ASSUME NEW v \in Validators, DeactivateLZN(v) PROVE TypeOK'
  BY <1>1, <1>5, <1>7, DeletionTyped DEF DeactivateLZN
<1>8. ASSUME NEW v \in Validators, NEW r \in Reports, Report(v, r) PROVE TypeOK'
  BY <1>1, <1>5, <1>8, ReportTyped DEF Report
<1>9. ASSUME NEW v \in Validators, NEW w \in Weights, SetValidatorWeight(v, w) PROVE TypeOK'
  <2>1. w \in Nat
    BY ConsensusConstants
  <2>2. StoreTypeOK'
    BY <1>1, <1>9, <2>1 DEF SetValidatorWeight, StoreTypeOK
  <2>. QED BY <1>5, <1>9, <2>2 DEF SetValidatorWeight
<1>10. CASE UpdateConsensusState(LastBlock + 1, {})
  <2>1. StoreTypeOK'
    BY <1>1, <1>10, StoreKept DEF UpdateConsensusState
  <2>2. consensusState' \in [height : Nat, active : SUBSET Validators]
    BY <1>1, <1>10 DEF UpdateConsensusState
  <2>. QED BY <1>10, <2>1, <2>2 DEF UpdateConsensusState, TypeOK
<1>11. CASE ProcessHalving
  <2>1. StoreTypeOK'
    BY <1>1, <1>11, StoreKept DEF ProcessHalving
  <2>2. halving' \in [last : Nat, next : Nat]
    BY <1>1, <1>11, HalvedTyped DEF ProcessHalving, TypeOK
  <2>. QED BY <1>11, <2>1, <2>2 DEF ProcessHalving, TypeOK
<1>12. CASE SelectBlockCreator
  <2>1. StoreTypeOK'
    BY <1>1, <1>12, StoreKept DEF SelectBlockCreator
  <2>2. PICK v \in Validators : creators' = [creators EXCEPT ![height + 1] = v]
    BY <1>12 DEF SelectBlockCreator, Weighted, Candidates
  <2>3. creators' \in [Heights -> Validators \cup {NoValidator}]
    BY <2>2 DEF TypeOK
  <2>. QED BY <1>12, <2>1, <2>3 DEF SelectBlockCreator, TypeOK
<1>13. CASE Restart
  <2>1. StoreTypeOK'
    <3>1. Imported \in [Validators -> {"none", "active", "dormant"}]
      BY <1>1 DEF Imported, StoreTypeOK
    <3>2. /\ registered' = Imported /\ licenses' = [v \in Validators |-> 0]
          /\ weights' = [v \in Validators |-> 0] /\ positions' = [v \in Validators |-> 0]
          /\ moa' = [v \in Validators |-> NoStatus] /\ bank' = bank
      BY <1>13 DEF Restart
    <3>. QED BY <1>1, <3>1, <3>2 DEF StoreTypeOK
  <2>2. /\ HalvingInterval \in Nat /\ DefaultBlockTime \in Nat /\ MaxRestarts \in Nat
    BY ConsensusConstants
  <2>3. /\ height' = 0 /\ elapsed' = 0 /\ payout' = NoPayout
        /\ gaps' = NoGaps /\ average' = DefaultBlockTime
        /\ halving' = GenesisHalving /\ consensusState' = GenesisState
        /\ inBlock' = inBlock /\ creators' = creators /\ halted' = halted
        /\ restarts' = restarts + 1 /\ restarts < MaxRestarts
    BY <1>13 DEF Restart
  <2>4. height' \in 0..LastBlock /\ restarts' \in 0..MaxRestarts /\ elapsed' \in TimeSteps \cup {0}
    BY <1>1, <2>2, <2>3 DEF TypeOK
  <2>5. payout' \in [paid : [Validators -> Nat], counted : [Validators -> Nat], unsent : Nat]
    BY <2>3 DEF NoPayout, NoAmounts
  <2>6. /\ gaps' \in [Heights -> Nat \cup {NoGap}] /\ average' \in Nat
        /\ halving' \in [last : Nat, next : Nat]
        /\ consensusState' \in [height : Nat, active : SUBSET Validators]
    BY <2>2, <2>3 DEF NoGaps, GenesisHalving, GenesisState
  <2>7. inBlock' \in BOOLEAN /\ halted' \in BOOLEAN /\ creators' \in [Heights -> Validators \cup {NoValidator}]
    BY <2>3 DEF TypeOK
  <2>. QED BY <2>1, <2>4, <2>5, <2>6, <2>7 DEF TypeOK
<1>14. CASE EndBlockerPanics
  BY <1>1, <1>14, StoreKept DEF EndBlockerPanics, TypeOK
<1>15. CASE UNCHANGED vars
  BY <1>1, <1>5, <1>15, StoreKept DEF vars
<1>. QED
  BY <1>3, <1>4, <1>6, <1>7, <1>8, <1>9, <1>10, <1>11, <1>12, <1>13, <1>14, <1>15 DEF Next

(* The state of block creation keeps its types: the balances do not go     *)
(* below zero, and every average, reward and payout is a natural number.   *)
THEOREM TypeCorrect == Spec => []TypeOK
BY InitTyped, StepTyped, PTL DEF Spec

-----------------------------------------------------------------------------
(* The reward of a block.                                                  *)

(* Within a block nothing is paid yet: what its EndBlocker would leave,    *)
(* when there is no license to pay, is the empty payout.                   *)
Scheduled ==
  /\ TypeOK
  /\ inBlock => payout = NoPayout
  /\ RewardsWithinSchedule

LEMMA NothingPaid ==
  ASSUME NEW h \in Nat, NEW p, p = NoPayout
  PROVE  /\ SumFunction(p.paid) + p.unsent <= CalculateBaseReward(h)
         /\ \A v \in Validators : ~(p.paid[v] > 0)
<1>1. /\ p.paid = NoAmounts /\ p.unsent = 0 /\ DOMAIN NoAmounts = Validators
      /\ \A v \in Validators : NoAmounts[v] = 0
  BY DEF NoPayout, NoAmounts
<1>2. SumFunction(NoAmounts) = SumFunctionOnSet(NoAmounts, Validators)
  BY <1>1, Zenon DEF SumFunction
<1>3. SumFunctionOnSet(NoAmounts, Validators) = 0
  BY <1>1, LicenseConstants, SumZero
<1>4. CalculateBaseReward(h) \in Nat
  BY BaseRewardTyped
<1>. QED BY <1>1, <1>2, <1>3, <1>4

LEMMA StepScheduled == Scheduled /\ [Next]_vars => Scheduled'
<1>. SUFFICES ASSUME Scheduled, [Next]_vars PROVE Scheduled'
  OBVIOUS
<1>1. TypeOK /\ TypeOK' /\ height \in Nat /\ height' \in Nat
  <2>1. TypeOK /\ TypeOK'
    BY StepTyped DEF Scheduled
  <2>2. height \in 0..LastBlock /\ height' \in 0..LastBlock
    BY <2>1 DEF TypeOK
  <2>. QED BY <2>1, <2>2
<1>2. ASSUME payout' = NoPayout PROVE Scheduled'
  <2>1. /\ SumFunction(payout'.paid) + payout'.unsent <= CalculateBaseReward(height')
        /\ \A v \in Validators : ~(payout'.paid[v] > 0)
    BY <1>1, <1>2, NothingPaid
  <2>2. RewardsWithinSchedule'
    BY <2>1 DEF RewardsWithinSchedule, CalculateBaseReward
  <2>. QED BY <1>1, <1>2, <2>2 DEF Scheduled
<1>3. ASSUME inBlock, inBlock' = inBlock, payout' = payout PROVE Scheduled'
  BY <1>2, <1>3 DEF Scheduled
<1>4. ASSUME NEW step \in TimeSteps, BeginBlocker(step) PROVE Scheduled'
  BY <1>2, <1>4 DEF BeginBlocker
<1>5. CASE EndBlocker
  <2>1. inBlock /\ inBlock' = FALSE /\ height' = height /\ licenses' = licenses
    BY <1>5 DEF EndBlocker, store
  <2>2. CASE Holders = {}
    <3>1. payout' = payout
      BY <1>5, <2>2 DEF EndBlocker
    <3>. QED BY <1>2, <2>1, <3>1 DEF Scheduled
  <2>3. CASE Holders # {}
    <3>1. /\ SumFunction(payout'.paid) + payout'.unsent <= CalculateBaseReward(height)
          /\ \A v \in Validators : payout'.paid[v] > 0 => Licensed(v)
      BY <1>1, <1>5, <2>3, EndBlockerPays
    <3>2. RewardsWithinSchedule'
      BY <2>1, <3>1 DEF RewardsWithinSchedule, Licensed, CalculateBaseReward
    <3>. QED BY <1>1, <2>1, <3>2 DEF Scheduled
  <2>. QED BY <2>2, <2>3
<1>6. ASSUME NEW v \in Validators, NEW n \in Amounts, ActivateLZN(v, n) PROVE Scheduled'
  BY <1>3, <1>6 DEF ActivateLZN, chain
<1>7. ASSUME NEW v \in Validators, DeactivateLZN(v) PROVE Scheduled'
  BY <1>3, <1>7 DEF DeactivateLZN, chain
<1>8. ASSUME NEW v \in Validators, NEW r \in Reports, Report(v, r) PROVE Scheduled'
  BY <1>3, <1>8 DEF Report, chain
<1>9. ASSUME NEW v \in Validators, NEW w \in Weights, SetValidatorWeight(v, w)
      PROVE  Scheduled'
  BY <1>3, <1>9 DEF SetValidatorWeight, chain
<1>10. CASE UpdateConsensusState(LastBlock + 1, {})
  BY <1>3, <1>10 DEF UpdateConsensusState
<1>11. CASE ProcessHalving
  BY <1>3, <1>11 DEF ProcessHalving
<1>12. CASE SelectBlockCreator
  BY <1>3, <1>12 DEF SelectBlockCreator
<1>13. CASE Restart
  BY <1>2, <1>13 DEF Restart
<1>15. CASE EndBlockerPanics
  BY <1>3, <1>15 DEF EndBlockerPanics
<1>14. CASE UNCHANGED vars
  <2>1. /\ inBlock' = inBlock /\ payout' = payout /\ height' = height
        /\ licenses' = licenses
    BY <1>14 DEF vars, chain, store
  <2>2. RewardsWithinSchedule'
    BY <2>1 DEF Scheduled, RewardsWithinSchedule, Licensed, CalculateBaseReward
  <2>. QED BY <1>1, <2>1, <2>2 DEF Scheduled
<1>. QED
  BY <1>4, <1>5, <1>6, <1>7, <1>8, <1>9, <1>10, <1>11, <1>12, <1>13, <1>14, <1>15
     DEF Next

(* No block pays out more than its reward, to whoever, in whatever shares  *)
(* and with whatever failures of the bank, and none of it goes to a        *)
(* validator without a license.                                            *)
THEOREM RewardsAlwaysWithinSchedule == Spec => []RewardsWithinSchedule
<1>1. Init => Scheduled
  <2>. SUFFICES ASSUME Init PROVE Scheduled
    OBVIOUS
  <2>1. TypeOK /\ height = 0 /\ payout = NoPayout
    BY InitTyped DEF Init
  <2>2. /\ SumFunction(payout.paid) + payout.unsent <= CalculateBaseReward(height)
        /\ \A v \in Validators : ~(payout.paid[v] > 0)
    BY <2>1, NothingPaid
  <2>. QED BY <2>1, <2>2 DEF Scheduled, RewardsWithinSchedule
<1>2. Scheduled => RewardsWithinSchedule
  BY DEF Scheduled
<1>. QED BY <1>1, <1>2, StepScheduled, PTL DEF Spec

-----------------------------------------------------------------------------
(* The average block time.                                                 *)

(* The first block of a chain has no block time, so the window of the      *)
(* average, which skips it, and that of RecentGaps are the same.           *)
Timed ==
  /\ TypeOK
  /\ inBlock => height > 0
  /\ gaps[1] = NoGap
  /\ AverageIsRecent

(* A mean, rounded down, lies between the least and the greatest term.     *)
LEMMA MeanIsBetween ==
  ASSUME NEW f, NEW S, IsFiniteSet(S), S # {}, \A x \in S : f[x] \in Nat
  PROVE  \E low, high \in S :
           LET mean == SumFunctionOnSet(f, S) \div Cardinality(S)
           IN  f[low] <= mean /\ mean <= f[high]
<1>. DEFINE R == {p \in S \X S : f[p[1]] <= f[p[2]]}
            Q == {p \in S \X S : f[p[1]] >= f[p[2]]}
            one == [x \in S |-> 1]
            n == Cardinality(S)
            sum == SumFunctionOnSet(f, S)
<1>1. /\ \A x, y \in S : (<<x, y>> \in R <=> f[x] <= f[y])
      /\ \A x, y \in S : (<<x, y>> \in Q <=> f[x] >= f[y])
  OBVIOUS
<1>2. \A x \in S : one[x] = 1
  OBVIOUS
<1>. HIDE DEF R, Q, one
<1>3. PICK low \in S : \A x \in S : <<low, x>> \in R
  <2>0. /\ \A x, y \in S : f[x] <= f[y] \/ f[y] <= f[x]
        /\ \A x, y, z \in S : f[x] <= f[y] /\ f[y] <= f[z] => f[x] <= f[z]
    OBVIOUS
  <2>1. \A x, y \in S : <<x, y>> \in R \/ <<y, x>> \in R
    BY <1>1, <2>0, Zenon
  <2>2. \A x, y, z \in S : <<x, y>> \in R /\ <<y, z>> \in R => <<x, z>> \in R
    BY <1>1, <2>0, Zenon
  <2>. QED BY <2>1, <2>2, FiniteMinimum
<1>4. PICK high \in S : \A x \in S : <<high, x>> \in Q
  <2>0. /\ \A x, y \in S : f[x] >= f[y] \/ f[y] >= f[x]
        /\ \A x, y, z \in S : f[x] >= f[y] /\ f[y] >= f[z] => f[x] >= f[z]
    OBVIOUS
  <2>1. \A x, y \in S : <<x, y>> \in Q \/ <<y, x>> \in Q
    BY <1>1, <2>0, Zenon
  <2>2. \A x, y, z \in S : <<x, y>> \in Q /\ <<y, z>> \in Q => <<x, z>> \in Q
    BY <1>1, <2>0, Zenon
  <2>. QED BY <2>1, <2>2, FiniteMinimum
<1>5. /\ f[low] \in Int /\ f[high] \in Int
      /\ \A x \in S : f[low] * one[x] <= 1 * f[x] /\ 1 * f[x] <= f[high] * one[x]
  <2>1. \A x \in S : f[low] <= f[x] /\ f[high] >= f[x]
    BY <1>1, <1>3, <1>4, Zenon
  <2>2. f[low] \in Nat /\ f[high] \in Nat
    OBVIOUS
  <2>3. \A x \in S : f[low] * one[x] = f[low] /\ f[high] * one[x] = f[high] /\ 1 * f[x] = f[x]
    BY <1>2, <2>2
  <2>. QED BY <2>1, <2>2, <2>3
<1>6. Summable(f, S) /\ Summable(one, S) /\ sum \in Nat
  BY <1>2, SumNat
<1>7. SumFunctionOnSet(one, S) = 1 * n
  BY <1>2, SumOfConstant
<1>8. n \in Nat \ {0}
  BY FS_CardinalityType, FS_EmptySet
<1>9. f[low] * SumFunctionOnSet(one, S) <= 1 * sum
  <2>1. \A x \in S : f[low] * one[x] <= 1 * f[x]
    BY <1>5
  <2>. QED BY <1>5, <1>6, <2>1, SumBound
<1>10. 1 * sum <= f[high] * SumFunctionOnSet(one, S)
  <2>1. \A x \in S : 1 * f[x] <= f[high] * one[x]
    BY <1>5
  <2>. QED BY <1>5, <1>6, <2>1, SumBound
<1>. HIDE DEF n, sum
<1>11. f[low] * n <= sum /\ sum <= f[high] * n
  BY <1>6, <1>7, <1>8, <1>9, <1>10
<1>12. f[low] <= sum \div n /\ sum \div n <= f[high]
  <2>. DEFINE q == sum \div n
  <2>1. q \in Nat /\ n * q <= sum /\ sum < n * q + n
    <3>1. sum = n * (sum \div n) + (sum % n) /\ sum % n \in 0..(n - 1) /\ sum \div n \in Nat
      BY <1>6, <1>8
    <3>. QED BY <1>6, <1>8, <3>1
  <2>. HIDE DEF q
  <2>2. f[low] \in Nat /\ f[high] \in Nat
    OBVIOUS
  <2>3. n * f[low] <= (q + 1) * n /\ n * f[low] # (q + 1) * n
    <3>1. n * f[low] = f[low] * n /\ (q + 1) * n = n * q + n /\ n * q \in Nat
          /\ f[low] * n \in Nat
      BY <1>8, <2>1, <2>2
    <3>. QED BY <1>6, <1>8, <1>11, <2>1, <3>1
  <2>4. f[low] <= q + 1 /\ f[low] # q + 1
    BY <1>8, <2>1, <2>2, <2>3, CancelFactor
  <2>5. n * q <= f[high] * n
    BY <1>6, <1>8, <1>11, <2>1, <2>2
  <2>6. q <= f[high]
    BY <1>8, <2>1, <2>2, <2>5, CancelFactor
  <2>. QED BY <2>1, <2>2, <2>4, <2>6 DEF q
<1>. QED BY <1>3, <1>4, <1>12 DEF n, sum

(* What AverageIsRecent needs after an EndBlocker.                         *)
LEMMA WindowIsRecent ==
  ASSUME Timed, EndBlocker
  PROVE  RecentGaps' = {Recorded[h] : h \in Window(Recorded)}
<1>1. /\ height' = height /\ inBlock' = FALSE /\ gaps' = Recorded /\ inBlock
  BY DEF EndBlocker
<1>2. /\ height \in Nat /\ AverageBlockTimeWindowSize \in Nat \ {0}
      /\ Heights \subseteq Nat \ {0}
  <2>1. AverageBlockTimeWindowSize \in Nat \ {0} /\ LastBlock \in Nat
    BY ConsensusConstants
  <2>2. height \in 0..LastBlock
    BY DEF Timed, TypeOK
  <2>. QED BY <2>1, <2>2 DEF Heights
<1>3. Recorded[1] = NoGap
  <2>1. gaps \in [Heights -> Nat \cup {NoGap}] /\ gaps[1] = NoGap
    BY DEF Timed, TypeOK
  <2>. QED BY <1>2, <2>1 DEF Recorded
<1>4. LastEnded' = height
  BY <1>1 DEF LastEnded
<1>. DEFINE W == AverageBlockTimeWindowSize
            start == IF height > W THEN height - W ELSE 0
<1>5. ASSUME NEW h \in Heights, Recorded[h] # NoGap
      PROVE  height - W + 1 < h <=> start + 1 < h
  <2>1. h \in Nat /\ h > 1
    <3>1. h # 1 /\ h \in Nat \ {0}
      BY <1>2, <1>3, <1>5
    <3>. QED BY <3>1
  <2>2. CASE height > W
    BY <2>2
  <2>3. CASE ~(height > W)
    BY <1>2, <2>1, <2>3
  <2>. QED BY <2>2, <2>3
<1>6. Window(Recorded)
        = {h \in Heights : start + 1 < h /\ h <= height /\ Recorded[h] # NoGap}
  BY DEF Window
<1>7. RecentGaps'
        = {Recorded[h] : h \in {k \in Heights : /\ height - W + 1 < k
                                                /\ k <= height /\ Recorded[k] # NoGap}}
  BY <1>1, <1>4 DEF RecentGaps, Heights
<1>. HIDE DEF start
<1>8. {k \in Heights : height - W + 1 < k /\ k <= height /\ Recorded[k] # NoGap}
        = Window(Recorded)
  BY <1>5, <1>6
<1>. QED BY <1>7, <1>8

(* As long as there is nothing to measure, nothing has been measured.      *)
LEMMA NothingMeasured ==
  ASSUME Timed, EndBlocker, Window(Recorded) = {}
  PROVE  RecentGaps = {}
<1>1. inBlock
  BY DEF EndBlocker
<1>2. /\ height \in Nat /\ height > 0 /\ height \in Heights
      /\ AverageBlockTimeWindowSize \in Nat \ {0}
      /\ LastEnded = height - 1 /\ Heights \subseteq Nat \ {0}
  <2>1. AverageBlockTimeWindowSize \in Nat \ {0} /\ LastBlock \in Nat
    BY ConsensusConstants
  <2>2. height \in 0..LastBlock /\ height > 0
    BY <1>1 DEF Timed, TypeOK
  <2>3. LastEnded = height - 1
    BY <1>1 DEF LastEnded
  <2>. QED BY <2>1, <2>2, <2>3 DEF Heights
<1>. DEFINE W == AverageBlockTimeWindowSize
<1>. SUFFICES ASSUME NEW k \in Heights, LastEnded - W + 1 < k, k <= LastEnded
              PROVE  FALSE
  BY DEF RecentGaps
<1>3. height > 1 /\ W > 1
  <2>1. k \in Nat \ {0}
    BY <1>2
  <2>. QED BY <1>2, <2>1
<1>4. Recorded[height] # NoGap
  <2>1. gaps \in [Heights -> Nat \cup {NoGap}] /\ elapsed \in TimeSteps \cup {0}
    BY DEF Timed, TypeOK
  <2>2. TimeSteps \subseteq Nat /\ NoGap \notin Nat
    BY ConsensusConstants
  <2>3. Recorded[height] = elapsed
    BY <1>2, <1>3, <2>1 DEF Recorded
  <2>. QED BY <2>1, <2>2, <2>3
<1>5. height \in Window(Recorded)
  BY <1>2, <1>3, <1>4 DEF Window
<1>. QED BY <1>5

LEMMA EndBlockerTimes ==
  ASSUME Timed, EndBlocker
  PROVE  AverageIsRecent'
<1>. DEFINE window == Window(Recorded)
            recent == {Recorded[h] : h \in window}
<1>1. average' = Averaged(Recorded) /\ inBlock
  BY DEF EndBlocker
<1>2. RecentGaps' = recent
  BY WindowIsRecent
<1>3. CASE window = {}
  <2>1. average = DefaultBlockTime
    BY <1>3, NothingMeasured DEF Timed, AverageIsRecent
  <2>2. average' = average
    BY <1>1, <1>3 DEF Averaged
  <2>3. recent = {}
    BY <1>3
  <2>. QED BY <1>2, <2>1, <2>2, <2>3 DEF AverageIsRecent
<1>4. CASE window # {}
  <2>1. Recorded \in [Heights -> Nat \cup {NoGap}]
    BY <1>1, RecordedTyped DEF Timed
  <2>2. IsFiniteSet(window) /\ \A h \in window : Recorded[h] \in Nat
    BY <2>1, WindowTyped
  <2>3. average' = SumFunctionOnSet(Recorded, window) \div Cardinality(window)
    BY <1>1, <1>4 DEF Averaged
  <2>. HIDE DEF window
  <2>4. PICK low \in window, high \in window :
          Recorded[low] <= average' /\ average' <= Recorded[high]
    BY <1>4, <2>2, <2>3, MeanIsBetween
  <2>5. Recorded[low] \in recent /\ Recorded[high] \in recent
    OBVIOUS
  <2>. QED BY <1>2, <2>4, <2>5 DEF AverageIsRecent
<1>. QED BY <1>3, <1>4

LEMMA StepTimed == Timed /\ [Next]_vars => Timed'
<1>. SUFFICES ASSUME Timed, [Next]_vars PROVE Timed'
  OBVIOUS
<1>1. TypeOK /\ TypeOK'
  BY StepTyped DEF Timed
<1>2. height \in Nat /\ 1 \in Heights /\ gaps \in [Heights -> Nat \cup {NoGap}]
  <2>1. LastBlock \in Nat
    BY ConsensusConstants
  <2>2. height \in 0..LastBlock /\ gaps \in [Heights -> Nat \cup {NoGap}]
    BY <1>1 DEF TypeOK
  <2>. QED BY <2>1, <2>2 DEF Heights
<1>3. ASSUME LastEnded' = LastEnded, gaps' = gaps, average' = average, inBlock' => height' > 0
      PROVE  Timed'
  BY <1>1, <1>3 DEF Timed, AverageIsRecent, RecentGaps
<1>4. ASSUME height' = height, inBlock' = inBlock, gaps' = gaps, average' = average
      PROVE  Timed'
  BY <1>3, <1>4 DEF LastEnded, Timed
<1>5. ASSUME NEW step \in TimeSteps, BeginBlocker(step) PROVE Timed'
  <2>1. /\ ~inBlock /\ inBlock' = TRUE /\ height' = height + 1 /\ gaps' = gaps
        /\ average' = average
    BY <1>5 DEF BeginBlocker
  <2>2. LastEnded' = LastEnded
    BY <1>2, <2>1 DEF LastEnded
  <2>. QED BY <1>2, <1>3, <2>1, <2>2
<1>6. CASE EndBlocker
  <2>1. inBlock' = FALSE /\ gaps' = Recorded
    BY <1>6 DEF EndBlocker
  <2>2. gaps'[1] = NoGap
    BY <1>2, <2>1 DEF Recorded, Timed
  <2>3. AverageIsRecent'
    BY <1>6, EndBlockerTimes
  <2>. QED BY <1>1, <2>1, <2>2, <2>3 DEF Timed
<1>7. ASSUME NEW v \in Validators, NEW n \in Amounts, ActivateLZN(v, n) PROVE Timed'
  BY <1>4, <1>7 DEF ActivateLZN, chain
<1>8. ASSUME NEW v \in Validators, DeactivateLZN(v) PROVE Timed'
  BY <1>4, <1>8 DEF DeactivateLZN, chain
<1>9. ASSUME NEW v \in Validators, NEW r \in Reports, Report(v, r) PROVE Timed'
  BY <1>4, <1>9 DEF Report, chain
<1>10. ASSUME NEW v \in Validators, NEW w \in Weights, SetValidatorWeight(v, w) PROVE Timed'
  BY <1>4, <1>10 DEF SetValidatorWeight, chain
<1>11. CASE UpdateConsensusState(LastBlock + 1, {})
  BY <1>4, <1>11 DEF UpdateConsensusState
<1>12. CASE ProcessHalving
  BY <1>4, <1>12 DEF ProcessHalving
<1>13. CASE SelectBlockCreator
  BY <1>4, <1>13 DEF SelectBlockCreator
<1>14. CASE Restart
  <2>1. /\ ~inBlock /\ inBlock' = inBlock /\ gaps' = NoGaps /\ average' = DefaultBlockTime
    BY <1>14 DEF Restart
  <2>2. RecentGaps' = {} /\ gaps'[1] = NoGap
    BY <1>2, <2>1 DEF RecentGaps, NoGaps, Heights
  <2>. QED BY <1>1, <2>1, <2>2 DEF Timed, AverageIsRecent
<1>15. CASE UNCHANGED vars
  BY <1>4, <1>15 DEF vars, chain
<1>16. CASE EndBlockerPanics
  BY <1>4, <1>16 DEF EndBlockerPanics
<1>. QED
  BY <1>5, <1>6, <1>7, <1>8, <1>9, <1>10, <1>11, <1>12, <1>13, <1>14, <1>15, <1>16
     DEF Next

(* The average block time is never outside the block times it is taken of, *)
(* whatever the window and however the blocks come, and nothing of an      *)
(* earlier chain is in it.                                                 *)
THEOREM AverageAlwaysRecent == Spec => []AverageIsRecent
<1>1. Init => Timed
  <2>. SUFFICES ASSUME Init PROVE Timed
    OBVIOUS
  <2>1. TypeOK /\ inBlock = FALSE /\ gaps = NoGaps /\ average = DefaultBlockTime
    BY InitTyped DEF Init
  <2>2. 1 \in Heights
    <3>1. LastBlock \in Nat
      BY ConsensusConstants
    <3>. QED BY <3>1 DEF Heights
  <2>3. RecentGaps = {} /\ gaps[1] = NoGap
    BY <2>1, <2>2 DEF RecentGaps, NoGaps
  <2>. QED BY <2>1, <2>3 DEF Timed, AverageIsRecent
<1>2. Timed => AverageIsRecent
  BY DEF Timed
<1>. QED BY <1>1, <1>2, StepTimed, PTL DEF Spec
=============================================================================
