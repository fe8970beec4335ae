---------------------------- MODULE LizenzProofs ----------------------------
(***************************************************************************)
(* What x/lizenz promises, for every number of validators and all amounts, *)
(* balances and periods.                                                   *)
(*                                                                         *)
(* Its BeginBlocker never fails a block: a license is never idle for       *)
(* longer than the deactivation record of its validator is old, since it   *)
(* was activated after the record was written, and the record is gone      *)
(* before the license can be inactive.  This speaks of ages and licenses   *)
(* only.  That the coins behind the licenses are locked, all of them, is   *)
(* kept because the bank covers every transfer if the accounts were funded *)
(* to begin with; the blocks that unlock many licenses in a row are folds, *)
(* and the proof follows them by the set of the licenses unlocked so far.  *)
(***************************************************************************)
EXTENDS Lizenz, FoldTheorems

AgesTyped ==
  /\ idle \in [Validators -> Nat]
  /\ deactivating \in [Validators -> Nat \cup {NotDeactivating}]

(* The record of a licensed validator is at least as old as its license's  *)
(* last activity, and not yet due to go.                                   *)
YoungerThanItsRecord(v) ==
  deactivating[v] # NotDeactivating =>
    /\ deactivating[v] <= Grace + DeactivationPeriod
    /\ licenses[v] # 0 => idle[v] <= deactivating[v]

Ordered == AgesTyped /\ \A v \in Validators : YoungerThanItsRecord(v)

LEMMA OlderIsBounded ==
  ASSUME NEW age \in Nat, NEW step \in TimeSteps
  PROVE  Older(age, step) \in Nat /\ Older(age, step) <= age + step
BY LizenzConstants DEF Older

LEMMA OlderIsMonotone ==
  ASSUME NEW a \in Nat, NEW b \in Nat, a <= b, NEW step \in TimeSteps
  PROVE  Older(a, step) <= Older(b, step)
BY LizenzConstants DEF Older

LEMMA InitOrdered == Init => Ordered
BY DEF Init, EmptyStore, Ordered, AgesTyped, YoungerThanItsRecord

(* A message that leaves the records alone, gives nobody but v a license   *)
(* and makes nobody's license older keeps the order.                       *)
LEMMA MessageKeepsOrder ==
  ASSUME Ordered, NEW v \in Validators,
         deactivating' = deactivating,
         idle' = [idle EXCEPT ![v] = 0],
         \A w \in Validators \ {v} : licenses'[w] = licenses[w]
  PROVE  Ordered'
<1>1. AgesTyped'
  BY DEF Ordered, AgesTyped
<1>2. ASSUME NEW w \in Validators PROVE YoungerThanItsRecord(w)'
  <2>1. CASE w = v
    <3>1. idle'[w] = 0
      BY <2>1 DEF Ordered, AgesTyped
    <3>2. deactivating[w] # NotDeactivating => deactivating[w] \in Nat
      BY DEF Ordered, AgesTyped
    <3> QED BY <3>1, <3>2 DEF Ordered, YoungerThanItsRecord
  <2>2. CASE w # v
    <3>1. idle'[w] = idle[w] /\ licenses'[w] = licenses[w]
      BY <2>2 DEF Ordered, AgesTyped
    <3> QED BY <3>1 DEF Ordered, YoungerThanItsRecord
  <2> QED BY <2>1, <2>2
<1> QED BY <1>1, <1>2 DEF Ordered

LEMMA BlockKeepsOrder ==
  ASSUME Ordered, NEW step \in TimeSteps, BeginBlock(step)
  PROVE  Ordered'
<1>1. /\ deactivating' = DeactivatingAfter(step)
      /\ licenses' = [v \in Validators |-> IF v \in Inactive(step) THEN 0 ELSE licenses[v]]
      /\ idle' = [v \in Validators |->
                    IF v \in Holders \ Inactive(step) THEN Older(idle[v], step) ELSE 0]
  BY DEF BeginBlock
<1>2. ASSUME NEW v \in Validators
      PROVE  /\ idle'[v] \in Nat
             /\ deactivating'[v] \in Nat \cup {NotDeactivating}
             /\ YoungerThanItsRecord(v)'
  <2>1. /\ idle[v] \in Nat /\ Older(idle[v], step) \in Nat
        /\ deactivating[v] \in Nat \cup {NotDeactivating}
        /\ deactivating[v] # NotDeactivating => Older(deactivating[v], step) \in Nat
    BY OlderIsBounded DEF Ordered, AgesTyped
  <2>2. CASE v \in Inactive(step)
    <3>1. deactivating'[v] = 0 /\ licenses'[v] = 0 /\ idle'[v] = 0
      BY <1>1, <2>2 DEF DeactivatingAfter
    <3> QED BY <3>1, LizenzConstants DEF YoungerThanItsRecord
  <2>3. CASE v \notin Inactive(step) /\ (deactivating[v] = NotDeactivating \/ Completed(v, step))
    <3>1. deactivating'[v] = NotDeactivating
      BY <1>1, <2>3 DEF DeactivatingAfter
    <3>2. idle'[v] \in Nat
      BY <1>1, <2>1
    <3> QED BY <3>1, <3>2 DEF YoungerThanItsRecord
  <2>4. CASE v \notin Inactive(step) /\ deactivating[v] # NotDeactivating /\ ~Completed(v, step)
    <3>1. deactivating'[v] = Older(deactivating[v], step) /\ licenses'[v] = licenses[v]
      BY <1>1, <2>4 DEF DeactivatingAfter
    <3>2. deactivating[v] \in Nat
      BY <2>1, <2>4
    <3>3. Older(deactivating[v], step) <= Grace + DeactivationPeriod
      BY <2>1, <2>4, LizenzConstants DEF Completed
    <3>4. ASSUME licenses'[v] # 0 PROVE idle'[v] <= deactivating'[v]
      <4>1. idle'[v] = Older(idle[v], step)
        BY <1>1, <2>4, <3>1, <3>4 DEF Holders, Licensed
      <4>2. idle[v] <= deactivating[v]
        BY <2>4, <3>1, <3>4 DEF Ordered, YoungerThanItsRecord
      <4> QED BY <2>1, <3>1, <3>2, <4>1, <4>2, OlderIsMonotone
    <3>5. idle'[v] \in Nat /\ deactivating'[v] \in Nat
      BY <1>1, <2>1, <2>4, <3>1
    <3> QED BY <3>1, <3>3, <3>4, <3>5 DEF YoungerThanItsRecord
  <2> QED BY <2>2, <2>3, <2>4
<1>3. AgesTyped'
  BY <1>1, <1>2 DEF AgesTyped, DeactivatingAfter
<1> QED BY <1>2, <1>3 DEF Ordered

LEMMA StepOrdered == Ordered /\ [Next]_vars => Ordered'
<1> SUFFICES ASSUME Ordered, [Next]_vars PROVE Ordered'
  OBVIOUS
<1>1. ASSUME NEW v \in Validators, NEW n \in Amounts, ActivateLZN(v, n) PROVE Ordered'
  <2>1. \A w \in Validators \ {v} : licenses'[w] = licenses[w]
    BY <1>1 DEF ActivateLZN, SetActivatedLizenz
  <2> QED BY <1>1, <2>1, MessageKeepsOrder DEF ActivateLZN
<1>2. ASSUME NEW v \in Validators, DeactivateLZN(v) PROVE Ordered'
  <2>1. \A w \in Validators \ {v} : licenses'[w] = licenses[w]
    BY <1>2 DEF DeactivateLZN, DeleteActivatedLizenz
  <2> QED BY <1>2, <2>1, MessageKeepsOrder DEF DeactivateLZN
<1>3. ASSUME NEW v \in Validators, UpdateLizenzActivity(v) PROVE Ordered'
  BY <1>3, MessageKeepsOrder DEF UpdateLizenzActivity
<1>4. ASSUME NEW v \in Validators, NEW r \in Reports, Report(v, r) PROVE Ordered'
  BY <1>4 DEF Report, SetMOAStatus, Ordered, AgesTyped, YoungerThanItsRecord
<1>5. CASE Blocks
  BY <1>5, BlockKeepsOrder DEF Blocks
<1>6. CASE UNCHANGED vars
  BY <1>6 DEF vars, store, Ordered, AgesTyped, YoungerThanItsRecord
<1> QED BY <1>1, <1>2, <1>3, <1>4, <1>5, <1>6 DEF Next

(* x/lizenz's BeginBlocker never fails, whatever is activated, deactivated *)
(* and activated again, if the periods leave a record time to go.          *)
THEOREM BlocksGoOn == Spec => []BlockersNeverFail
<1>1. Ordered => BlockersNeverFail
  <2> SUFFICES ASSUME Ordered, PeriodsFit,
                      NEW step \in TimeSteps, NEW v \in Inactive(step),
                      deactivating[v] # NotDeactivating
               PROVE  FALSE
    BY DEF BlockersNeverFail, BeginBlockerFails
  <2>1. v \in Validators /\ licenses[v] # 0 /\ Older(idle[v], step) > InactivityPeriod
    BY DEF Inactive, Holders, Licensed
  <2>2. idle[v] \in Nat /\ deactivating[v] \in Nat
    BY <2>1 DEF Ordered, AgesTyped
  <2>3. idle[v] <= deactivating[v] /\ deactivating[v] <= Grace + DeactivationPeriod
    BY <2>1 DEF Ordered, YoungerThanItsRecord
  <2>4. Grace + DeactivationPeriod + step <= InactivityPeriod
    BY DEF PeriodsFit
  <2>5. Older(idle[v], step) \in Nat /\ Older(idle[v], step) <= idle[v] + step
    BY <2>2, OlderIsBounded
  <2> QED BY <2>1, <2>2, <2>3, <2>4, <2>5, LizenzConstants
<1> QED BY <1>1, InitOrdered, StepOrdered, PTL DEF Spec

-----------------------------------------------------------------------------
(* The types, and what a row of unlocked licenses leaves in the bank.      *)

Banks == [lzn : [Validators -> Nat], locked : Nat]

Unlocks == [b \in Banks |-> [v \in Validators |-> Unlock(b, v, licenses[v])]]

LEMMA LicensesAreNumbers ==
  ASSUME StoreTypeOK
  PROVE  /\ bank \in Banks /\ licenses \in [Validators -> Nat]
         /\ IsFiniteSet(Validators) /\ Summable(licenses, Validators)
         /\ GetTotalActivatedLizenz(licenses) = SumFunctionOnSet(licenses, Validators)
         /\ SumFunctionOnSet(licenses, Validators) \in Nat
<1>1. bank \in Banks
  BY DEF StoreTypeOK, Banks
<1>2. IsFiniteSet(Validators) /\ MinLznAmount \in Nat
  BY LicenseConstants
<1>3. licenses \in [Validators -> Nat]
  BY <1>2 DEF StoreTypeOK
<1>4. DOMAIN licenses = Validators /\ \A v \in Validators : licenses[v] \in Nat
  BY <1>3
<1>5. GetTotalActivatedLizenz(licenses) = SumFunctionOnSet(licenses, Validators)
  BY <1>4, Zenon DEF GetTotalActivatedLizenz, SumFunction
<1>6. Summable(licenses, Validators) /\ SumFunctionOnSet(licenses, Validators) \in Nat
  BY <1>2, <1>4, SumNat
<1>. QED BY <1>1, <1>2, <1>3, <1>5, <1>6

LEMMA LockTyped ==
  ASSUME NEW b \in Banks, NEW v \in Validators, NEW n \in Nat
  PROVE  Lock(b, v, n) \in Banks /\ Unlock(b, v, n) \in Banks
BY DEF Lock, Unlock, Banks

LEMMA UnlocksFoldable ==
  ASSUME StoreTypeOK
  PROVE  /\ Foldable(Banks, Validators, Unlocks, bank)
         /\ \A b \in Banks, v \in Validators : Unlocks[b][v] = Unlock(b, v, licenses[v])
<1>1. \A b \in Banks, v \in Validators : Unlock(b, v, licenses[v]) \in Banks
  BY LicensesAreNumbers, LockTyped
<1>2. bank \in Banks
  BY LicensesAreNumbers
<1>3. Unlocks \in [Banks -> [Validators -> Banks]]
  BY <1>1 DEF Unlocks
<1>. QED BY <1>2, <1>3 DEF Foldable, Unlocks

(* Unlocking one license after the other is a fold of FoldTheorems.        *)
LEMMA UnlockingFolds ==
  ASSUME StoreTypeOK, NEW order \in Seq(Validators)
  PROVE  \E g \in [SUBSET (DOMAIN order) -> Banks] :
           /\ IsFold(g, Banks, Unlocks, bank, order)
           /\ UnlockedInOrder(order) = g[DOMAIN order]
<1>. DEFINE It(g) == g = [t \in SUBSET (DOMAIN order) |->
                            IF t = {} THEN bank
                            ELSE Unlock(g[t \ {Max(t)}], order[Max(t)],
                                        licenses[order[Max(t)]])]
            iter == CHOOSE g : It(g)
<1>1. UnlockedInOrder(order) = iter[DOMAIN order]
  BY Zenon DEF UnlockedInOrder, FoldLeft, MapThenFoldSet
<1>2. /\ Foldable(Banks, Validators, Unlocks, bank)
      /\ \A b \in Banks, v \in Validators : Unlocks[b][v] = Unlock(b, v, licenses[v])
  BY UnlocksFoldable
<1>3. PICK g \in [SUBSET (DOMAIN order) -> Banks] : IsFold(g, Banks, Unlocks, bank, order)
  BY <1>2, FoldExists
<1>4. It(g)
  <2>1. ASSUME NEW t \in SUBSET (DOMAIN order)
        PROVE  g[t] = IF t = {} THEN bank
                      ELSE Unlock(g[t \ {Max(t)}], order[Max(t)], licenses[order[Max(t)]])
    <3>1. CASE t = {}
      BY <1>3, <3>1 DEF IsFold
    <3>2. CASE t # {}
      <4>1. order[Max(t)] \in Validators /\ t \ {Max(t)} \in SUBSET (DOMAIN order)
        BY <3>2, LastIndex
      <4>2. g[t \ {Max(t)}] \in Banks
        BY <4>1
      <4>. QED BY <1>2, <1>3, <3>2, <4>1, <4>2 DEF IsFold
    <3>. QED BY <3>1, <3>2
  <2>. QED BY <2>1
<1>5. It(iter)
  <2>. HIDE DEF It
  <2>. QED BY <1>4, Zenon
<1>. HIDE DEF iter
<1>6. IsFold(iter, Banks, Unlocks, bank, order)
  <2>1. ASSUME NEW t \in SUBSET (DOMAIN order)
        PROVE  IF t = {} THEN iter[t] = bank
               ELSE iter[t \ {Max(t)}] \in Banks
                      => iter[t] = Unlocks[iter[t \ {Max(t)}]][order[Max(t)]]
    <3>1. iter[t] = IF t = {} THEN bank
                    ELSE Unlock(iter[t \ {Max(t)}], order[Max(t)], licenses[order[Max(t)]])
      BY <1>5
    <3>2. t # {} => order[Max(t)] \in Validators
      BY LastIndex
    <3>. QED BY <1>2, <3>1, <3>2
  <2>. QED BY <2>1 DEF IsFold
<1>7. g[DOMAIN order] = iter[DOMAIN order]
  BY <1>2, <1>3, <1>6, FoldIsFolded
<1>. QED BY <1>1, <1>3, <1>7

(* An enumeration of a set of validators meets each of them once.          *)
LEMMA OrdersEnumerate ==
  ASSUME StoreTypeOK, NEW S \in SUBSET Validators, NEW order \in SetToSeqs(S)
  PROVE  /\ order \in Seq(Validators)
         /\ \A i, j \in DOMAIN order : order[i] = order[j] => i = j
         /\ S = {order[i] : i \in DOMAIN order}
<1>. DEFINE n == Cardinality(S)
            D == 1..n
<1>1. order \in [D -> S] /\ \A i, j \in D : i # j => order[i] # order[j]
  BY Zenon DEF SetToSeqs
<1>2. IsFiniteSet(S) /\ n \in Nat
  BY LicensesAreNumbers, FS_Subset, FS_CardinalityType
<1>3. IsFiniteSet(D) /\ Cardinality(D) = n
  BY <1>2, FS_Interval
<1>4. order \in Injection(D, S)
  BY <1>1 DEF Injection, IsInjective
<1>5. order \in Surjection(D, S)
  <2>. HIDE DEF D, n
  <2>. QED BY <1>2, <1>3, <1>4, FS_Injection DEF n
<1>. HIDE DEF D
<1>6. DOMAIN order = D /\ \A i \in D : order[i] \in S
  BY <1>1
<1>7. \A v \in S : \E i \in D : order[i] = v
  BY <1>5 DEF Surjection
<1>8. S = {order[i] : i \in D}
  BY <1>6, <1>7
<1>9. order \in Seq(Validators)
  <2>1. order \in [1..n -> Validators]
    BY <1>1, <1>6 DEF D
  <2>. QED BY <1>2, <2>1
<1>10. \A i, j \in DOMAIN order : order[i] = order[j] => i = j
  BY <1>1, <1>6
<1>. QED BY <1>6, <1>8, <1>9, <1>10

-----------------------------------------------------------------------------
(* Type correctness.                                                       *)

LEMMA UnlockedTyped ==
  ASSUME StoreTypeOK, NEW order \in Seq(Validators)
  PROVE  UnlockedInOrder(order) \in Banks
<1>1. PICK g \in [SUBSET (DOMAIN order) -> Banks] : UnlockedInOrder(order) = g[DOMAIN order]
  BY UnlockingFolds
<1>2. DOMAIN order \in SUBSET (DOMAIN order)
  OBVIOUS
<1>. QED BY <1>1, <1>2

LEMMA OlderIsAge ==
  ASSUME NEW age \in Ages, NEW step \in TimeSteps
  PROVE  Older(age, step) \in Ages
<1>1. MaxAge \in Nat /\ TimeSteps \subseteq Nat
  BY LizenzConstants
<1>2. age \in Nat /\ step \in Nat
  BY <1>1 DEF Ages
<1>. QED BY <1>1, <1>2 DEF Older, Ages

LEMMA ZeroIsAge == 0 \in Ages
BY LizenzConstants DEF Ages

LEMMA InitTyped == Init => TypeOK
<1>. SUFFICES ASSUME Init PROVE TypeOK
  OBVIOUS
<1>1. StoreTypeOK
  BY LicenseConstants DEF Init, EmptyStore, StoreTypeOK
<1>. QED BY <1>1, ZeroIsAge DEF Init, TypeOK

LEMMA ActivationTyped ==
  ASSUME StoreTypeOK, NEW v \in Validators, NEW n \in Amounts, SetActivatedLizenz(v, n)
  PROVE  /\ StoreTypeOK' /\ n \in Nat /\ n <= MaxLznAmount /\ licenses[v] = 0
         /\ licenses' = [licenses EXCEPT ![v] = n] /\ bank' = Lock(bank, v, n)
<1>1. n \in MinLznAmount..MaxLznAmount /\ n \in Nat
  BY LicenseConstants DEF SetActivatedLizenz, MayActivate, validateLizenzAmount
<1>2. /\ licenses[v] = 0
      /\ licenses' = [licenses EXCEPT ![v] = n] /\ bank' = Lock(bank, v, n)
      /\ registered' = [registered EXCEPT ![v] = "active"]
      /\ weights' = [weights EXCEPT ![v] = n]
      /\ positions' = [positions EXCEPT ![v] = 0]
      /\ moa' = moa
  BY DEF SetActivatedLizenz, MayActivate, registerValidatorInConsensus
<1>3. bank' \in Banks
  BY <1>1, <1>2, LicensesAreNumbers, LockTyped
<1>4. StoreTypeOK'
  BY <1>1, <1>2, <1>3 DEF StoreTypeOK, Banks
<1>5. n <= MaxLznAmount
  BY <1>1, LicenseConstants
<1>. QED BY <1>1, <1>2, <1>4, <1>5

LEMMA DeletionTyped ==
  ASSUME StoreTypeOK, NEW v \in Validators, DeleteActivatedLizenz(v)
  PROVE  /\ StoreTypeOK'
         /\ licenses' = [licenses EXCEPT ![v] = 0]
         /\ bank' = Unlock(bank, v, licenses[v])
<1>1. /\ licenses' = [licenses EXCEPT ![v] = 0]
      /\ bank' = Unlock(bank, v, licenses[v])
      /\ UNCHANGED <<moa, registered, weights, positions>>
  BY DEF DeleteActivatedLizenz
<1>2. bank \in Banks /\ licenses[v] \in Nat
  BY LicensesAreNumbers
<1>3. bank' \in Banks
  BY <1>1, <1>2, LockTyped
<1>4. StoreTypeOK'
  BY <1>1, <1>3 DEF StoreTypeOK, Banks
<1>. QED BY <1>1, <1>4

LEMMA RefreshedTyped ==
  ASSUME NEW status \in {NoStatus} \cup [current : Nat, required : Nat]
  PROVE  Refreshed(status) \in {NoStatus} \cup [current : Nat, required : Nat]
BY DEF Refreshed

LEMMA BlockTyped ==
  ASSUME TypeOK, NEW step \in TimeSteps, BeginBlock(step)
  PROVE  TypeOK'
<1>1. /\ deactivating' = DeactivatingAfter(step)
      /\ licenses' = [v \in Validators |-> IF v \in Inactive(step) THEN 0 ELSE licenses[v]]
      /\ idle' = [v \in Validators |->
                    IF v \in Holders \ Inactive(step) THEN Older(idle[v], step) ELSE 0]
      /\ UNCHANGED <<moa, registered, weights, positions>>
  BY DEF BeginBlock
<1>2. StoreTypeOK
  BY DEF TypeOK
<1>3. PICK order \in SetToSeqs(Inactive(step)) : bank' = UnlockedInOrder(order)
  BY DEF BeginBlock
<1>4. bank' \in Banks
  <2>1. Inactive(step) \in SUBSET Validators
    BY DEF Inactive, Holders
  <2>2. order \in Seq(Validators)
    BY <1>2, <2>1, OrdersEnumerate
  <2>. QED BY <1>2, <1>3, <2>2, UnlockedTyped
<1>5. StoreTypeOK'
  BY <1>1, <1>2, <1>4 DEF StoreTypeOK, Banks
<1>6. idle' \in [Validators -> Ages]
  <2>1. \A v \in Validators : Older(idle[v], step) \in Ages
    BY OlderIsAge DEF TypeOK
  <2>. QED BY <1>1, <2>1, ZeroIsAge
<1>7. deactivating' \in [Validators -> Ages \cup {NotDeactivating}]
  <2>1. \A v \in Validators :
          deactivating[v] # NotDeactivating => Older(deactivating[v], step) \in Ages
    BY OlderIsAge DEF TypeOK
  <2>. QED BY <1>1, <2>1, ZeroIsAge DEF DeactivatingAfter
<1>. QED BY <1>5, <1>6, <1>7 DEF TypeOK

LEMMA StepTyped == TypeOK /\ [Next]_vars => TypeOK'
<1>. SUFFICES ASSUME TypeOK, [Next]_vars PROVE TypeOK'
  OBVIOUS
<1>1. StoreTypeOK
  BY DEF TypeOK
<1>2. ASSUME NEW v \in Validators, StoreTypeOK', idle' = [idle EXCEPT ![v] = 0],
             deactivating' = deactivating
      PROVE  TypeOK'
  BY <1>2, ZeroIsAge DEF TypeOK
<1>3. ASSUME NEW v \in Validators, NEW n \in Amounts, ActivateLZN(v, n) PROVE TypeOK'
  BY <1>1, <1>2, <1>3, ActivationTyped DEF ActivateLZN
<1>4. ASSUME NEW v \in Validators, DeactivateLZN(v) PROVE TypeOK'
  BY <1>1, <1>2, <1>4, DeletionTyped DEF DeactivateLZN
<1>5. ASSUME NEW v \in Validators, UpdateLizenzActivity(v) PROVE TypeOK'
  <2>1. moa' = [moa EXCEPT ![v] = Refreshed(moa[v])]
        /\ UNCHANGED <<licenses, bank, registered, weights, positions>>
    BY <1>5 DEF UpdateLizenzActivity
  <2>2. Refreshed(moa[v]) \in {NoStatus} \cup [current : Nat, required : Nat]
    BY <1>1, RefreshedTyped DEF StoreTypeOK
  <2>3. StoreTypeOK'
    BY <1>1, <2>1, <2>2 DEF StoreTypeOK
  <2>. QED BY <1>2, <1>5, <2>3 DEF UpdateLizenzActivity
<1>6. ASSUME NEW v \in Validators, NEW r \in Reports, Report(v, r) PROVE TypeOK'
  <2>1. r \in [current : Nat, required : Nat]
    BY LicenseConstants
  <2>2. StoreTypeOK'
    BY <1>1, <1>6, <2>1 DEF Report, SetMOAStatus, StoreTypeOK
  <2>. QED BY <1>6, <2>2 DEF Report, TypeOK
<1>7. CASE Blocks
  BY <1>7, BlockTyped DEF Blocks
<1>8. CASE UNCHANGED vars
  BY <1>1, <1>8 DEF vars, store, TypeOK, StoreTypeOK
<1>. QED BY <1>3, <1>4, <1>5, <1>6, <1>7, <1>8 DEF Next

(* The store keeps its types: no balance and no license goes below zero,   *)
(* and no license leaves its limits, whatever a block unlocks.             *)
THEOREM TypeCorrect == Spec => []TypeOK
BY InitTyped, StepTyped, PTL DEF Spec

-----------------------------------------------------------------------------
(* Where the coins of the licenses are.                                    *)

Funded == \A v \in Validators : InitialLzn[v] >= MaxLznAmount

Locked ==
  /\ \A v \in Validators : bank.lzn[v] = InitialLzn[v] - licenses[v]
  /\ bank.locked = SumFunctionOnSet(licenses, Validators)

Covered == TypeOK /\ (Funded => Locked)

LEMMA CoveredIsLocked == Covered => FundedLicensesAreLocked
<1>. SUFFICES ASSUME Covered PROVE FundedLicensesAreLocked
  OBVIOUS
<1>1. StoreTypeOK
  BY DEF Covered, TypeOK
<1>2. GetTotalActivatedLizenz(licenses) = SumFunctionOnSet(licenses, Validators)
  BY <1>1, LicensesAreNumbers
<1>. QED BY <1>2 DEF Covered, Funded, Locked, FundedLicensesAreLocked

LEMMA InitLocked == Init => Locked
<1>. SUFFICES ASSUME Init PROVE Locked
  OBVIOUS
<1>1. /\ \A v \in Validators : licenses[v] = 0
      /\ bank.lzn = InitialLzn /\ bank.locked = 0
      /\ InitialLzn \in [Validators -> Nat] /\ IsFiniteSet(Validators)
  BY LicenseConstants DEF Init, EmptyStore
<1>2. SumFunctionOnSet(licenses, Validators) = 0
  BY <1>1, SumZero
<1>3. \A v \in Validators : InitialLzn[v] - 0 = InitialLzn[v]
  BY <1>1
<1>. QED BY <1>1, <1>2, <1>3 DEF Locked

LEMMA ActivationLocks ==
  ASSUME StoreTypeOK, Funded, Locked,
         NEW v \in Validators, NEW n \in Amounts, SetActivatedLizenz(v, n)
  PROVE  Locked'
<1>1. /\ n \in Nat /\ n <= MaxLznAmount /\ licenses[v] = 0
      /\ licenses' = [licenses EXCEPT ![v] = n] /\ bank' = Lock(bank, v, n)
  BY ActivationTyped
<1>2. /\ bank \in Banks /\ licenses \in [Validators -> Nat] /\ IsFiniteSet(Validators)
      /\ Summable(licenses, Validators) /\ SumFunctionOnSet(licenses, Validators) \in Nat
      /\ InitialLzn \in [Validators -> Nat] /\ MaxLznAmount \in Nat
  BY LicensesAreNumbers, LicenseConstants
<1>3. bank.lzn[v] = InitialLzn[v] /\ bank.lzn[v] >= n
  <2>1. bank.lzn[v] = InitialLzn[v] - 0 /\ InitialLzn[v] >= MaxLznAmount
    BY <1>1 DEF Locked, Funded
  <2>2. InitialLzn[v] \in Nat
    BY <1>2
  <2>. QED BY <1>1, <1>2, <2>1, <2>2
<1>4. bank' = [lzn |-> [bank.lzn EXCEPT ![v] = @ - n], locked |-> bank.locked + n]
  BY <1>1, <1>3 DEF Lock
<1>5. ASSUME NEW u \in Validators PROVE bank'.lzn[u] = InitialLzn[u] - licenses'[u]
  <2>1. CASE u = v
    BY <1>1, <1>2, <1>3, <1>4, <2>1 DEF Banks
  <2>2. CASE u # v
    BY <1>1, <1>2, <1>4, <2>2 DEF Banks, Locked
  <2>. QED BY <2>1, <2>2
<1>6. SumFunctionOnSet(licenses', Validators) = SumFunctionOnSet(licenses, Validators) + n
  <2>1. \A u \in Validators : licenses'[u] \in Nat
    BY <1>1, <1>2
  <2>2. Summable(licenses', Validators)
    BY <1>2, <2>1, SumNat
  <2>3. \A u \in Validators \ {v} : licenses'[u] = licenses[u]
    BY <1>1, <1>2
  <2>4. SumFunctionOnSet(licenses', Validators)
          = SumFunctionOnSet(licenses, Validators) + licenses'[v] - licenses[v]
    BY <1>2, <2>2, <2>3, SumUpdate
  <2>. QED BY <1>1, <1>2, <2>4
<1>. QED BY <1>4, <1>5, <1>6 DEF Locked

(* The bank covers what any set of licenses has locked, and the rest keeps *)
(* the rest locked.                                                        *)
LEMMA PartIsCovered ==
  ASSUME StoreTypeOK, NEW S \in SUBSET Validators
  PROVE  /\ SumFunctionOnSet(licenses, S) \in Nat
         /\ SumFunctionOnSet(licenses, Validators \ S) \in Nat
         /\ SumFunctionOnSet(licenses, Validators)
              = SumFunctionOnSet(licenses, S) + SumFunctionOnSet(licenses, Validators \ S)
<1>1. /\ licenses \in [Validators -> Nat] /\ IsFiniteSet(Validators)
      /\ Summable(licenses, Validators)
  BY LicensesAreNumbers
<1>2. /\ IsFiniteSet(S) /\ IsFiniteSet(Validators \ S)
      /\ \A v \in S : licenses[v] \in Nat /\ \A u \in Validators \ S : licenses[u] \in Nat
  BY <1>1, FS_Subset
<1>3. /\ SumFunctionOnSet(licenses, S) \in Nat
      /\ SumFunctionOnSet(licenses, Validators \ S) \in Nat
  <2>1. SumFunctionOnSet(licenses, S) \in Nat
    BY <1>2, SumNat
  <2>2. Validators \ S \in SUBSET Validators
    OBVIOUS
  <2>3. \A u \in Validators \ S : licenses[u] \in Nat
    BY <1>1
  <2>4. SumFunctionOnSet(licenses, Validators \ S) \in Nat
    BY <1>2, <2>3, SumNat
  <2>. QED BY <2>1, <2>4
<1>. QED BY <1>1, <1>3, SumSplit

(* Without the licenses of a set, the coins behind the others are locked   *)
(* and the set's own are back in its hands.                                *)
LEMMA LockedWithout ==
  ASSUME StoreTypeOK, Locked, NEW S \in SUBSET Validators,
         licenses' = [v \in Validators |-> IF v \in S THEN 0 ELSE licenses[v]],
         \A v \in Validators :
           bank'.lzn[v] = IF v \in S THEN bank.lzn[v] + licenses[v] ELSE bank.lzn[v],
         bank'.locked = bank.locked - SumFunctionOnSet(licenses, S)
  PROVE  Locked'
<1>1. /\ licenses \in [Validators -> Nat] /\ Summable(licenses, Validators)
      /\ InitialLzn \in [Validators -> Nat]
  BY LicensesAreNumbers, LicenseConstants
<1>2. ASSUME NEW v \in Validators PROVE bank'.lzn[v] = InitialLzn[v] - licenses'[v]
  <2>1. /\ bank.lzn[v] = InitialLzn[v] - licenses[v]
        /\ licenses[v] \in Nat /\ InitialLzn[v] \in Nat
    BY <1>1 DEF Locked
  <2>2. CASE v \in S
    BY <2>1, <2>2
  <2>3. CASE v \notin S
    BY <2>1, <2>3
  <2>. QED BY <2>2, <2>3
<1>3. SumFunctionOnSet(licenses', Validators) = SumFunctionOnSet(licenses, Validators \ S)
  <2>. DEFINE rest == Validators \ S
  <2>1. rest \in SUBSET Validators
    OBVIOUS
  <2>2. \A v \in Validators : licenses'[v] = IF v \in rest THEN licenses[v] ELSE 0
    OBVIOUS
  <2>. HIDE DEF rest
  <2>3. SumFunctionOnSet(licenses', Validators) = SumFunctionOnSet(licenses, rest)
    BY <1>1, <2>1, <2>2, SumOfPart
  <2>. QED BY <2>3 DEF rest
<1>4. bank.locked = SumFunctionOnSet(licenses, Validators)
  BY DEF Locked
<1>5. bank'.locked = SumFunctionOnSet(licenses', Validators)
  BY <1>3, <1>4, PartIsCovered
<1>. QED BY <1>2, <1>5 DEF Locked

LEMMA SumOfSingle ==
  ASSUME StoreTypeOK, NEW v \in Validators
  PROVE  SumFunctionOnSet(licenses, {v}) = licenses[v]
<1>1. {v} \in SUBSET Validators /\ {v} \ {v} = {}
  OBVIOUS
<1>2. Summable(licenses, Validators) /\ licenses[v] \in Nat
  BY LicensesAreNumbers
<1>3. Summable(licenses, {v})
  BY <1>1, <1>2, SumSubset
<1>4. SumFunctionOnSet(licenses, {v}) = licenses[v] + SumFunctionOnSet(licenses, {v} \ {v})
  <2>1. v \in {v}
    OBVIOUS
  <2>. QED BY <1>3, <2>1, SumRemove
<1>. QED BY <1>1, <1>2, <1>4, SumEmpty

LEMMA DeletionUnlocks ==
  ASSUME StoreTypeOK, Locked, NEW v \in Validators, DeleteActivatedLizenz(v)
  PROVE  Locked'
<1>1. licenses' = [licenses EXCEPT ![v] = 0] /\ bank' = Unlock(bank, v, licenses[v])
  BY DeletionTyped
<1>2. bank \in Banks /\ licenses \in [Validators -> Nat]
  BY LicensesAreNumbers
<1>3. /\ {v} \in SUBSET Validators /\ SumFunctionOnSet(licenses, {v}) = licenses[v]
      /\ bank.locked = SumFunctionOnSet(licenses, Validators)
  BY SumOfSingle DEF Locked
<1>4. bank.locked >= licenses[v]
  <2>1. licenses[v] \in Nat
    BY <1>2
  <2>. DEFINE one == {v}
  <2>2. one \in SUBSET Validators /\ SumFunctionOnSet(licenses, one) = licenses[v]
    BY <1>3
  <2>. HIDE DEF one
  <2>3. /\ SumFunctionOnSet(licenses, Validators \ one) \in Nat
        /\ SumFunctionOnSet(licenses, Validators)
             = SumFunctionOnSet(licenses, one) + SumFunctionOnSet(licenses, Validators \ one)
    BY <2>2, PartIsCovered
  <2>. QED BY <1>3, <2>1, <2>2, <2>3
<1>5. bank' = [lzn |-> [bank.lzn EXCEPT ![v] = @ + licenses[v]],
               locked |-> bank.locked - licenses[v]]
  BY <1>1, <1>4 DEF Unlock
<1>6. licenses' = [u \in Validators |-> IF u \in {v} THEN 0 ELSE licenses[u]]
  BY <1>1, <1>2
<1>7. \A u \in Validators :
        bank'.lzn[u] = IF u \in {v} THEN bank.lzn[u] + licenses[u] ELSE bank.lzn[u]
  BY <1>2, <1>5 DEF Banks
<1>8. bank'.locked = bank.locked - SumFunctionOnSet(licenses, {v})
  BY <1>3, <1>5
<1>. QED BY <1>3, <1>6, <1>7, <1>8, LockedWithout

(* What the bank holds when the licenses at the indices t of the order     *)
(* have been unlocked.                                                     *)
Met(order, t) == {order[i] : i \in t}

Unlocked(S) ==
  [lzn |-> [v \in Validators |-> IF v \in S THEN bank.lzn[v] + licenses[v] ELSE bank.lzn[v]],
   locked |-> bank.locked - SumFunctionOnSet(licenses, S)]

LEMMA UnlockedSoFar ==
  ASSUME StoreTypeOK, Locked, NEW S \in SUBSET Validators, NEW order \in SetToSeqs(S)
  PROVE  UnlockedInOrder(order) = Unlocked(S)
<1>1. /\ order \in Seq(Validators) /\ S = {order[i] : i \in DOMAIN order}
      /\ \A i, j \in DOMAIN order : order[i] = order[j] => i = j
  BY OrdersEnumerate
<1>2. PICK g \in [SUBSET (DOMAIN order) -> Banks] :
        IsFold(g, Banks, Unlocks, bank, order) /\ UnlockedInOrder(order) = g[DOMAIN order]
  BY <1>1, UnlockingFolds
<1>3. \A b \in Banks, v \in Validators : Unlocks[b][v] = Unlock(b, v, licenses[v])
  BY UnlocksFoldable
<1>4. bank \in Banks /\ licenses \in [Validators -> Nat] /\ Summable(licenses, Validators)
  BY LicensesAreNumbers
<1>. DEFINE P == {t \in SUBSET (DOMAIN order) : g[t] = Unlocked(Met(order, t))}
<1>5. {} \in P
  <2>1. Met(order, {}) = {}
    BY DEF Met
  <2>2. SumFunctionOnSet(licenses, {}) = 0
    BY SumEmpty
  <2>3. Unlocked({}) = bank
    <3>1. /\ bank.locked \in Nat /\ bank.lzn \in [Validators -> Nat]
          /\ bank = [lzn |-> bank.lzn, locked |-> bank.locked]
      BY <1>4 DEF Banks
    <3>2. Unlocked({}) = [lzn |-> [v \in Validators |-> bank.lzn[v]], locked |-> bank.locked - 0]
      BY <2>2 DEF Unlocked
    <3>3. bank.locked - 0 = bank.locked /\ [v \in Validators |-> bank.lzn[v]] = bank.lzn
      BY <3>1
    <3>. QED BY <3>1, <3>2, <3>3
  <2>4. g[{}] = bank
    BY <1>2 DEF IsFold
  <2>. QED BY <2>1, <2>3, <2>4
<1>6. ASSUME NEW t \in SUBSET (DOMAIN order), t # {}, \A i \in t : t \ {i} \in P
      PROVE  t \in P
  <2>. DEFINE m == Max(t)
              v == order[m]
              T == Met(order, t)
              R == Met(order, t \ {m})
  <2>1. m \in t /\ v \in Validators /\ t \ {m} \in SUBSET (DOMAIN order)
    BY <1>1, <1>6, LastIndex
  <2>2. g[t] = Unlock(g[t \ {m}], v, licenses[v]) /\ g[t \ {m}] \in Banks
    <3>1. g[t \ {m}] \in Banks
      BY <2>1
    <3>2. g[t] = Unlocks[g[t \ {m}]][v]
      BY <1>2, <1>6, <3>1 DEF IsFold
    <3>. QED BY <1>3, <2>1, <3>1, <3>2
  <2>3. g[t \ {m}] = Unlocked(R)
    BY <1>6, <2>1
  <2>. HIDE DEF m
  <2>4. v \in T /\ R = T \ {v} /\ T \in SUBSET Validators
    <3>1. \A i \in t : i \in DOMAIN order /\ order[i] \in Validators
      BY <1>1
    <3>2. v \in T
      BY <2>1 DEF Met
    <3>3. T \in SUBSET Validators
      BY <3>1 DEF Met
    <3>4. \A i \in t : order[i] = v => i = m
      BY <1>1, <2>1, <3>1
    <3>5. R = T \ {v}
      BY <2>1, <3>4 DEF Met
    <3>. QED BY <3>2, <3>3, <3>5
  <2>. HIDE DEF v, T, R
  <2>5. /\ SumFunctionOnSet(licenses, T) = licenses[v] + SumFunctionOnSet(licenses, R)
        /\ SumFunctionOnSet(licenses, T) \in Nat /\ SumFunctionOnSet(licenses, R) \in Nat
        /\ SumFunctionOnSet(licenses, T) <= bank.locked
        /\ licenses[v] \in Nat /\ bank.locked \in Nat
    <3>1. Summable(licenses, T)
      BY <1>4, <2>4, SumSubset
    <3>2. SumFunctionOnSet(licenses, T) = licenses[v] + SumFunctionOnSet(licenses, R)
      BY <2>4, <3>1, SumRemove
    <3>3. R \in SUBSET Validators
      BY <2>4
    <3>4. /\ SumFunctionOnSet(licenses, T) \in Nat /\ SumFunctionOnSet(licenses, R) \in Nat
          /\ SumFunctionOnSet(licenses, Validators \ T) \in Nat
          /\ SumFunctionOnSet(licenses, Validators)
               = SumFunctionOnSet(licenses, T) + SumFunctionOnSet(licenses, Validators \ T)
      BY <2>4, <3>3, PartIsCovered
    <3>5. bank.locked = SumFunctionOnSet(licenses, Validators) /\ bank.locked \in Nat
      BY <1>4 DEF Locked, Banks
    <3>6. licenses[v] \in Nat
      BY <1>4, <2>1
    <3>. QED BY <3>2, <3>4, <3>5, <3>6
  <2>6. Unlocked(R).locked >= licenses[v]
    BY <2>5 DEF Unlocked
  <2>7. g[t] = [lzn |-> [Unlocked(R).lzn EXCEPT ![v] = @ + licenses[v]],
                locked |-> Unlocked(R).locked - licenses[v]]
    BY <2>2, <2>3, <2>6 DEF Unlock
  <2>8. Unlocked(R).locked - licenses[v] = bank.locked - SumFunctionOnSet(licenses, T)
    BY <2>5 DEF Unlocked
  <2>9. [Unlocked(R).lzn EXCEPT ![v] = @ + licenses[v]]
          = [u \in Validators |-> IF u \in T THEN bank.lzn[u] + licenses[u] ELSE bank.lzn[u]]
    BY <2>1, <2>4 DEF Unlocked
  <2>10. g[t] = Unlocked(T)
    BY <2>7, <2>8, <2>9 DEF Unlocked
  <2>. QED BY <2>10 DEF T
<1>7. DOMAIN order \in P
  <2>1. IsFiniteSet(DOMAIN order)
    <3>1. DOMAIN order = 1..Len(order) /\ Len(order) \in Nat
      BY <1>1
    <3>. QED BY <3>1, FS_Interval
  <2>. HIDE DEF P
  <2>2. SUBSET (DOMAIN order) \subseteq P
    BY <1>5, <1>6, <2>1, SubsetInduction
  <2>. QED BY <2>2
<1>8. Met(order, DOMAIN order) = S
  BY <1>1 DEF Met
<1>. QED BY <1>2, <1>7, <1>8

LEMMA BlockUnlocks ==
  ASSUME StoreTypeOK, Locked, NEW step \in TimeSteps, BeginBlock(step)
  PROVE  Locked'
<1>. DEFINE S == Inactive(step)
<1>1. S \in SUBSET Validators
  BY DEF Inactive, Holders
<1>2. licenses' = [v \in Validators |-> IF v \in S THEN 0 ELSE licenses[v]]
  BY DEF BeginBlock
<1>3. PICK order \in SetToSeqs(S) : bank' = UnlockedInOrder(order)
  BY DEF BeginBlock
<1>. HIDE DEF S
<1>4. bank' = Unlocked(S)
  BY <1>1, <1>3, UnlockedSoFar
<1>5. /\ \A v \in Validators :
           bank'.lzn[v] = IF v \in S THEN bank.lzn[v] + licenses[v] ELSE bank.lzn[v]
      /\ bank'.locked = bank.locked - SumFunctionOnSet(licenses, S)
  BY <1>4 DEF Unlocked
<1>. QED BY <1>1, <1>2, <1>5, LockedWithout

LEMMA StepCovered == Covered /\ [Next]_vars => Covered'
<1>. SUFFICES ASSUME Covered, [Next]_vars PROVE Covered'
  OBVIOUS
<1>1. TypeOK' /\ StoreTypeOK
  BY StepTyped DEF Covered, TypeOK
<1>2. SUFFICES ASSUME Funded, Locked PROVE Locked'
  BY <1>1 DEF Covered, Funded
<1>3. ASSUME licenses' = licenses, bank' = bank PROVE Locked'
  BY <1>2, <1>3 DEF Locked
<1>4. ASSUME NEW v \in Validators, NEW n \in Amounts, ActivateLZN(v, n) PROVE Locked'
  BY <1>1, <1>2, <1>4, ActivationLocks DEF ActivateLZN
<1>5. ASSUME NEW v \in Validators, DeactivateLZN(v) PROVE Locked'
  BY <1>1, <1>2, <1>5, DeletionUnlocks DEF DeactivateLZN
<1>6. ASSUME NEW v \in Validators, UpdateLizenzActivity(v) PROVE Locked'
  BY <1>3, <1>6 DEF UpdateLizenzActivity
<1>7. ASSUME NEW v \in Validators, NEW r \in Reports, Report(v, r) PROVE Locked'
  BY <1>3, <1>7 DEF Report, SetMOAStatus
<1>8. CASE Blocks
  BY <1>1, <1>2, <1>8, BlockUnlocks DEF Blocks
<1>9. CASE UNCHANGED vars
  BY <1>3, <1>9 DEF vars, store
<1>. QED BY <1>1, <1>4, <1>5, <1>6, <1>7, <1>8, <1>9 DEF Next

(* If every account can cover the largest license, its coins are in its    *)
(* hands or locked behind its license, and the module account holds what   *)
(* the licenses ask for, whoever activates, deactivates or is put out of   *)
(* a license by a block, in whatever order.                                *)
THEOREM LicensesStayLocked == Spec => []FundedLicensesAreLocked
<1>1. Init => Covered
  BY InitTyped, InitLocked DEF Covered
<1>. QED BY <1>1, StepCovered, CoveredIsLocked, PTL DEF Spec
=============================================================================
