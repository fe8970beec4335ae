------------------------------- MODULE Lizenz -------------------------------
(***************************************************************************)
(* The keeper of x/lizenz with its BeginBlocker: licenses are activated,   *)
(* kept alive by activity, put into deactivation when idle and transferred *)
(* by the keeper's callers.  Time is kept as ages, all in one unit, that   *)
(* are compared with periods only, so they stop growing at MaxAge.         *)
(***************************************************************************)
EXTENDS LicenseStore, SequencesExt

CONSTANTS
  InactivityPeriod,
  DeactivationPeriod,
  Grace,             \* the 24 hours NewDeactivatingLizenz adds
  MaxAge,            \* bound on ages
  TimeSteps,         \* distances between blocks
  NotDeactivating

ASSUME LizenzConstants ==
  /\ InactivityPeriod \in Nat /\ DeactivationPeriod \in Nat /\ Grace \in Nat
  /\ MaxAge \in Nat
  /\ MaxAge > InactivityPeriod /\ MaxAge > Grace + DeactivationPeriod
  /\ TimeSteps \subseteq Nat \ {0}
  /\ NotDeactivating \notin Nat

VARIABLES
  idle,           \* age of the license's last activity, 0 without a license
  deactivating    \* age of the deactivation record, or NotDeactivating

vars == <<store, idle, deactivating>>

Ages == 0..MaxAge

TypeOK ==
  /\ StoreTypeOK
  /\ idle \in [Validators -> Ages]
  /\ deactivating \in [Validators -> Ages \cup {NotDeactivating}]

Init ==
  /\ EmptyStore
  /\ idle = [v \in Validators |-> 0]
  /\ deactivating = [v \in Validators |-> NotDeactivating]

-----------------------------------------------------------------------------
ActivateLZN(v, n) ==
  /\ SetActivatedLizenz(v, n)
  /\ idle' = [idle EXCEPT ![v] = 0]
  /\ UNCHANGED deactivating

DeactivateLZN(v) ==
  /\ DeleteActivatedLizenz(v)
  /\ idle' = [idle EXCEPT ![v] = 0]
  /\ UNCHANGED deactivating

Report(v, report) ==
  /\ SetMOAStatus(v, report)
  /\ UNCHANGED <<idle, deactivating>>

(* UpdateMOAStatusActivity: every caller's activity is worth "85.5".       *)
Refreshed(status) ==
  IF status = NoStatus THEN status ELSE [status EXCEPT !.current = 855]

(* UpdateLizenzActivity: a license over the 33% limit cannot be written    *)
(* back, and the MOA status is not touched either then.                    *)
UpdateLizenzActivity(v) ==
  /\ Licensed(v) => MayUpdate(v)
  /\ idle' = [idle EXCEPT ![v] = 0]
  /\ moa' = [moa EXCEPT ![v] = Refreshed(@)]
  /\ UNCHANGED <<licenses, bank, registered, weights, positions, deactivating>>

-----------------------------------------------------------------------------
Older(age, step) == IF age + step < MaxAge THEN age + step ELSE MaxAge

Inactive(step) == {v \in Holders : Older(idle[v], step) > InactivityPeriod}

(* Mutant: the record is dropped by a block at the very end of the period. *)
CompletedExactly(v, step) ==
  /\ deactivating[v] # NotDeactivating
  /\ Older(deactivating[v], step) = Grace + DeactivationPeriod

(* DeactivationEnd, a day after the start, lies a DeactivationPeriod back. *)
Completed(v, step) ==
  /\ deactivating[v] # NotDeactivating
  /\ Older(deactivating[v], step) > Grace + DeactivationPeriod

(* CheckInactiveLizenz fails, and with it the block, on an idle license    *)
(* whose validator has a deactivation record already.                      *)
BeginBlockerFails(step) ==
  \E v \in Inactive(step) : deactivating[v] # NotDeactivating

(* CheckInactiveLizenz unlocks one license after the other, in the order   *)
(* of the addresses.                                                       *)
UnlockedInOrder(order) ==
  FoldLeft(LAMBDA b, v : Unlock(b, v, licenses[v]), bank, order)

(* CheckInactiveLizenz, then ProcessDeactivatingLizenz: a record written   *)
(* by the first is too young for the second.                               *)
DeactivatingAfter(step) ==
  [v \in Validators |->
     IF v \in Inactive(step) THEN 0
     ELSE IF deactivating[v] = NotDeactivating \/ Completed(v, step) THEN NotDeactivating
     ELSE Older(deactivating[v], step)]

(* The next block, step later, and its BeginBlocker.                       *)
BeginBlock(step) ==
  /\ ~BeginBlockerFails(step)
  /\ deactivating' = DeactivatingAfter(step)
  /\ licenses' = [v \in Validators |-> IF v \in Inactive(step) THEN 0 ELSE licenses[v]]
  /\ idle' = [v \in Validators |->
                IF v \in Holders \ Inactive(step) THEN Older(idle[v], step) ELSE 0]
  /\ \E order \in SetToSeqs(Inactive(step)) : bank' = UnlockedInOrder(order)
  /\ UNCHANGED <<moa, registered, weights, positions>>

Blocks == \E step \in TimeSteps : BeginBlock(step)

Next ==
  \/ \E v \in Validators, n \in Amounts : ActivateLZN(v, n)
  \/ \E v \in Validators : DeactivateLZN(v) \/ UpdateLizenzActivity(v)
  \/ \E v \in Validators, r \in Reports : Report(v, r)
  \/ Blocks

Spec == Init /\ [][Next]_vars

(* TransferLizenz, which no message calls: the license is deleted first,   *)
(* and is lost when the receiver may not have it.  It keeps its age.       *)
TransferLizenz(from, to) ==
  LET n == licenses[from]
      held == [licenses EXCEPT ![from] = 0]
      unlocked == Unlock(bank, from, n)
  IN /\ Licensed(from)
     /\ IF MayActivate(held, to, n)
        THEN /\ licenses' = [held EXCEPT ![to] = n]
             /\ bank' = Lock(unlocked, to, n)
             /\ registerValidatorInConsensus(to, n)
             /\ idle' = [idle EXCEPT ![from] = 0, ![to] = idle[from]]
        ELSE /\ licenses' = held
             /\ bank' = unlocked
             /\ idle' = [idle EXCEPT ![from] = 0]
             /\ UNCHANGED <<registered, weights, positions>>
     /\ UNCHANGED <<moa, deactivating>>

(* UpdateLizenz, which no message calls either: no coins move with the     *)
(* amount, and only the 33% rule limits it.                                *)
UpdateLizenz(v, n) ==
  /\ Licensed(v) /\ ValidateMaxLznActivationLimit(licenses, v, n)
  /\ licenses' = [licenses EXCEPT ![v] = n]
  /\ UNCHANGED <<bank, moa, registered, weights, positions, idle, deactivating>>

KeeperSpec ==
  /\ Init
  /\ [][\/ Next
        \/ \E v, w \in Validators : TransferLizenz(v, w)
        \/ \E v \in Validators, n \in Amounts : UpdateLizenz(v, n)]_vars

-----------------------------------------------------------------------------
(* An account's coins are in its hands or locked behind its license, never *)
(* both and never neither, if every account can cover the largest license: *)
(* then ignoring the result of the bank's transfers does no harm.          *)
FundedLicensesAreLocked ==
  (\A v \in Validators : InitialLzn[v] >= MaxLznAmount) =>
    /\ \A v \in Validators : bank.lzn[v] = InitialLzn[v] - licenses[v]
    /\ bank.locked = GetTotalActivatedLizenz(licenses)

(* The periods leave a record time to go before its validator's next       *)
(* license can be idle.                                                    *)
PeriodsFit ==
  \A step \in TimeSteps : Grace + DeactivationPeriod + step <= InactivityPeriod

(* CheckInactiveLizenz never meets the record of an earlier deactivation,  *)
(* so BeginBlocker never fails a block, whatever is activated, deactivated *)
(* and activated again, if the periods fit.                                *)
BlockersNeverFail ==
  PeriodsFit => \A step \in TimeSteps : ~BeginBlockerFails(step)

(* "LZN tokens are unlocked when deactivated": an account gets its own     *)
(* coins back, no others.                                                  *)
UnlocksOnlyWhatWasLocked ==
  \A v \in Validators : bank.lzn[v] <= InitialLzn[v]
=============================================================================
