---------------------------- MODULE LicenseStore ----------------------------
(***************************************************************************)
(* The licenses of x/lizenz and what their keeper writes elsewhere when    *)
(* one is created or deleted: the coins it locks in the bank, the          *)
(* validator and the weight it registers in x/consensus, the ANT position  *)
(* it resets in x/anteil.  The lizenz module and the block creation of     *)
(* x/consensus both work on this state and extend this module.             *)
(***************************************************************************)
EXTENDS Integers, FiniteSets, FiniteSetsExt, Functions

CONSTANTS
  Validators,       \* addresses
  Amounts,          \* amounts a license may ask for, in LZN
  MinLznAmount,
  MaxLznAmount,
  InitialLzn,       \* [Validators -> Nat], coins of the accounts
  InitialAnt,       \* [Validators -> Nat], ANT positions
  Reports,          \* MOA reports: records [current, required] in tenths
  NoStatus          \* a validator without a MOA status

ASSUME LicenseConstants ==
  /\ IsFiniteSet(Validators)
  /\ Amounts \subseteq Nat
  /\ MinLznAmount \in Nat \ {0} /\ MaxLznAmount \in Nat
  /\ InitialLzn \in [Validators -> Nat] /\ InitialAnt \in [Validators -> Nat]
  /\ Reports \subseteq [current : Nat, required : Nat]
  /\ NoStatus \notin [current : Nat, required : Nat]

VARIABLES
  licenses,     \* activated amount per validator, 0 without a license
  bank,         \* LZN of the accounts and of the lizenz module account
  moa,          \* MOA status per validator, or NoStatus
  registered,   \* validator records of x/consensus: "none", "active" or "dormant"
  weights,      \* validator weights of x/consensus, 0 without one
  positions     \* ANT of the validators in x/anteil

store == <<licenses, bank, moa, registered, weights, positions>>

StoreTypeOK ==
  /\ licenses \in [Validators -> {0} \cup (MinLznAmount..MaxLznAmount)]
  /\ bank \in [lzn : [Validators -> Nat], locked : Nat]
  /\ moa \in [Validators -> {NoStatus} \cup [current : Nat, required : Nat]]
  /\ registered \in [Validators -> {"none", "active", "dormant"}]
  /\ weights \in [Validators -> Nat]
  /\ positions \in [Validators -> Nat]

EmptyStore ==
  /\ licenses = [v \in Validators |-> 0]
  /\ bank = [lzn |-> InitialLzn, locked |-> 0]
  /\ moa = [v \in Validators |-> NoStatus]
  /\ registered = [v \in Validators |-> "none"]
  /\ weights = [v \in Validators |-> 0]
  /\ positions = InitialAnt

-----------------------------------------------------------------------------
Licensed(v) == licenses[v] # 0

Holders == {v \in Validators : Licensed(v)}

GetTotalActivatedLizenz(held) == SumFunction(held)

(* The 33% rule: v may hold n if nobody else holds a license, or if n is   *)
(* at most a third of the pool that would result.  The code rounds the     *)
(* third down to an integer, which decides integers the same way.          *)
ValidateMaxLznActivationLimit(held, v, n) ==
  LET total == GetTotalActivatedLizenz(held) IN
    \/ total = held[v]
    \/ 100 * n <= 33 * (total - held[v] + n)

(* Mutant: the upper limit is not tested.                                  *)
validateLizenzAmountFromBelow(n) == n >= MinLznAmount

validateLizenzAmount(n) == n \in MinLznAmount..MaxLznAmount

(* UpdateActivatedLizenz accepts the license v holds: the 33% rule is      *)
(* tested again, although the amount does not change.                      *)
MayUpdate(v) == Licensed(v) /\ ValidateMaxLznActivationLimit(licenses, v, licenses[v])

(* The bank: a transfer without cover fails and changes nothing, and the   *)
(* keeper only logs the failure.                                           *)
Lock(b, v, n) ==
  IF b.lzn[v] >= n
  THEN [lzn |-> [b.lzn EXCEPT ![v] = @ - n], locked |-> b.locked + n]
  ELSE b

(* Mutant: unlocking leaves the coins in the module account.               *)
UnlockKeeping(b, v, n) ==
  IF b.locked >= n THEN [b EXCEPT !.lzn[v] = @ + n] ELSE b

Unlock(b, v, n) ==
  IF b.locked >= n
  THEN [lzn |-> [b.lzn EXCEPT ![v] = @ + n], locked |-> b.locked - n]
  ELSE b

(* What SetActivatedLizenz asks of a new license, given those held.        *)
MayActivate(held, v, n) ==
  /\ held[v] = 0
  /\ validateLizenzAmount(n)
  /\ ValidateMaxLznActivationLimit(held, v, n)

(* registerValidatorInConsensus: a fresh validator record, the weight of   *)
(* the license, and an empty ANT position in place of the one there was.   *)
registerValidatorInConsensus(v, n) ==
  /\ registered' = [registered EXCEPT ![v] = "active"]
  /\ weights' = [weights EXCEPT ![v] = n]
  /\ positions' = [positions EXCEPT ![v] = 0]

(* SetActivatedLizenz, as the message ActivateLZN calls it.  The identity  *)
(* check is skipped in the application, which never gives this keeper an   *)
(* identity keeper.                                                        *)
SetActivatedLizenz(v, n) ==
  /\ MayActivate(licenses, v, n)
  /\ licenses' = [licenses EXCEPT ![v] = n]
  /\ bank' = Lock(bank, v, n)
  /\ registerValidatorInConsensus(v, n)
  /\ UNCHANGED moa

(* DeleteActivatedLizenz: validator record and weight stay behind.         *)
DeleteActivatedLizenz(v) ==
  /\ Licensed(v)
  /\ licenses' = [licenses EXCEPT ![v] = 0]
  /\ bank' = Unlock(bank, v, licenses[v])
  /\ UNCHANGED <<moa, registered, weights, positions>>

(* SetMOAStatus.  The flag IsCompliant, which nothing reads, is left out.   *)
SetMOAStatus(v, report) ==
  /\ moa' = [moa EXCEPT ![v] = report]
  /\ UNCHANGED <<licenses, bank, registered, weights, positions>>

(* GetMOACompliance >= limit, for a limit in hundredths: a validator       *)
(* without a status, or with nothing required of it, complies fully.       *)
ComplianceAtLeast(v, limit) ==
  IF moa[v] = NoStatus \/ moa[v].required = 0 THEN limit <= 100
  ELSE 100 * moa[v].current >= limit * moa[v].required
=============================================================================
