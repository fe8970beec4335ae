-------------------------------- MODULE Ident --------------------------------
(***************************************************************************)
(* The accounts of x/ident: verification, role changes, migrations to      *)
(* another address, and the two blockers that watch activity.  An account  *)
(* carries the hash of an identity; a second map says which address a hash *)
(* belongs to, and is what keeps an identity from being verified twice.    *)
(***************************************************************************)
EXTENDS Integers, FiniteSets

CONSTANTS
  Addresses,
  Proofs,              \* proofs of identity, all of at least 64 characters
  Identities,          \* the first 16 characters of a proof
  IdentityOf,          \* [Proofs -> Identities]
  ProviderIds,
  MaxIdentities,       \* MaxIdentitiesPerAddress
  CitizenPeriod,       \* CitizenActivityPeriod
  ValidatorPeriod,     \* ValidatorActivityPeriod
  TimeSteps,           \* distances between blocks
  InitialAnt,          \* ANT of every address
  NoAccount, Nobody, NoProvider

ASSUME IdentConstants ==
  /\ IsFiniteSet(Addresses)
  /\ IdentityOf \in [Proofs -> Identities]
  /\ MaxIdentities \in Nat \ {0}
  /\ CitizenPeriod \in Nat \ {0} /\ ValidatorPeriod \in Nat \ {0}
  /\ TimeSteps \subseteq Nat
  /\ InitialAnt \in Nat
  /\ Nobody \notin Addresses /\ NoProvider \notin ProviderIds

Roles == {"citizen", "validator", "guest"}

(* A verified account has the hash of its proof, a migrated one the pair   *)
(* of addresses of its migration.                                          *)
Hashes == Identities \cup (Addresses \X Addresses)

AccountType == [role : Roles, hash : Hashes, active : BOOLEAN, idle : Nat]

ASSUME NoAccountIsNone == NoAccount \notin AccountType

VARIABLES
  accounts,     \* verified accounts; "idle" is the age of LastActive
  owners,       \* address an identity hash belongs to, or Nobody
  proofs,       \* proofs used already
  providers,    \* registered verification providers
  ant,          \* ANT positions, which a citizen loses with the role
  inBlock,      \* whether the block's EndBlocker is still to come
  halted        \* whether two blocks were ever further apart than a period

vars == <<accounts, owners, proofs, providers, ant, inBlock, halted>>

TypeOK ==
  /\ accounts \in [Addresses -> AccountType \cup {NoAccount}]
  /\ owners \in [Hashes -> Addresses \cup {Nobody}]
  /\ proofs \subseteq Proofs
  /\ providers \subseteq ProviderIds
  /\ ant \in [Addresses -> Nat]
  /\ inBlock \in BOOLEAN /\ halted \in BOOLEAN

Init ==
  /\ accounts = [a \in Addresses |-> NoAccount]
  /\ owners = [h \in Hashes |-> Nobody]
  /\ proofs = {} /\ providers = {}
  /\ ant = [a \in Addresses |-> InitialAnt]
  /\ inBlock = FALSE /\ halted = FALSE

-----------------------------------------------------------------------------
Verified == {a \in Addresses : accounts[a] # NoAccount}

GetVerifiedAccountsByRole(role) == {a \in Verified : accounts[a].role = role}

(* Mutant: the account that would be one too many is let in.               *)
checkAccountLimitsOneMore(role) ==
  /\ role \in {"citizen", "validator"}
  /\ Cardinality(GetVerifiedAccountsByRole(role)) <= MaxIdentities

(* checkAccountLimits counts the accounts of the role, whoever they belong *)
(* to; there is no limit that lets a guest in.                             *)
checkAccountLimits(role) ==
  /\ role \in {"citizen", "validator"}
  /\ Cardinality(GetVerifiedAccountsByRole(role)) < MaxIdentities

(* SetVerifiedAccount claims the hash for the address.                     *)
Claimed(address, hash) == [owners EXCEPT ![hash] = address]

(* Mutant: an address that has an account may be given another.            *)
MaySetAgain(address, role, hash) ==
  /\ owners[hash] = Nobody
  /\ MaxIdentities < 10000 => checkAccountLimits(role)

(* What SetVerifiedAccount asks of a new account.  A limit of 10000 or     *)
(* more is not tested.                                                     *)
MaySet(address, role, hash) ==
  /\ accounts[address] = NoAccount
  /\ owners[hash] = Nobody
  /\ MaxIdentities < 10000 => checkAccountLimits(role)

(* The node's clock, which stamps an account, is taken for the block's.    *)
NewAccount(role, hash) == [role |-> role, hash |-> hash, active |-> TRUE, idle |-> 0]

(* VerifyIdentity.  An unknown provider fails it, no provider does not.    *)
VerifyIdentity(address, proof, provider, role) ==
  /\ inBlock
  /\ provider \in providers \cup {NoProvider}
  /\ role \in {"citizen", "validator"}
  /\ proof \notin proofs
  /\ MaySet(address, role, IdentityOf[proof])
  /\ proofs' = proofs \cup {proof}
  /\ accounts' = [accounts EXCEPT ![address] = NewAccount(role, IdentityOf[proof])]
  /\ owners' = Claimed(address, IdentityOf[proof])
  /\ UNCHANGED <<providers, ant, inBlock, halted>>

(* MigrateRole, which executes the migration it stores, or fails with it:  *)
(* no pending migration is left for BeginBlocker.  The proof is not looked *)
(* at, the source keeps its role and its hash, and need not be active.     *)
MigrateRole(from, to) ==
  /\ inBlock
  /\ accounts[from] # NoAccount
  /\ MaySet(to, accounts[from].role, <<from, to>>)
  /\ accounts' = [accounts EXCEPT ![to] = NewAccount(accounts[from].role, <<from, to>>),
                                  ![from].active = FALSE]
  /\ owners' = Claimed(to, <<from, to>>)
  /\ UNCHANGED <<proofs, providers, ant, inBlock, halted>>

(* validateRoleChange: nobody steps down to guest.                         *)
validateRoleChange(old, new) == old = new \/ new # "guest"

(* ChangeRole.  The proof is only measured, and the hash not claimed.      *)
ChangeRole(address, role) ==
  /\ inBlock
  /\ accounts[address] # NoAccount
  /\ validateRoleChange(accounts[address].role, role)
  /\ checkAccountLimits(role)
  /\ accounts' = [accounts EXCEPT ![address].role = role, ![address].idle = 0]
  /\ UNCHANGED <<owners, proofs, providers, ant, inBlock, halted>>

(* RegisterVerificationProvider: anybody may, and accredits himself.       *)
RegisterVerificationProvider(id) ==
  /\ inBlock
  /\ providers' = providers \cup {id}
  /\ UNCHANGED <<accounts, owners, proofs, ant, inBlock, halted>>

-----------------------------------------------------------------------------
(* Mutant: the block time is subtracted from the last activity.            *)
AgedBackwards(step) ==
  [a \in Addresses |->
     IF accounts[a] = NoAccount THEN NoAccount
     ELSE [accounts[a] EXCEPT !.idle = @ - step]]

Aged(step) ==
  [a \in Addresses |->
     IF accounts[a] = NoAccount THEN NoAccount
     ELSE [accounts[a] EXCEPT !.idle = @ + step]]

ActivityPeriod(role) == IF role = "citizen" THEN CitizenPeriod ELSE ValidatorPeriod

(* The accounts checkAccountActivity deactivates.                          *)
Inactive(aged) ==
  {a \in Verified : /\ aged[a].role # "guest"
                    /\ aged[a].idle > ActivityPeriod(aged[a].role)}

(* ReleaseIdentityHash, whoever the hash belongs to by now.                *)
Released(inactive) ==
  [h \in Hashes |-> IF \E a \in inactive : accounts[a].hash = h THEN Nobody ELSE owners[h]]

(* BurnAntFromUser, for balances that are whole numbers: AntMarket has the *)
(* other ones too.                                                         *)
Burned(inactive) ==
  [a \in Addresses |->
     IF a \in inactive /\ accounts[a].role = "citizen" THEN 0 ELSE ant[a]]

(* The next block, step later, and its BeginBlocker.                       *)
BeginBlocker(step) ==
  LET aged == Aged(step)
      inactive == Inactive(aged)
  IN /\ ~inBlock
     /\ inBlock' = TRUE
     /\ accounts' = [a \in Addresses |->
                       IF a \in inactive THEN [aged[a] EXCEPT !.role = "guest"] ELSE aged[a]]
     /\ owners' = Released(inactive)
     /\ ant' = Burned(inactive)
     /\ halted' = (halted \/ step > CitizenPeriod \/ step > ValidatorPeriod)
     /\ UNCHANGED <<proofs, providers>>

(* Mutant: only active accounts are refreshed.                             *)
RefreshedActive ==
  [a \in Addresses |->
     IF accounts[a] # NoAccount /\ accounts[a].active
     THEN [accounts[a] EXCEPT !.idle = 0] ELSE accounts[a]]

(* updateAccountActivity: every block is activity of every account.        *)
Refreshed ==
  [a \in Addresses |->
     IF accounts[a] = NoAccount THEN NoAccount ELSE [accounts[a] EXCEPT !.idle = 0]]

EndBlocker ==
  /\ inBlock
  /\ inBlock' = FALSE
  /\ accounts' = Refreshed
  /\ UNCHANGED <<owners, proofs, providers, ant, halted>>

Next ==
  \/ \E a \in Addresses, p \in Proofs, i \in ProviderIds \cup {NoProvider}, r \in Roles :
       VerifyIdentity(a, p, i, r)
  \/ \E a, b \in Addresses : MigrateRole(a, b)
  \/ \E a \in Addresses, r \in Roles : ChangeRole(a, r)
  \/ \E i \in ProviderIds : RegisterVerificationProvider(i)
  \/ \E step \in TimeSteps : BeginBlocker(step)
  \/ EndBlocker

Spec == Init /\ [][Next]_vars

-----------------------------------------------------------------------------
(* No role is held by more accounts than the parameter allows, whichever   *)
(* of the three ways to a role they took.                                  *)
RolesWithinLimit ==
  MaxIdentities < 10000 =>
    \A role \in {"citizen", "validator"} :
      Cardinality(GetVerifiedAccountsByRole(role)) <= MaxIdentities

(* A hash belongs to nobody or to an account that carries it, so a hash is *)
(* never withheld from its person by a stale entry.                        *)
OwnersCarryTheirHash ==
  \A h \in Hashes :
    owners[h] # Nobody => accounts[owners[h]] # NoAccount /\ accounts[owners[h]].hash = h

(* As long as the chain never halts for a whole period, every account owns *)
(* the hash it carries: however accounts are migrated, silent or inactive, *)
(* no two have the same, and none is released for somebody else.           *)
HashesStayExclusive ==
  ~halted => \A a \in Verified : owners[accounts[a].hash] = a
=============================================================================
