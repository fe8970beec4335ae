----------------------------- MODULE IdentProofs -----------------------------
(***************************************************************************)
(* What the identities of x/ident rely on, for every set of addresses, of  *)
(* proofs and of periods: the type of the state, the limit on the holders  *)
(* of a role, the two maps agreeing on who has a hash, and every account   *)
(* keeping its own as long as the chain does not halt for a period.        *)
(***************************************************************************)
EXTENDS Ident, FiniteSetTheorems, TLAPS

(* A message changes one account, at an address of its own or a new one.   *)
(* What it may do is that: Set is how VerifyIdentity and MigrateRole enter *)
(* an account.                                                             *)
Set(address, role, hash) ==
  /\ MaySet(address, role, hash)
  /\ owners' = Claimed(address, hash)
  /\ accounts'[address] = NewAccount(role, hash)
  /\ \A a \in Addresses \ {address} :
       \/ accounts'[a] = accounts[a]
       \/ /\ accounts[a] # NoAccount
          /\ accounts'[a] = [accounts[a] EXCEPT !.active = FALSE]

(* Between two blocks every account has just been refreshed.               *)
RefreshedBetweenBlocks ==
  ~inBlock => \A a \in Verified : accounts[a].idle = 0

Settled ==
  /\ TypeOK
  /\ OwnersCarryTheirHash
  /\ HashesStayExclusive
  /\ RefreshedBetweenBlocks

-----------------------------------------------------------------------------
(* VerifyIdentity and MigrateRole both enter one account.                  *)
LEMMA VerifySets ==
  ASSUME TypeOK, NEW a \in Addresses, NEW p \in Proofs,
         NEW i \in ProviderIds \cup {NoProvider}, NEW r \in Roles,
         VerifyIdentity(a, p, i, r)
  PROVE  /\ Set(a, r, IdentityOf[p])
         /\ IdentityOf[p] \in Hashes
         /\ accounts' \in [Addresses -> AccountType \cup {NoAccount}]
<1>1. IdentityOf[p] \in Hashes
  BY IdentConstants DEF Hashes
<1>2. NewAccount(r, IdentityOf[p]) \in AccountType
  BY <1>1 DEF NewAccount, AccountType
<1> QED
  BY <1>1, <1>2 DEF VerifyIdentity, Set, TypeOK

LEMMA MigrationSets ==
  ASSUME TypeOK, NEW from \in Addresses, NEW to \in Addresses, MigrateRole(from, to)
  PROVE  /\ Set(to, accounts[from].role, <<from, to>>)
         /\ accounts[from].role \in Roles
         /\ <<from, to>> \in Hashes
         /\ accounts' \in [Addresses -> AccountType \cup {NoAccount}]
<1>1. <<from, to>> \in Hashes
  BY DEF Hashes
<1>2. accounts[from] \in AccountType /\ accounts[to] = NoAccount
  BY DEF MigrateRole, TypeOK, MaySet
<1>3. from # to
  BY <1>2 DEF MigrateRole
<1>4. accounts[from].role \in Roles
  BY <1>2 DEF AccountType
<1>5. NewAccount(accounts[from].role, <<from, to>>) \in AccountType
  BY <1>1, <1>4 DEF NewAccount, AccountType
<1>6. [accounts[from] EXCEPT !.active = FALSE] \in AccountType
  BY <1>2 DEF AccountType
<1>7. /\ accounts'[to] = NewAccount(accounts[from].role, <<from, to>>)
      /\ accounts'[from] = [accounts[from] EXCEPT !.active = FALSE]
      /\ \A a \in Addresses \ {from, to} : accounts'[a] = accounts[a]
      /\ accounts' \in [Addresses -> AccountType \cup {NoAccount}]
  BY <1>3, <1>5, <1>6 DEF MigrateRole, TypeOK
<1> QED
  BY <1>1, <1>2, <1>4, <1>7 DEF MigrateRole, Set

(* Entering an account keeps the two maps in agreement: the address had no *)
(* account, so no hash was its own, and the hash was nobody's.             *)
LEMMA SetSettles ==
  ASSUME TypeOK, OwnersCarryTheirHash, HashesStayExclusive, inBlock,
         NEW a \in Addresses, NEW r \in Roles, NEW h \in Hashes,
         Set(a, r, h), halted' = halted,
         accounts' \in [Addresses -> AccountType \cup {NoAccount}]
  PROVE  /\ owners' \in [Hashes -> Addresses \cup {Nobody}]
         /\ OwnersCarryTheirHash'
         /\ HashesStayExclusive'
<1>1. accounts[a] = NoAccount /\ owners[h] = Nobody
  BY DEF Set, MaySet
<1>2. owners' = [owners EXCEPT ![h] = a]
  BY DEF Set, Claimed
<1>3. owners' \in [Hashes -> Addresses \cup {Nobody}]
  BY <1>2 DEF TypeOK
<1>4. NewAccount(r, h).hash = h /\ NewAccount(r, h).role = r
      /\ NewAccount(r, h) # NoAccount
  <2>1. NewAccount(r, h) \in AccountType
    BY DEF NewAccount, AccountType
  <2> QED BY <2>1, NoAccountIsNone DEF NewAccount
<1>5. \A b \in Addresses \ {a} : accounts[b] # NoAccount =>
        /\ accounts'[b] # NoAccount
        /\ accounts'[b].hash = accounts[b].hash
        /\ accounts'[b].role = accounts[b].role
  <2>1. SUFFICES ASSUME NEW b \in Addresses \ {a}, accounts[b] # NoAccount
                 PROVE  /\ accounts'[b] # NoAccount
                        /\ accounts'[b].hash = accounts[b].hash
                        /\ accounts'[b].role = accounts[b].role
    OBVIOUS
  <2>2. accounts[b] \in AccountType
    BY <2>1 DEF TypeOK
  <2>3. [accounts[b] EXCEPT !.active = FALSE] \in AccountType
    BY <2>2 DEF AccountType
  <2>4. /\ [accounts[b] EXCEPT !.active = FALSE] # NoAccount
        /\ [accounts[b] EXCEPT !.active = FALSE].hash = accounts[b].hash
        /\ [accounts[b] EXCEPT !.active = FALSE].role = accounts[b].role
    BY <2>2, <2>3, NoAccountIsNone DEF AccountType
  <2> QED BY <2>1, <2>4 DEF Set
<1>6. OwnersCarryTheirHash'
  <2>1. SUFFICES ASSUME NEW k \in Hashes, owners'[k] # Nobody
                 PROVE  accounts'[owners'[k]] # NoAccount
                        /\ accounts'[owners'[k]].hash = k
    BY DEF OwnersCarryTheirHash
  <2>2. CASE k = h
    BY <2>2, <1>2, <1>4 DEF Set, TypeOK
  <2>3. CASE k # h
    <3>1. owners'[k] = owners[k] /\ owners[k] \in Addresses
      BY <2>1, <2>3, <1>2 DEF TypeOK
    <3>2. accounts[owners[k]] # NoAccount /\ accounts[owners[k]].hash = k
      BY <2>1, <3>1 DEF OwnersCarryTheirHash
    <3>3. owners[k] # a
      BY <3>2, <1>1
    <3> QED BY <3>1, <3>2, <3>3, <1>5
  <2> QED BY <2>2, <2>3
<1>7. HashesStayExclusive'
  <2>1. SUFFICES ASSUME ~halted, NEW b \in Addresses, accounts'[b] # NoAccount
                 PROVE  owners'[accounts'[b].hash] = b
    BY DEF HashesStayExclusive, Verified
  <2>2. CASE b = a
    <3>1. accounts'[b] = NewAccount(r, h) /\ owners'[h] = a
      BY <2>2, <1>2 DEF Set, TypeOK
    <3> QED BY <2>2, <3>1, <1>4
  <2>3. CASE b # a
    <3>1. accounts[b] # NoAccount
      BY <2>1, <2>3 DEF Set
    <3>2. owners[accounts[b].hash] = b
      BY <2>1, <3>1 DEF HashesStayExclusive, Verified
    <3>3. accounts[b].hash # h /\ accounts[b].hash \in Hashes
      BY <3>1, <3>2, <1>1, IdentConstants DEF TypeOK, AccountType
    <3>4. owners'[accounts[b].hash] = owners[accounts[b].hash]
      BY <3>3, <1>2 DEF TypeOK
    <3> QED BY <2>3, <3>1, <3>2, <3>4, <1>5
  <2> QED BY <2>2, <2>3
<1> QED BY <1>3, <1>6, <1>7

-----------------------------------------------------------------------------
LEMMA InitSettled == Init => Settled
  BY IdentConstants, NoAccountIsNone
     DEF Init, Settled, TypeOK, OwnersCarryTheirHash, HashesStayExclusive,
         RefreshedBetweenBlocks, Verified, AccountType

(* ChangeRole touches one account's role and activity only.                *)
LEMMA ChangeEffect ==
  ASSUME Settled, NEW a \in Addresses, NEW r \in Roles, ChangeRole(a, r)
  PROVE  /\ accounts[a] # NoAccount /\ accounts[a] \in AccountType
         /\ accounts' = [accounts EXCEPT ![a] = [accounts[a] EXCEPT !.role = r, !.idle = 0]]
         /\ UNCHANGED <<owners, proofs, providers, ant, inBlock, halted>>
         /\ checkAccountLimits(r)
         /\ r # "guest" /\ inBlock
  BY DEF Settled, TypeOK, ChangeRole, checkAccountLimits

LEMMA ChangeChangesOne ==
  ASSUME Settled, NEW a \in Addresses, NEW r \in Roles, ChangeRole(a, r)
  PROVE  /\ accounts'[a].role = r
         /\ \A b \in Addresses \ {a} : accounts'[b] = accounts[b]
<1>1. /\ accounts[a] \in AccountType
      /\ accounts' = [accounts EXCEPT ![a] = [accounts[a] EXCEPT !.role = r, !.idle = 0]]
  BY ChangeEffect
<1> QED BY <1>1 DEF Settled, TypeOK, AccountType

LEMMA ChangeSettles ==
  ASSUME Settled, NEW a \in Addresses, NEW r \in Roles, ChangeRole(a, r)
  PROVE  Settled'
<1>1. /\ accounts[a] # NoAccount /\ accounts[a] \in AccountType
      /\ accounts' = [accounts EXCEPT ![a] = [accounts[a] EXCEPT !.role = r, !.idle = 0]]
      /\ UNCHANGED <<owners, proofs, providers, ant, inBlock, halted>>
      /\ r # "guest" /\ inBlock
  BY ChangeEffect
<1>2. /\ [accounts[a] EXCEPT !.role = r, !.idle = 0] \in AccountType
      /\ [accounts[a] EXCEPT !.role = r, !.idle = 0].hash = accounts[a].hash
      /\ [accounts[a] EXCEPT !.role = r, !.idle = 0].role = r
  BY <1>1 DEF AccountType
<1>3. TypeOK'
  BY <1>1, <1>2 DEF Settled, TypeOK
<1>4. accounts'[a] # NoAccount /\ accounts'[a].hash = accounts[a].hash
      /\ accounts'[a].role = r
      /\ \A b \in Addresses \ {a} : accounts'[b] = accounts[b]
  BY <1>1, <1>2, NoAccountIsNone DEF Settled, TypeOK
<1>5. OwnersCarryTheirHash'
  BY <1>1, <1>4 DEF Settled, TypeOK, OwnersCarryTheirHash
<1>6. HashesStayExclusive'
  BY <1>1, <1>4 DEF Settled, HashesStayExclusive, Verified
<1> QED BY <1>1, <1>3, <1>5, <1>6 DEF Settled, RefreshedBetweenBlocks

(* BeginBlocker releases the hashes of the accounts it turns into guests,  *)
(* and there are none unless the step was longer than a period.            *)
LEMMA BeginSettles ==
  ASSUME Settled, NEW step \in TimeSteps, BeginBlocker(step)
  PROVE  Settled'
<1> DEFINE aged == Aged(step)
           inactive == Inactive(aged)
<1>1. step \in Nat /\ CitizenPeriod \in Nat /\ ValidatorPeriod \in Nat
  BY IdentConstants
<1>2. /\ ~inBlock /\ inBlock' = TRUE
      /\ accounts' = [a \in Addresses |->
           IF a \in inactive THEN [aged[a] EXCEPT !.role = "guest"] ELSE aged[a]]
      /\ owners' = Released(inactive)
      /\ ant' = Burned(inactive)
      /\ halted' = (halted \/ step > CitizenPeriod \/ step > ValidatorPeriod)
      /\ UNCHANGED <<proofs, providers>>
  BY DEF BeginBlocker
<1>3. \A a \in Addresses : accounts[a] = NoAccount => accounts'[a] = NoAccount
  BY <1>2 DEF Aged, Inactive, Verified
<1>4. \A a \in Addresses : accounts[a] # NoAccount =>
        /\ aged[a] \in AccountType /\ aged[a].idle = step
        /\ aged[a].hash = accounts[a].hash /\ aged[a].role = accounts[a].role
        /\ accounts'[a] \in AccountType
        /\ accounts'[a].hash = accounts[a].hash
        /\ a \notin inactive => accounts'[a].role = accounts[a].role
  <2>1. SUFFICES ASSUME NEW a \in Addresses, accounts[a] # NoAccount
                 PROVE  /\ aged[a] \in AccountType /\ aged[a].idle = step
                        /\ aged[a].hash = accounts[a].hash
                        /\ aged[a].role = accounts[a].role
                        /\ accounts'[a] \in AccountType
                        /\ accounts'[a].hash = accounts[a].hash
                        /\ a \notin inactive => accounts'[a].role = accounts[a].role
    OBVIOUS
  <2>2. accounts[a] \in AccountType /\ accounts[a].idle = 0
    BY <2>1, <1>2 DEF Settled, TypeOK, RefreshedBetweenBlocks, Verified
  <2>3. aged[a] = [accounts[a] EXCEPT !.idle = @ + step]
    BY <2>1 DEF Aged
  <2>4. /\ aged[a] \in AccountType /\ aged[a].idle = step
        /\ aged[a].hash = accounts[a].hash /\ aged[a].role = accounts[a].role
    BY <2>2, <2>3, <1>1 DEF AccountType
  <2>5. /\ [aged[a] EXCEPT !.role = "guest"] \in AccountType
        /\ [aged[a] EXCEPT !.role = "guest"].hash = aged[a].hash
    BY <2>4 DEF AccountType, Roles
  <2>6. accounts'[a] = IF a \in inactive THEN [aged[a] EXCEPT !.role = "guest"] ELSE aged[a]
    BY <1>2
  <2> HIDE DEF aged, inactive
  <2> QED BY <2>4, <2>5, <2>6
<1>5. TypeOK'
  <2>1. accounts' \in [Addresses -> AccountType \cup {NoAccount}]
    BY <1>2, <1>3, <1>4
  <2>2. owners' \in [Hashes -> Addresses \cup {Nobody}]
    BY <1>2 DEF Settled, TypeOK, Released
  <2>3. ant' \in [Addresses -> Nat]
    BY <1>2 DEF Settled, TypeOK, Burned
  <2>4. inBlock' \in BOOLEAN /\ halted' \in BOOLEAN
        /\ proofs' \subseteq Proofs /\ providers' \subseteq ProviderIds
    BY <1>1, <1>2 DEF Settled, TypeOK
  <2> QED BY <2>1, <2>2, <2>3, <2>4 DEF TypeOK
<1>6. OwnersCarryTheirHash'
  <2>1. SUFFICES ASSUME NEW h \in Hashes, owners'[h] # Nobody
                 PROVE  accounts'[owners'[h]] # NoAccount /\ accounts'[owners'[h]].hash = h
    BY DEF OwnersCarryTheirHash
  <2>2. owners'[h] = owners[h] /\ owners[h] \in Addresses
    BY <2>1, <1>2 DEF Released, Settled, TypeOK
  <2>3. accounts[owners[h]] # NoAccount /\ accounts[owners[h]].hash = h
    BY <2>1, <2>2 DEF Settled, OwnersCarryTheirHash
  <2> QED BY <2>2, <2>3, <1>4, NoAccountIsNone
<1>7. HashesStayExclusive'
  <2>1. SUFFICES ASSUME ~halted', NEW a \in Addresses, accounts'[a] # NoAccount
                 PROVE  owners'[accounts'[a].hash] = a
    BY DEF HashesStayExclusive, Verified
  <2>2. ~halted /\ step <= CitizenPeriod /\ step <= ValidatorPeriod
    <3>1. ~(halted \/ step > CitizenPeriod \/ step > ValidatorPeriod)
      BY <2>1, <1>2, Zenon
    <3> QED BY <3>1, <1>1
  <2>3. \A b \in Verified : ~(aged[b].idle > ActivityPeriod(aged[b].role))
    BY <2>2, <1>1, <1>4 DEF Verified, ActivityPeriod
  <2>4. inactive = {}
    BY <2>3 DEF Inactive
  <2>5. accounts[a] # NoAccount
    BY <2>1, <1>3
  <2>6. owners[accounts[a].hash] = a
    BY <2>2, <2>5 DEF Settled, HashesStayExclusive, Verified
  <2>7. owners' = [h \in Hashes |-> owners[h]] /\ accounts[a].hash \in Hashes
    BY <2>4, <2>5, <1>2 DEF Released, Settled, TypeOK, AccountType
  <2> HIDE DEF aged, inactive
  <2> QED BY <2>4, <2>5, <2>6, <2>7, <1>4
<1> QED BY <1>2, <1>5, <1>6, <1>7 DEF Settled, RefreshedBetweenBlocks

(* EndBlocker refreshes every account and leaves the rest of it alone.     *)
LEMMA EndSettles ==
  ASSUME Settled, EndBlocker
  PROVE  Settled'
<1>1. /\ inBlock' = FALSE /\ accounts' = Refreshed
      /\ UNCHANGED <<owners, proofs, providers, ant, halted>>
  BY DEF EndBlocker
<1>2. \A a \in Addresses :
        IF accounts[a] = NoAccount THEN accounts'[a] = NoAccount
        ELSE /\ accounts'[a] \in AccountType /\ accounts'[a].idle = 0
             /\ accounts'[a].hash = accounts[a].hash
             /\ accounts'[a].role = accounts[a].role
  <2>1. SUFFICES ASSUME NEW a \in Addresses, accounts[a] # NoAccount
                 PROVE  /\ accounts'[a] \in AccountType /\ accounts'[a].idle = 0
                        /\ accounts'[a].hash = accounts[a].hash
                        /\ accounts'[a].role = accounts[a].role
    BY <1>1 DEF Refreshed
  <2>2. accounts[a] \in AccountType /\ accounts'[a] = [accounts[a] EXCEPT !.idle = 0]
    BY <2>1, <1>1 DEF Refreshed, Settled, TypeOK
  <2> QED BY <2>2 DEF AccountType
<1>3. accounts' \in [Addresses -> AccountType \cup {NoAccount}]
  BY <1>1, <1>2 DEF Refreshed
<1>4. TypeOK'
  BY <1>1, <1>3 DEF Settled, TypeOK
<1>5. OwnersCarryTheirHash'
  BY <1>1, <1>2, NoAccountIsNone DEF Settled, TypeOK, OwnersCarryTheirHash
<1>6. HashesStayExclusive'
  BY <1>1, <1>2 DEF Settled, HashesStayExclusive, Verified
<1>7. RefreshedBetweenBlocks'
  BY <1>2 DEF RefreshedBetweenBlocks, Verified
<1> QED BY <1>4, <1>5, <1>6, <1>7 DEF Settled

LEMMA StepSettles == Settled /\ [Next]_vars => Settled'
<1> SUFFICES ASSUME Settled, [Next]_vars PROVE Settled'
  OBVIOUS
<1>1. ASSUME NEW a \in Addresses, NEW p \in Proofs, NEW i \in ProviderIds \cup {NoProvider},
             NEW r \in Roles, VerifyIdentity(a, p, i, r)
      PROVE  Settled'
  <2>1. /\ Set(a, r, IdentityOf[p]) /\ IdentityOf[p] \in Hashes
        /\ accounts' \in [Addresses -> AccountType \cup {NoAccount}]
    BY <1>1, VerifySets DEF Settled
  <2>2. /\ inBlock /\ proofs' = proofs \cup {p}
        /\ UNCHANGED <<providers, ant, inBlock, halted>>
    BY <1>1 DEF VerifyIdentity
  <2>3. /\ owners' \in [Hashes -> Addresses \cup {Nobody}]
        /\ OwnersCarryTheirHash' /\ HashesStayExclusive'
    BY <2>1, <2>2, SetSettles DEF Settled
  <2> QED BY <2>1, <2>2, <2>3 DEF Settled, TypeOK, RefreshedBetweenBlocks
<1>2. ASSUME NEW a \in Addresses, NEW b \in Addresses, MigrateRole(a, b)
      PROVE  Settled'
  <2>1. /\ Set(b, accounts[a].role, <<a, b>>) /\ <<a, b>> \in Hashes
        /\ accounts[a].role \in Roles
        /\ accounts' \in [Addresses -> AccountType \cup {NoAccount}]
    BY <1>2, MigrationSets DEF Settled
  <2>2. /\ inBlock /\ UNCHANGED <<proofs, providers, ant, inBlock, halted>>
    BY <1>2 DEF MigrateRole
  <2>3. /\ owners' \in [Hashes -> Addresses \cup {Nobody}]
        /\ OwnersCarryTheirHash' /\ HashesStayExclusive'
    BY <2>1, <2>2, SetSettles DEF Settled
  <2> QED BY <2>1, <2>2, <2>3 DEF Settled, TypeOK, RefreshedBetweenBlocks
<1>3. ASSUME NEW a \in Addresses, NEW r \in Roles, ChangeRole(a, r) PROVE Settled'
  BY <1>3, ChangeSettles
<1>4. ASSUME NEW i \in ProviderIds, RegisterVerificationProvider(i) PROVE Settled'
  BY <1>4 DEF RegisterVerificationProvider, Settled, TypeOK, OwnersCarryTheirHash,
     HashesStayExclusive, RefreshedBetweenBlocks, Verified
<1>5. ASSUME NEW step \in TimeSteps, BeginBlocker(step) PROVE Settled'
  BY <1>5, BeginSettles
<1>6. CASE EndBlocker
  BY <1>6, EndSettles
<1>7. CASE UNCHANGED vars
  BY <1>7 DEF vars, Settled, TypeOK, OwnersCarryTheirHash, HashesStayExclusive,
     RefreshedBetweenBlocks, Verified
<1> QED BY <1>1, <1>2, <1>3, <1>4, <1>5, <1>6, <1>7 DEF Next

(* The state has its type.                                                 *)
THEOREM TypeCorrect == Spec => []TypeOK
<1>1. Settled => TypeOK
  BY DEF Settled
<1> QED BY <1>1, InitSettled, StepSettles, PTL DEF Spec

(* No hash belongs to an address whose account does not carry it, through  *)
(* releases of hashes that have found another owner meanwhile.             *)
THEOREM OwnersCarry == Spec => []OwnersCarryTheirHash
<1>1. Settled => OwnersCarryTheirHash
  BY DEF Settled
<1> QED BY <1>1, InitSettled, StepSettles, PTL DEF Spec

(* Every account owns the hash it carries, so no two carry the same, while *)
(* no two blocks are further apart than an activity period.                *)
THEOREM HashesExclusive == Spec => []HashesStayExclusive
<1>1. Settled => HashesStayExclusive
  BY DEF Settled
<1> QED BY <1>1, InitSettled, StepSettles, PTL DEF Spec

-----------------------------------------------------------------------------
(* The limit on the holders of a role.  Holders that are as before, with   *)
(* one more where the limit was tested, are within the limit.              *)
LEMMA HoldersGrowByOne ==
  ASSUME NEW before \in SUBSET Addresses, NEW after \in SUBSET Addresses,
         NEW a \in Addresses,
         \/ after \subseteq before /\ Cardinality(before) <= MaxIdentities
         \/ after \subseteq before \cup {a} /\ Cardinality(before) < MaxIdentities
  PROVE  Cardinality(after) <= MaxIdentities
<1>1. IsFiniteSet(before) /\ IsFiniteSet(after) /\ IsFiniteSet(before \cup {a})
  BY IdentConstants, FS_Subset, FS_AddElement
<1>2. /\ Cardinality(before) \in Nat /\ Cardinality(after) \in Nat
      /\ Cardinality(before \cup {a}) \in Nat
      /\ Cardinality(before \cup {a}) <= Cardinality(before) + 1
  <2>1. /\ Cardinality(before) \in Nat /\ Cardinality(after) \in Nat
        /\ Cardinality(before \cup {a}) \in Nat
    BY <1>1, FS_CardinalityType
  <2>2. CASE a \in before
    <3>1. before \cup {a} = before
      BY <2>2
    <3> QED BY <2>1, <3>1
  <2>3. CASE a \notin before
    <3>1. Cardinality(before \cup {a}) = Cardinality(before) + 1
      BY <2>3, <1>1, FS_AddElement
    <3> QED BY <2>1, <3>1
  <2> QED BY <2>2, <2>3
<1>3. CASE after \subseteq before /\ Cardinality(before) <= MaxIdentities
  <2>1. Cardinality(after) <= Cardinality(before)
    BY <1>1, <1>3, FS_Subset
  <2> QED BY <2>1, <1>2, <1>3, IdentConstants
<1>4. CASE after \subseteq before \cup {a} /\ Cardinality(before) < MaxIdentities
  <2>1. Cardinality(after) <= Cardinality(before \cup {a})
    BY <1>1, <1>4, FS_Subset
  <2> QED BY <2>1, <1>2, <1>4, IdentConstants
<1> QED BY <1>3, <1>4

(* Every step leaves the holders of a role alone, loses some, or adds one  *)
(* that checkAccountLimits let in.                                         *)
LEMMA StepWithinLimit == Settled /\ RolesWithinLimit /\ [Next]_vars => RolesWithinLimit'
<1> SUFFICES ASSUME Settled, RolesWithinLimit, [Next]_vars, MaxIdentities < 10000,
                    NEW held \in {"citizen", "validator"}
             PROVE  Cardinality(GetVerifiedAccountsByRole(held)') <= MaxIdentities
  BY DEF RolesWithinLimit
<1> DEFINE before == GetVerifiedAccountsByRole(held)
           after == GetVerifiedAccountsByRole(held)'
<1>1. before \in SUBSET Addresses /\ after \in SUBSET Addresses
      /\ Cardinality(before) <= MaxIdentities
  <2>1. before \subseteq Addresses /\ after \subseteq Addresses
    BY DEF GetVerifiedAccountsByRole, Verified
  <2>2. Cardinality(GetVerifiedAccountsByRole(held)) <= MaxIdentities
    BY DEF RolesWithinLimit
  <2> QED BY <2>1, <2>2
<1>2. ASSUME NEW a \in Addresses, NEW r \in Roles, NEW h \in Hashes, Set(a, r, h)
      PROVE  Cardinality(after) <= MaxIdentities
  <2>1. \A b \in Addresses \ {a} : b \in after => b \in before
    <3>1. SUFFICES ASSUME NEW b \in Addresses \ {a}, b \in after PROVE b \in before
      OBVIOUS
    <3>2. accounts'[b] = accounts[b] \/
          /\ accounts[b] # NoAccount
          /\ accounts'[b] = [accounts[b] EXCEPT !.active = FALSE]
      BY <1>2, <3>1 DEF Set
    <3>3. accounts[b] # NoAccount => accounts[b] \in AccountType
      BY DEF Settled, TypeOK
    <3>4. accounts'[b] # NoAccount /\ accounts'[b].role = held
      BY <3>1 DEF GetVerifiedAccountsByRole, Verified
    <3> QED BY <3>2, <3>3, <3>4 DEF AccountType, GetVerifiedAccountsByRole, Verified
  <2>2. CASE r = held
    <3>1. Cardinality(before) < MaxIdentities
      BY <1>2, <2>2 DEF Set, MaySet, checkAccountLimits
    <3>2. after \subseteq before \cup {a}
      BY <1>1, <2>1
    <3> HIDE DEF before, after
    <3> QED BY <1>1, <3>1, <3>2, HoldersGrowByOne
  <2>3. CASE r # held
    <3>1. a \notin after
      BY <1>2, <2>3 DEF Set, NewAccount, GetVerifiedAccountsByRole, Verified
    <3>2. after \subseteq before
      BY <1>1, <2>1, <3>1
    <3> HIDE DEF before, after
    <3> QED BY <1>1, <1>2, <3>2, HoldersGrowByOne
  <2> QED BY <2>2, <2>3
<1>3. ASSUME after \subseteq before PROVE Cardinality(after) <= MaxIdentities
  <2>1. IsFiniteSet(before)
    BY <1>1, IdentConstants, FS_Subset
  <2>2. Cardinality(after) <= Cardinality(before) /\ IsFiniteSet(after)
    BY <2>1, <1>3, FS_Subset
  <2>3. Cardinality(after) \in Nat /\ Cardinality(before) \in Nat
    BY <2>1, <2>2, FS_CardinalityType
  <2> HIDE DEF before, after
  <2> QED BY <1>1, <2>2, <2>3, IdentConstants
<1>4. ASSUME NEW a \in Addresses, NEW p \in Proofs, NEW i \in ProviderIds \cup {NoProvider},
             NEW r \in Roles, VerifyIdentity(a, p, i, r)
      PROVE  Cardinality(after) <= MaxIdentities
  <2>1. Set(a, r, IdentityOf[p]) /\ IdentityOf[p] \in Hashes
    BY <1>4, VerifySets DEF Settled
  <2> HIDE DEF before, after
  <2> QED BY <1>2, <2>1
<1>5. ASSUME NEW a \in Addresses, NEW b \in Addresses, MigrateRole(a, b)
      PROVE  Cardinality(after) <= MaxIdentities
  <2>1. /\ Set(b, accounts[a].role, <<a, b>>)
        /\ accounts[a].role \in Roles /\ <<a, b>> \in Hashes
    BY <1>5, MigrationSets DEF Settled
  <2> HIDE DEF before, after
  <2> QED BY <1>2, <2>1
<1>6. ASSUME NEW a \in Addresses, NEW r \in Roles, ChangeRole(a, r)
      PROVE  Cardinality(after) <= MaxIdentities
  <2>1. checkAccountLimits(r)
    BY <1>6 DEF ChangeRole
  <2>2. accounts'[a].role = r /\ \A b \in Addresses \ {a} : accounts'[b] = accounts[b]
    BY <1>6, ChangeChangesOne
  <2>3. \A b \in Addresses \ {a} : b \in after => b \in before
    BY <2>2 DEF GetVerifiedAccountsByRole, Verified
  <2>4. CASE r = held
    <3>1. Cardinality(before) < MaxIdentities
      BY <2>1, <2>4 DEF checkAccountLimits
    <3>2. after \subseteq before \cup {a}
      BY <1>1, <2>3
    <3> HIDE DEF before, after
    <3> QED BY <1>1, <3>1, <3>2, HoldersGrowByOne
  <2>5. CASE r # held
    <3>1. a \notin after
      BY <2>2, <2>5 DEF GetVerifiedAccountsByRole, Verified
    <3> QED BY <1>1, <1>3, <2>3, <3>1
  <2> QED BY <2>4, <2>5
<1>7. ASSUME NEW step \in TimeSteps, BeginBlocker(step)
      PROVE  Cardinality(after) <= MaxIdentities
  <2>1. \A a \in Addresses :
          /\ accounts[a] = NoAccount => accounts'[a] = NoAccount
          /\ accounts[a] # NoAccount /\ accounts'[a] # NoAccount
               => accounts'[a].role \in {accounts[a].role, "guest"}
    <3>1. SUFFICES ASSUME NEW a \in Addresses
                   PROVE  /\ accounts[a] = NoAccount => accounts'[a] = NoAccount
                          /\ accounts[a] # NoAccount /\ accounts'[a] # NoAccount
                               => accounts'[a].role \in {accounts[a].role, "guest"}
      OBVIOUS
    <3>2. accounts'[a] = IF a \in Inactive(Aged(step))
                         THEN [Aged(step)[a] EXCEPT !.role = "guest"] ELSE Aged(step)[a]
      BY <1>7 DEF BeginBlocker
    <3>3. Aged(step)[a] = IF accounts[a] = NoAccount THEN NoAccount
                          ELSE [accounts[a] EXCEPT !.idle = @ + step]
      BY DEF Aged
    <3>4. a \in Inactive(Aged(step)) => accounts[a] # NoAccount
      BY DEF Inactive, Verified
    <3>5. accounts[a] # NoAccount => accounts[a] \in AccountType
      BY DEF Settled, TypeOK
    <3> QED BY <3>2, <3>3, <3>4, <3>5 DEF AccountType
  <2>2. after \subseteq before
    BY <2>1 DEF GetVerifiedAccountsByRole, Verified
  <2> QED BY <2>2, <1>3
<1>8. ASSUME EndBlocker PROVE Cardinality(after) <= MaxIdentities
  <2>1. \A a \in Addresses :
          accounts[a] # NoAccount => accounts'[a] = [accounts[a] EXCEPT !.idle = 0]
    BY <1>8 DEF EndBlocker, Refreshed
  <2>2. \A a \in Addresses : accounts[a] # NoAccount => accounts[a] \in AccountType
    BY DEF Settled, TypeOK
  <2>3. ASSUME NEW a \in Addresses, accounts[a] # NoAccount
        PROVE  accounts'[a].role = accounts[a].role
    <3>1. accounts[a] \in AccountType /\ accounts'[a] = [accounts[a] EXCEPT !.idle = 0]
      BY <2>1, <2>2, <2>3
    <3> QED BY <3>1 DEF AccountType
  <2>4. after \subseteq before
    <3>1. ASSUME NEW a \in Addresses, a \in after PROVE a \in before
      <4>1. accounts'[a] # NoAccount /\ accounts'[a].role = held
        BY <3>1 DEF GetVerifiedAccountsByRole, Verified
      <4>2. accounts[a] # NoAccount
        BY <1>8, <3>1, <4>1 DEF EndBlocker, Refreshed
      <4>3. accounts[a].role = held
        BY <2>3, <3>1, <4>1, <4>2
      <4> QED BY <4>2, <4>3, <3>1 DEF GetVerifiedAccountsByRole, Verified
    <3> HIDE DEF before, after
    <3> QED BY <1>1, <3>1
  <2> QED BY <2>4, <1>3
<1>9. ASSUME accounts' = accounts PROVE Cardinality(after) <= MaxIdentities
  BY <1>9, <1>1 DEF GetVerifiedAccountsByRole, Verified
<1>10. ASSUME NEW i \in ProviderIds, RegisterVerificationProvider(i)
       PROVE  Cardinality(after) <= MaxIdentities
  BY <1>10, <1>9 DEF RegisterVerificationProvider
<1>11. CASE UNCHANGED vars
  BY <1>11, <1>9 DEF vars
<1> QED BY <1>4, <1>5, <1>6, <1>7, <1>8, <1>10, <1>11 DEF Next

(* No role ever has more holders than MaxIdentitiesPerAddress, below the   *)
(* value that switches the limit off, by verification, migration or        *)
(* change of role.                                                         *)
THEOREM WithinLimit == Spec => []RolesWithinLimit
<1>1. Init => RolesWithinLimit
  <2>1. SUFFICES ASSUME Init, NEW role \in {"citizen", "validator"}
                 PROVE  Cardinality(GetVerifiedAccountsByRole(role)) <= MaxIdentities
    BY DEF RolesWithinLimit
  <2>2. GetVerifiedAccountsByRole(role) = {}
    BY <2>1 DEF Init, GetVerifiedAccountsByRole, Verified
  <2> QED BY <2>2, FS_EmptySet, IdentConstants
<1> QED
  BY <1>1, InitSettled, StepSettles, StepWithinLimit, PTL DEF Spec
=============================================================================
