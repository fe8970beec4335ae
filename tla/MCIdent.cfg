SPECIFICATION Spec
CONSTANTS
  a1 = a1
  a2 = a2
  a3 = a3
  p1 = p1
  p2 = p2
  p3 = p3
  i1 = i1
  i2 = i2
  Addresses = {a1, a2, a3}
  Proofs = {p1, p2, p3}
  Identities = {i1, i2}
  IdentityOf <- SharedPrefix
  ProviderIds = {"kyc"}
  MaxIdentities = 2
  CitizenPeriod = 4
  ValidatorPeriod = 2
  TimeSteps = {1, 2, 3, 5}
  InitialAnt = 1
  NoAccount = NoAccount
  Nobody = Nobody
  NoProvider = NoProvider
SYMMETRY Symmetric
INVARIANTS TypeOK RolesWithinLimit OwnersCarryTheirHash 
