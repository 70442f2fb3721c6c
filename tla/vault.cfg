\* Calls of the key store over a Vault that fails, answers late or not at all.
SPECIFICATION Spec
CONSTANTS
  Users = {}
  Names = {}
  KeyNames = {}
  Lower <- NoLower
  NoOrg = NoOrg
  c1 = c1
  c2 = c2
  c3 = c3
  k1 = k1
  KeyIds = {k1}
  Callers = {c1, c2, c3}
  MaxRetries = 2
INVARIANTS
  VaultTypeOK
  StoredUntilDeleted
  DeletedUnlessWrittenLate
PROPERTIES
  KeepsContract
  EveryTryLeadsOn
