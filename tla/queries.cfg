\* The three queries beside every change of two organizations.
SPECIFICATION Spec
CONSTANTS
  NoOrg = NoOrg
  o1 = o1
  o2 = o2
  alice = alice
  bob = bob
  n1 = n1
  k1 = k1
  q1 = q1
  q2 = q2
  OrgIds = {o1, o2}
  Users = {alice, bob}
  Names = {n1}
  KeyNames <- OneKeyName
  Lower <- SameCase
  KeyIds = {k1}
  Readers = {q1}
  Workload <- QueriesWorkload
  InitialDocs <- QueriesDocs
  MaxChanges = 3
INVARIANTS
  QueriesTypeOK
  RepliesAreEntitled
  MissedOnlyByLag
