\* Every operation over two organizations, a lagging index and failing queries.
SPECIFICATION FairNamesSpec
CONSTANTS
  NoOrg = NoOrg
  o1 = o1
  o2 = o2
  alice = alice
  bob = bob
  carol = carol
  n1 = n1
  n2 = n2
  k1 = k1
  k2 = k2
  r1 = r1
  r2 = r2
  r3 = r3
  OrgIds = {o1, o2}
  Users = {alice, bob}
  Names = {n1, n2}
  KeyNames <- MCKeyNames
  Lower <- MCLower
  Requests = {r1, r2}
  KeyIds = {r1, r2, k1}
  Workload <- DirectoryWorkload
  InitialDocs <- DirectoryDocs
  QueryFaults = TRUE
  LateTries = FALSE
INVARIANTS
  TypeOK
  Coherent
PROPERTIES
  ImplementsDirectory
  NameTakenTwiceOnlyIfEscaped
  EveryRequestIsAnswered
