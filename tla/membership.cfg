\* Roles and membership: two concurrent requests of any kind by three users.
SPECIFICATION Spec
CONSTANTS
  NoOrg = NoOrg
  o1 = o1
  o2 = o2
  alice = alice
  bob = bob
  carol = carol
  n1 = n1
  n2 = n2
  k1 = k1
  k2 = k2
  r1 = r1
  r2 = r2
  r3 = r3
  OrgIds = {o1}
  Users = {alice, bob, carol}
  Names = {n1}
  KeyNames <- MCKeyNames
  Lower <- MCLower
  Requests = {r1, r2}
  KeyIds = {r1, r2}
  Workload <- MembershipWorkload
  InitialDocs <- MembershipDocs
  QueryFaults = FALSE
  LateTries = FALSE
SYMMETRY Symmetry
PROPERTIES
  LastOwnerLostOnlyByRace
  OwnerlessStaysOwnerless
  RolesChangedFromAbove
