SPECIFICATION Spec
CONSTANTS
  v1 = v1
  v2 = v2
  v3 = v3
  Verifications = {v1, v2, v3}
  KeyIds <- CachedKeys
  Hash <- CachedHash
  BitAnd <- BitwiseAnd
  InitialCapacity = 4
  MaxCapacity = 16
  MaxChain = 8
  Workloads <- CachedWorkloads
SYMMETRY Symmetry
INVARIANTS
  CacheTypeOK
  LinksLeadToOlderNodes
  CacheCoherent
  RefusedOnlyWhenDisturbed
