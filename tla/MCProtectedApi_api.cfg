SPECIFICATION Spec
CONSTANTS
  r1 = r1
  r2 = r2
  r3 = r3
  c1 = c1
  c2 = c2
  pa = pa
  pb = pb
  Requests = {r1, r2, r3}
  Refs = {c1, c2}
  Providers = {pa, pb}
  Operations = {"chat", "embed"}
  Supports <- MCSupports
  Streaming <- MCStreaming
  Catalogs <- MCCatalogs
  InitialStores <- MCStores
  InitialPolicies <- MCPolicies
  Situations <- MCSituations
  MAX_CREDENTIALS = 1
SYMMETRY Symmetry
CHECK_DEADLOCK FALSE
INVARIANTS
  SecretIsRight
  AuditedBeforeEffect
PROPERTIES
  StoreIsHonest
