SPECIFICATION Spec
CONSTANTS
  r1 = r1
  r2 = r2
  r3 = r3
  u1 = u1
  u2 = u2
  b1 = b1
  b2 = b2
  x1 = x1
  x2 = x2
  Requests = {r1, r2, r3}
  Uids = {u1, u2}
  Actions = {"typed", "scoped", "root"}
  Resources = {x1, x2}
  Bundles = {b1, b2}
  NeedsResource = {"scoped"}
  RootEquivalent = {"root"}
  Typed = {"typed", "scoped"}
  BundleGrants <- MCBundleGrants
  InitialPolicies <- MCPolicies
  Asked <- MCAsked
  MAX_GRANTS = 2
  MAX_SUBJECTS = 2
  MaxFaults = 1
  MaxCrashes = 1
SYMMETRY Symmetry
CHECK_DEADLOCK FALSE
INVARIANTS
  PolicyLoads
PROPERTIES
  CommittedPolicyHolds
  AuthorityIsGranted
