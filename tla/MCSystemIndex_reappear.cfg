SPECIFICATION HealthSpec
CONSTANTS
  a1 = a1
  p1 = p1
  w1 = w1
  d1 = d1
  s1 = s1
  r1 = r1
  c1 = c1
  v1 = v1
  Apps = {a1}
  Procs = {p1}
  Windows = {w1}
  Workspaces = {d1}
  Services = {s1}
  Provs = {r1}
  Capabilities = {c1}
  ProviderResources = {v1}
  ProviderOf <- MCProviderOf
  ResourceOwner <- MCResourceOwner
  Exec <- MCExec
  Parent <- MCParent
  WindowOf <- MCWindowOf
  WorkspaceOf <- MCWorkspaceOf
  NoLink = NoLink
  QUERY_CHUNK = 2
  MAX_INDEX_QUERY_SCAN = 4
  PageLimit = 2
  TopologyLimit = 9
  TopologyDepth = 2
  Budgets <- ReappearBudgets
  Samples <- MCSamples
  MAX_RESTART_ATTEMPTS = 2
  RESTART_WINDOW = 3
  STABLE_RESET = 2
  MAX_RECOVERY_ATTEMPTS_PER_COMPONENT = 3
  RECOVERY_HISTORY_MAX_AGE = 4
INVARIANT ReconcileRepairs
CHECK_DEADLOCK FALSE
