CONSTANTS
  c1 = c1
  c2 = c2
  c3 = c3
  u1 = u1
  u2 = u2
  root = root
  Callers = {c1, c2, c3}
  PrincipalOf <- MCPrincipalOf
  Root = root
  Requests <- MCRequests
  Holds <- MCHolds
  Paths = {"f"}
  x = x
  y = y
  Contents = {x, y}
  Tasks = {"t1"}
  TaskOwner <- MCTaskOwner
  MaxArtifacts = 2
  MaxOps = 3
  MaxNow = 2
  MAX_SHARED_PRINCIPALS = 1
  TypeList <- MCTypeList
  Manifests <- MCManifests
  Users = {u1, u2}
  BrowserIds = {"b1"}
  PageLimit = 1
  MAX_MANIFESTS = 1
  MAX_BROWSER_SESSIONS = 1
  MaxRegs = 1
  MaxEvents = 2
SYMMETRY Symmetric
SPECIFICATION ArtSpec
CHECK_DEADLOCK FALSE
INVARIANTS
  RowsAreBacked
  ReadersSeeTheRows
PROPERTIES
  ForgottenIsFinal
