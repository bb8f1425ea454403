CONSTANTS
  Tests = {t1}
  Files = {f1}
  Groups = {g1}
  Absent = Absent
  Torn = Torn
  NoRef = NoRef
  MaxContent = 2
  MaxAttempt = 2
  TreeLock = 1
  Outcomes = {"pass", "fail"}
  Exposed = {"iso"}
  MaxRefs = 1
  MaxEdits = 2
  MaxSupplies = 1
  MaxRecords = 2
  MaxCommands = 1
  MaxFaults = 1

  p1 = p1
  p2 = p2
  p3 = p3
  s1 = s1
  n1 = n1
  n2 = n2
  n3 = n3
  sv1 = sv1
  sv2 = sv2
  PackageIds = {p1, p2, p3}
  PackageNames = {n1, n2, n3}
  LiveOnlyPackages = {n2}
  ServiceIds = {s1}
  ServiceNames = {sv1, sv2}
  FirstRepositories <- MCGraphs
  Editions <- MCEditions
  DiskSizes = {2000, 6871, 6872, 40959, 40960, 70000}
  TargetDisks = {sda, sdb}
  NoFile = NoFile
  MaxU64 = 300000
  MaxDocumentEdits = 1
  MaxPlanCommands = 1

  bin1 = bin1
  conf1 = conf1
  v1 = v1
  Items = {bin1, conf1}
  Area <- MCArea
  PolicyItems = {conf1}
  Manifests <- MCManifests
  Versions = {v1, v2}
  AdminContents = {a1, a2}
  Unloadable = {v2, a2}
  Gone = Gone
  Odd = Odd
  Partial = Partial
  MaxRuns = 2
  MaxEditsOfTargets = 2
  MaxUpgrades = 1
  MaxInstallFaults = 1

  Launchers = {l1, l2}
  Others = Others
  Modes = {"bootstrap", "bad_id", "doctor"}
  Identities <- MCIdentities
  InitialWorkspaces <- MCWorkspaces
  Intruded <- MCIntruded
  MaxIntrusions = 1
  MaxLaunchFaults = 1
  MaxSessions = 1

  w1 = w1
  w2 = w2
  Calls = {c1, c2}
  Targets = {w1, w2}
  Nothing = Nothing
  Asked <- MCAskedOfVisual
  Desktops <- MCDesktops
  InitialDesktops <- MCInitialDesktops
  MAX_TEXT_INPUT_BYTES = 4
  MAX_KEY_CHORD_KEYS = 2
  MaxChanges = 1
  MaxVisualFaults = 1
SPECIFICATION HostSpec
CHECK_DEADLOCK FALSE
INVARIANTS
  CandidateIsReal
  HistoryHolds
  PlansAreSound
  AdministratorWorkStays
  StagingIsHonest
  LaunchIsSafe
  ScreenIsRespected
  CallsAreAccountedFor
