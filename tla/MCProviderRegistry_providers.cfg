CONSTANTS
  u1 = u1
  u2 = u2
  TypeList <- MCTypeList
  Manifests <- MCManifests
  Users = {u1}
  BrowserIds = {"b1"}
  PageLimit = 1
  MAX_MANIFESTS = 2
  MAX_BROWSER_SESSIONS = 1
  MaxRegs = 3
  MaxEvents = 5
SPECIFICATION ProvSpec
CHECK_DEADLOCK FALSE
INVARIANTS
  RegistrationsFitTogether
  NothingRevives
  PagingMissesNothing
PROPERTIES
  OnlyMissingManifestsRemove
