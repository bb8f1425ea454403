CONSTANTS
  Runs = {1}
  Files = {"f", "g"}
  Dbs = {"d1", "d2"}
  Resolve <- MCResolve
  Targets = {"shell"}
  Mirrors = 2
  Caches <- MCCaches
  Texts <- MCTexts
  NameWords <- MCNameWords
  BatchLimit = 1
  MaxAttempts = 2
  MaxTouches = 1
  MaxAgain = 1
SPECIFICATION Spec
CHECK_DEADLOCK FALSE
INVARIANTS
  RunRecordIsHonest
PROPERTIES
  BuildisoOnlyOnFrozenClosure
