SPECIFICATION FairSpec
CONSTANTS
  t1 = t1
  t2 = t2
  p1 = p1
  p2 = p2
  Tasks = {t1, t2}
  Principals = {p1, p2}
  Owner <- MCOwner
  IfStates = {"any", "running"}
  MaxFaults = 1
  MaxCrashes = 1
INVARIANTS
  VerdictsAreTrue
  NoLeakedProcess
  QuiescentRowsSettled
PROPERTIES
  ImplementsContract
  CancellationSettles
  ManagedTaskSettles
