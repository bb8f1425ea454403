SPECIFICATION FairSpec
CONSTANTS
  t1 = t1
  t2 = t2
  s1 = s1
  Tasks = {t1, t2}
  Streams = {s1}
  Retention = 3
  Capacity = 1
  StreamLimit = 1
  Resume = {0, 2}
  MaxEvents = 5
  MaxFaults = 2
CHECK_DEADLOCK FALSE
INVARIANTS
  ClientSeesHistory
  NoLostWakeup
PROPERTIES
  ExitClosesStreams
