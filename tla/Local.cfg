SPECIFICATION FairSpec
CONSTANTS
  Task = {t1, t2}
  NoTask = none
  Caller = flag
  MaxDelay = 2
  UnitsPerMs = 2
  MaxMs = 3
INVARIANTS
  TypeOK
  NeverGivesUp
  ParksUnresolved
  ParksInTime
  WaiterQueued
PROPERTIES
  NeverSpins
  KeepsWakeContract
  QueuedTaskRuns
  ReturnsWhenQuiet
