SPECIFICATION FairSpec
CONSTANTS
  Task = {t1, t2}
  NoTask = none
  Caller = flag
  MaxDelay = 0
  UnitsPerMs = 1
  MaxMs = 5
PROPERTY
  ReturnsWhenResolved
