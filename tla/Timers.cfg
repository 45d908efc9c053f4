SPECIFICATION FairSpec
CONSTANTS
  Sleeper = {s1, s2}
  MaxDelay = 2
  NoTimer = none
PROPERTY
  SleepResolves
INVARIANTS
  NeverEarly
  CellExclusive
  NoMissedWake
  InWheel
  DriverWakesInTime
