SPECIFICATION FairSpec
CONSTANTS
  Task = {t1, t2}
  Fd = {f1}
  NoTask = none
  MaxEvents = 1
  Shared = TRUE
PROPERTY
  Resumed
CHECK_DEADLOCK FALSE
