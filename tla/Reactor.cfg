SPECIFICATION FairSpec
CONSTANTS
  Task = {t1, t2}
  Fd = {f1}
  NoTask = none
  MaxEvents = 1
  Shared = FALSE
INVARIANTS
  MapMatchesKernel
  NoSideStranded
  TaskNotForgotten
PROPERTY
  Resumed
CHECK_DEADLOCK FALSE
