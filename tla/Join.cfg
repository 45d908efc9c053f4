SPECIFICATION FairSpec
CONSTANTS
  Task = {root, t1, t2}
  Root = root
  NoTask = none
INVARIANTS
  JoinNotMissed
  CallerSignalled
PROPERTY
  BlockOnCompletes
CHECK_DEADLOCK FALSE
