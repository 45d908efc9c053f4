SPECIFICATION FairSpec
CONSTANTS
  Task = {root, t1}
  Root = root
  NoTask = none
PROPERTY
  BlockOnReturns
CHECK_DEADLOCK FALSE
