SPECIFICATION LoadedSpec
CONSTANTS
  Worker = {w1, w2}
  Client = {c1}
  Task = {t1, t2}
  NoTask = none
PROPERTIES
  OwedTaskRuns
  DriverComes
  ShutdownReturns
