SPECIFICATION Spec
CONSTANTS
  Worker = {w1, w2}
  Client = {c1}
  Task = {t1}
  NoTask = none
INVARIANT
  ShutdownWakes
