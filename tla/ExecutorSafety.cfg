SPECIFICATION Spec
CONSTANTS
  Worker = {w1, w2}
  Client = {c1}
  Task = {t1, t2}
  NoTask = none
INVARIANTS
  ExclusivePoll
  OneTicket
  SoleDriver
  WorkConserving
  ActiveExact
PROPERTIES
  KeepsWakeContract
