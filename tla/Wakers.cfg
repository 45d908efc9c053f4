SPECIFICATION Spec
CONSTANTS
  LocalTask = {l1, l2}
  SharedTask = {s1}
  Copy = {c1, c2}
  Worker = {w1}
  Addr = {a1, a2, a3, a4, a5}
  Nil = nil
INVARIANTS
  WakersSound
  BoxesOwned
  StrongExact
  FlagExact
SYMMETRY Symmetry
CHECK_DEADLOCK FALSE
