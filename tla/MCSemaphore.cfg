SPECIFICATION Spec
CONSTANTS
  Procs = {p1, p2, p3}
  N = 1
  Values = {0, 1, 2}
  MaxDebt = 3
SYMMETRY Symm
INVARIANTS CountBound NoLostWakeup
CHECK_DEADLOCK FALSE
