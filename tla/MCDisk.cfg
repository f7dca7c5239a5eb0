SPECIFICATION Spec
CONSTANTS
  Procs = {p1, p2}
  Bufs = {b1, b2}
  Blocks = {k1, k2, k3}
  Values = {0, 1}
  NUM = {4, 6}
  None = None
INVARIANTS RightBuffer ChainsOwned SleepersWoken
PROPERTIES Coherent
CHECK_DEADLOCK FALSE
SYMMETRY Symmetry
