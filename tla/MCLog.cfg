SPECIFICATION Spec
CONSTANTS
  Procs = {p1, p2, p3}
  Blocks = {b1, b2, b3, b4}
  Values = {0, 1}
  MAXOPBLOCKS = 2
  LOGSIZE = 4
SYMMETRY Symm
INVARIANTS DurableWhenIdle BeginNotLost
PROPERTIES CrashAtomic
