SPECIFICATION Spec
CONSTANTS
  NPROC = 3
  CPUs = {c1, c2}
  MaxPid = 4
  KillTargets = {2}
SYMMETRY Symm
INVARIANTS OneCPU FreedOffStack ParentAlive NoMissedExit KilledAsAsked
CHECK_DEADLOCK FALSE
