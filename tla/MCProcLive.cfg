SPECIFICATION LiveSpec
CONSTANTS
  NPROC = 3
  CPUs = {c1}
  MaxPid = 3
  KillTargets = {}
PROPERTIES NoStarvation OrphansReaped
CHECK_DEADLOCK FALSE
