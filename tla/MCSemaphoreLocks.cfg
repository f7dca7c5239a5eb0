SPECIFICATION Spec
CONSTANTS
  NPROC = 3
  N = 1
  Values = {1}
  MaxDebt = 2
  Killable = {2}
PROPERTIES Refinement WakeupEnds
CHECK_DEADLOCK FALSE
