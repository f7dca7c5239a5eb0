SPECIFICATION PPSpec
CONSTANTS
  Instances = {a, b}
  Procs <- MCProcs
  N = 3
  Values = {1}
  MaxDebt = 6
  Amount = 3
  ForkMayFail = TRUE
INVARIANTS Alternation SharedOnlyAfterClose
PROPERTIES EndsAlone
CHECK_DEADLOCK FALSE
