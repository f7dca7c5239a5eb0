SPECIFICATION LiveSpec
CONSTANTS
  Procs = {p1, p2}
  Bytes = {0, 1}
  PIPESIZE = 2
  Wrap = 4
  Counts = {0, 1, 3}
  None = None
INVARIANTS PipeNotLost NoUseAfterFree
PROPERTIES Fifo CallsEnd
CHECK_DEADLOCK FALSE
