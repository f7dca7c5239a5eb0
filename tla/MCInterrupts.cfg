SPECIFICATION Spec
CONSTANTS
  h0 = h0
  h1 = h1
  p1 = p1
  p2 = p2
  None = None
  Harts = {h0, h1}
  Hart0 = h0
  Procs = {p1, p2}
  Size = 4
  TxSize = 2
  Fifo = 2
  Width = 8
  Letters = {"a", "b"}
  Timers = 1
  Scenes <- MCScenes
INVARIANTS NothingLost NoPanic
PROPERTIES LinesKept ProgramsEnd
