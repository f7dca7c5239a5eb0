SPECIFICATION Spec
CONSTANTS
  NULL = NULL
  MaxCommands = 4
  Capacity = 1
  Input = 2
  CallsMayFail = TRUE
  Sessions <- MCSessions
  Alphabet = {"a", "b", "<", ">", "|", "&"}
  MaxTokens = 5
INVARIANTS ParsedRight ForegroundDone
PROPERTIES SessionEnds
CHECK_DEADLOCK FALSE
