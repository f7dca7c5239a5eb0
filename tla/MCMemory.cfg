SPECIFICATION Spec
CONSTANTS
  NPAGE = 36
  LITTLE = 8
  PGSIZE = 4
  FAN = 4
  WORD = 1024
  NALLOC = 4
  MAXARG = 4
  MALLOCS = 6
  HeapSizes = {1, 2, 5}
  Procs = {1, 2, 3}
  Programs <- AllPrograms
  Images <- AllImages
INVARIANTS PagesOwned MemTestsPass HeapCovered
