SPECIFICATION Spec
CONSTANTS
  NBLOCKS = 12
  NINODES = 7
  NINODE = 7
  BSIZE = 2
  NDIRECT = 2
  NINDIRECT = 2
  NFILE = 4
  NOFILE = 3
  WMAX = 2
  Procs = {p1, p2}
  Programs <- AllPrograms
  None = None
INVARIANTS BlocksOwned LinksExact RefsExact TestsPass NoCircle
