SPECIFICATION Spec
CONSTANTS
  Procs = {1, 2}
  NBUF = 3
  None = None
  Homes <- MCHomes
  LogBlocks <- MCLog
  Header = "head"
  Blocks <- MCBlocks
  Values = {0, 1}
  Zero = 0
  Writes <- MCWrites
  MAXOPBLOCKS = 2
  LOGSIZE = 4
  nlog = 4
INVARIANTS
  CacheSound
  NoPanic
  SleepersJustified
PROPERTY
  ImplementsStore
