SPECIFICATION Spec
CHECK_DEADLOCK FALSE
CONSTANTS
  NPROC = 4
  NINODES = 8
  NBLOCKS = 12
  NDIRECT = 2
  NINDIRECT = 4
  MAXOPBLOCKS = 8
  Names <- MCNames
  NFILE = 5
  NOFILE = 5
  NPIPE = 1
  PIPESIZE = 2
  WORD = 8
  INPUT_BUF = 4
  NPAGES = 22
  NUVM = 6
  Programs <- MCPrograms
  Scenarios <- LinkUnlinkOnly
INVARIANTS
  NoDeadlock
