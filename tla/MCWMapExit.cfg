SPECIFICATION FairSpec
CONSTANTS
  Procs = {1, 2, 3}
  W = 4
  SZ = 3
  NPAGES = 6
  MAXFILE = 2
  readable = TRUE
  writable = TRUE
  MAX_UPAGE_INFO = 4
  MAX_WMMAP_INFO = 2
  MaxLength = 2
  Kinds <- MCKinds
  Fixed = {}
  Mappers = {2}
  MaxCalls = 1
PROPERTY
  ExitEnds
