SPECIFICATION Spec
CONSTANTS
  Procs = {1, 2, 3}
  W = 4
  SZ = 3
  NPAGES = 6
  MAXFILE = 2
  readable = TRUE
  writable = TRUE
  MAX_UPAGE_INFO = 3
  MAX_WMMAP_INFO = 1
  MaxLength = 2
  Kinds <- MCKinds
  Fixed = {1}
  Mappers = {2}
  MaxCalls = 4
INVARIANTS
  PagesSound
  FileAlive
  InfoTrue
  StoresReachFile
