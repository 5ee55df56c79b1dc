SPECIFICATION FairSpec
CONSTANTS
  NPROC = 3
  NCPUs = {1}
  Mutexes <- OneMutex
  PageOf <- OnePage
  MinNice <- MinusOne
  MaxNice = 1
  Increments <- UpDown
  MAXMUTEXLOCKSHELD = 2
  None = None
PROPERTIES
  NoEndlessInversion
