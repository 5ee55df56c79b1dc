SPECIFICATION Spec
CONSTANTS
  NPROC = 3
  NCPUs = {2}
  Mutexes <- TwoMutexes
  PageOf <- TwoPages
  MinNice <- MinusOne
  MaxNice = 0
  Increments <- Both
  MAXMUTEXLOCKSHELD = 2
  None = None
INVARIANTS
  TypeOK
  OneCpuEach
  NoMissedWakeup
  LocksHeldAccurate
  
PROPERTIES
  MinNiceRuns
