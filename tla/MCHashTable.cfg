SPECIFICATION FairSpec
CONSTANTS
  Threads = {t1, t2}
  Keys <- MCKeys
  Vals <- MCVals
  Size = 2
  NoThread = NoThread
INVARIANTS
  TypeOK
  ChainsWellFormed
PROPERTIES
  Linearizable
  CallsComplete
