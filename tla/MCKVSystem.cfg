SPECIFICATION FairSpec
CONSTANTS
  Servers = {s1, s2}
  RingSize = 1
  MAX_THREADS = 2
  Keys <- MCKeys
  Vals <- MCVals
  Garbage = Garbage
  Configs <- MCConfigs
INVARIANTS
  BoardExclusive
  AnswersMatch
  SyncCheckSucceeds
  QuiescentAtKill
PROPERTIES
  AllAnswered
