SPECIFICATION Spec
CONSTANTS
  NI = 4
  NB = 4
  D_BLOCK = 1
  EntriesPerBlock = 1
  PtrsPerBlock = 3
  Names <- ThreeNames
  Paths <- RootPaths
  HeadName <- SuperblockName
  RawName <- SpelledName
  Values = {1, 2}
  Offsets = {1, 2, 5}
  MaxWrite = 2
INVARIANTS
  SpaceSound
  TreeSound
  ReadBack
PROPERTIES
  FailureInvisible
