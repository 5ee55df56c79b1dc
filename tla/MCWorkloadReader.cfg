SPECIFICATION Spec
CONSTANTS
  Files <- MCFiles
INVARIANTS
  EnoughSpace
\* The client goes on to start its threads.
CHECK_DEADLOCK FALSE
