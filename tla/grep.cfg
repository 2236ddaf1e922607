SPECIFICATION FairSpec
CONSTANTS
  Paths <- MCPaths
  Root = "/"
  FileTrees <- MCTrees
  NUM_THREADS = 2
  Modes = {"static", "dynamic"}
  MAX_ELEMENTS_Q = 2
  MaxDeletions = 1
  CreateMayFail = TRUE
CHECK_DEADLOCK FALSE
INVARIANTS
  TypeOK
  ParallelMatchesSerial
  WorkPartitioned
  UnlockedReadsQuiet
PROPERTIES
  Terminates
