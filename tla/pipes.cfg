SPECIFICATION FairSpec
CONSTANTS
  MAX_PROCS = 6
  MAX_PIPES = 6
  CAPACITY = 2
  NUMBERS <- ThreeNumbers
  MissingSets <- SomeMissing
  MAX_FAILURES = 1
  MAX_ROUNDS = 2
CHECK_DEADLOCK FALSE
INVARIANTS
  TypeOK
  PipelineAnswer
  EchoShown
PROPERTY
  NobodyWaitsForever
