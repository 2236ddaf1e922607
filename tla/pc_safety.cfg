SPECIFICATION Spec
CONSTANTS
  Consumers = {c1, c2, c3}
  NUM_ITEMS = 4
  BUF_SIZE = 2
  MAX_NUM_CONSUMERS = 4
  Mortal = {}
  StackGarbage = {TRUE, FALSE}
  OutOfRangeRead = {"value", "fault"}
SYMMETRY Symmetry
CHECK_DEADLOCK FALSE
INVARIANTS
  TypeOK
  SharedMemExclusive
  TokenAccounting
  FullHandshake
  PutWithinBuffer
  NoDoubleConsumption
  AllConsumedAtFinish
  PhantomTakesBounded
PROPERTIES
  PoolSpec
