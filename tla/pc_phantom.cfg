SPECIFICATION Spec
CONSTANTS
  Consumers = {c1, c2}
  NUM_ITEMS = 2
  BUF_SIZE = 2
  MAX_NUM_CONSUMERS = 2
  Mortal = {}
  StackGarbage = {FALSE}
  OutOfRangeRead = {"value"}
CHECK_DEADLOCK FALSE
INVARIANTS
  TakeWithinBuffer
