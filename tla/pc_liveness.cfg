SPECIFICATION FairSpec
CONSTANTS
  Consumers = {c1, c2, c3}
  NUM_ITEMS = 2
  BUF_SIZE = 1
  MAX_NUM_CONSUMERS = 2
  Mortal = {c3}
  StackGarbage = {FALSE}
  OutOfRangeRead = {"value", "fault"}
CHECK_DEADLOCK FALSE
PROPERTIES
  ConsumersFinish
  ProducerExits
