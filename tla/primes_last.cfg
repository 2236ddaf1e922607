SPECIFICATION Spec
CONSTANTS
  W = 4
  CAPACITY = 5
  SIZE = 4
  REPORTED = 5
  UNDEFINED = UNDEFINED
  FOREIGN = FOREIGN
CHECK_DEADLOCK FALSE
INVARIANTS
  LastFoundPrimes
