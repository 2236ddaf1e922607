SPECIFICATION Spec
CONSTANTS
  Nodes = {n1, n2, n3, n4}
  HEAD = HEAD
  TAIL = TAIL
  NULL = NULL
  GARBAGE = GARBAGE
  Pids = {a, b, c, d}
  MAX_NUM_CLIENTS = 3
SYMMETRY Symmetry
INVARIANTS
  TypeOK
  WalksAgree
  CursorsLive
  LoopServesAll
PROPERTY
  RosterSpec
