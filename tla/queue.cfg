SPECIFICATION Spec
CONSTANTS
  Elements = {e1, e2, e3, e4}
  Threads = {t1, t2, t3}
  NULL = NULL
  GARBAGE = GARBAGE
  NOBODY = NOBODY
SYMMETRY Symmetry
INVARIANTS
  TypeOK
  LinkTargetLive
PROPERTIES
  FifoSpec
