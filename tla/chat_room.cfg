SPECIFICATION Spec
CONSTANTS
  c1 = c1
  c2 = c2
  c3 = c3
  Nobody = Nobody
  Texts = {"hello"}
  Clients = {c1, c2, c3}
  Connected <- ThreeConnected
  MAX_NUM_CLIENTS = 3
  CAPACITY = 1
  MaxChoices = 2
  Interruptible = {c2}
  Killable = {c3}
  MayStopServer = FALSE
  MaxRestarts = 0
  FreedRead = {"intact", "fault"}
CHECK_DEADLOCK FALSE
INVARIANTS
  GlobalReachesAll
  AnswerOnItsWay
