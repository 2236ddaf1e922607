SPECIFICATION FairSpec
CONSTANTS
  c1 = c1
  c2 = c2
  c3 = c3
  Nobody = Nobody
  Texts = {"OK", "hello"}
  Clients = {c1}
  Connected <- NoneConnected
  MAX_NUM_CLIENTS = 1
  CAPACITY = 2
  MaxChoices = 1
  Interruptible = {}
  Killable = {}
  MayStopServer = FALSE
  MaxRestarts = 0
  FreedRead = {"intact"}
CHECK_DEADLOCK FALSE
PROPERTY
  PromptedAfterConnecting
