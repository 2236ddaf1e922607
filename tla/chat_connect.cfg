SPECIFICATION FairSpec
CONSTANTS
  c1 = c1
  c2 = c2
  c3 = c3
  Nobody = Nobody
  Texts = {"hello"}
  Clients = {c1, c2}
  Connected <- NoneConnected
  MAX_NUM_CLIENTS = 1
  CAPACITY = 2
  MaxChoices = 1
  Interruptible = {c1}
  Killable = {c2}
  MayStopServer = TRUE
  MaxRestarts = 1
  FreedRead = {"intact", "fault"}
CHECK_DEADLOCK FALSE
INVARIANTS
  TypeOK
  PromptMeansListed
  QuitDisconnects
  BlockedOnlyOnConnect
PROPERTIES
  ServerResponsive
  ReadingEnds
