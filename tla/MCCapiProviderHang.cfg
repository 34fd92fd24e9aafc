SPECIFICATION FairSpec

CONSTANTS
  r1 = r1
  r2 = r2
  quit = quit
  None = None
  Calls = {r1, r2}
  Releasers = {quit}
  MaxTokens = 1
  Synchronous = TRUE

PROPERTIES
  LockIsReleased

CHECK_DEADLOCK FALSE
