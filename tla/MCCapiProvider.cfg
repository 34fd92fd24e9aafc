SPECIFICATION Spec

CONSTANTS
  r1 = r1
  r2 = r2
  quit = quit
  None = None
  Calls = {r1, r2}
  Releasers = {quit}
  MaxTokens = 2
  Synchronous = FALSE

INVARIANTS
  TypeOK
  OneLiveModel
  AnswerIsOwnUntilTimeout

CHECK_DEADLOCK FALSE
