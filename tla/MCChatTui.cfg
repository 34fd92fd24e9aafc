SPECIFICATION Spec

CONSTANTS
  s1 = s1
  s2 = s2
  s3 = s3
  None = None
  Chats = {s1, s2, s3}
  MaxPieces = 1
  MaxTurns = 1
  MaxCommands = 1

SYMMETRY ChatSymmetry

INVARIANTS
  TypeOK
  WritesItsOwnLine
  LoneReplyIsItsOwn
  RequestEndsWithItsQuestion
  TurnsAlternate


CHECK_DEADLOCK FALSE
