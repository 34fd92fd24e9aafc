SPECIFICATION FairSpec

CONSTANTS
  r1 = r1
  r2 = r2
  None = None
  Calls = {r1, r2}
  Marked = {r2}

INVARIANTS
  TypeOK
  CleanAnswerIsWhole
  LeavesNothingBehind

PROPERTIES
  EveryCallReturns

\* Every call may have returned and every process ended.
CHECK_DEADLOCK FALSE
