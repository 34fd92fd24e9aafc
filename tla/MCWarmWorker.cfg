SPECIFICATION FairSpec

CONSTANTS
  r1 = r1
  r2 = r2
  r3 = r3
  quit = quit
  None = None
  Exit = Exit
  Calls = {r1, r2, r3}
  Recyclers = {quit}
  Marked = {r1}
  MaxRequests = 2
  CanLinger = FALSE

INVARIANTS
  TypeOK
  OneModelResident
  ServesAtMostMaxRequests
  CountIsTrueBetweenCalls
  FailedWorkerIsKilled
  ForeignAnswerIsFromSameProcess

PROPERTIES
  LockIsReleased

\* Every call may have returned.
CHECK_DEADLOCK FALSE
