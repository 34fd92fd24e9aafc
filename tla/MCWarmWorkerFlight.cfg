SPECIFICATION Spec

CONSTANTS
  r1 = r1
  r2 = r2
  r3 = r3
  quit = quit
  None = None
  Exit = Exit
  Calls = {r1, r2, r3}
  Recyclers = {}
  Marked = {}
  MaxRequests = 3
  CanLinger = FALSE

INVARIANTS
  SingleFlight

CHECK_DEADLOCK FALSE
