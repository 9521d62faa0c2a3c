SPECIFICATION Spec
CONSTANTS
  Requests = {r1, r2, r3, r4}
  Clients = {c1, c2}
  MAX_FAILED_ATTEMPTS = 2
  WINDOW_SECONDS = 2
  MaxTime = 2
  MaxInFlight = 3
CHECK_DEADLOCK FALSE
INVARIANTS
  CountsEveryFailure
