SPECIFICATION Spec
CONSTANTS
  c1 = c1  c2 = c2  q1 = q1
  Channels = {c1}
  Calls = {}
  Impatient = TRUE
  InFlight = 3
INVARIANT NoPromiseHangs
CHECK_DEADLOCK FALSE
