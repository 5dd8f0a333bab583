SPECIFICATION FairSpec
CONSTANTS
  c1 = c1  c2 = c2  q1 = q1
  Channels = {c1, c2}
  Calls = {q1}
  Impatient = FALSE
  InFlight = 3
INVARIANTS OneSocketThenNone DecisionIsThisConnections ActiveIsHeld NoPromiseHangs
PROPERTIES OnlyWantedReplayed PromisesSettle
CHECK_DEADLOCK FALSE
