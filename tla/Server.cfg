SPECIFICATION FairSpec
CONSTANTS
  s1 = s1  s2 = s2  s3 = s3  u1 = u1  d1 = d1  d2 = d2
  Handshakes = {s1, s2, s3}
  Users = {u1}
  NoUser = NoUser
  Untracked = Untracked
  Drainers = {d1, d2}
  MaxConnections = 2
  MaxPerUser = 1
CHECK_DEADLOCK FALSE
INVARIANTS SlotsFollow EverybodyTold ListenerStops
PROPERTIES DrainReturns ImplementsAdmission
