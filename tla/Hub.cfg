SPECIFICATION HubFairSpec
CONSTANTS
  c1 = c1  i1 = i1  k1 = k1  ctl = ctl  u1 = u1
  Conns = {c1}
  Ids = {i1}
  IdOf <- OwnId
  Users = {u1}
  Keys = {k1, ctl}
  Reserved = {ctl}
  Unresolved = {}
  ControlKey = ctl
  Patterns <- NoPattern
  MaxSubs = 0
  NoUser = NoUser
  NoConn = NoConn
INVARIANTS HeldIsUpstream
PROPERTIES ImplementsReconciler Converges
