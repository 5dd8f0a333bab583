SPECIFICATION Spec
CONSTANTS
  c1 = c1  c2 = c2  i1 = i1  i2 = i2  k1 = k1  k2 = k2  k3 = k3  ctl = ctl
  u1 = u1  u2 = u2
  Conns = {c1, c2}
  Ids = {i1, i2}
  IdOf <- OwnIds
  Users = {u1}
  Keys = {k1, ctl}
  Reserved = {ctl}
  Unresolved = {}
  ControlKey = ctl
  Patterns <- OneKey
  MaxSubs = 0
  NoUser = NoUser
  NoConn = NoConn
PROPERTY DisconnectClosesEvery
