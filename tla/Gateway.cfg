SPECIFICATION GatewayFairSpec
CONSTANTS
  w1 = w1
  w2 = w2
  ctl = ctl
  r1 = r1
  s1 = s1
  event = event
  revoke = revoke
  Workers = {w1, w2}
  Controller = ctl
  Readers = {r1}
  Handlers = {w1, r1}
  Sinks = {s1}
  CloserQueue = 1
  Messages = {event, revoke}
  IsControl = {revoke}
  IntakeQueue = 1
  ControlQueue = 1
  SignalBuffer = 1
  None = None
INVARIANTS TearDownOrder NoSendOnClosedIntake DeliversUntilDrained LeaksNothing
PROPERTIES StopReturns ControlIsJudged EveryCloseHappens
CHECK_DEADLOCK FALSE
