SPECIFICATION FairSpec
CONSTANTS
  w1 = w1  w2 = w2
  Workers = {w1}
  OutboundQueue = 1
CHECK_DEADLOCK FALSE
PROPERTIES PushInOrder EndsCompletely SlowCloses TimersEnd
