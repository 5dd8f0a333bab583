SPECIFICATION FairSpec
CONSTANTS
  a1 = a1  a2 = a2  a3 = a3  k1 = k1  k2 = k2
  Calls = {a1, a2, a3}
  Cookies = {k1, k2}
  CookieOf <- OneSession
  Uncacheable = {k2}
  Concurrency = 1
  QueueLength = 1
  Retries = 1
CHECK_DEADLOCK FALSE
INVARIANTS PoolFollows OutcomeFollows StaleOnlyIfRacing
PROPERTY CallsReturn
