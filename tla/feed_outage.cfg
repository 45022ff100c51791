\* One replica whose Redis goes away and comes back.
SPECIFICATION Spec
CONSTANTS
  r1 = r1
  r2 = r2
  w1 = w1
  w2 = w2
  t1 = t1
  t2 = t2
  None = None
  Replica = {r1}
  Socket = {w1}
  HomeOf <- OneHome
  Slow = {}
  Trace = {t1}
  Attempts = 1
  RedisUrl = TRUE
  FeedEvents = {"redis"}
  Spanless = {t1}
  Events = {}
CHECK_DEADLOCK FALSE
INVARIANTS
  FeedDelivered
