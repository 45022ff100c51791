\* Two replicas, a browser of one of them that may stop reading or leave, a trace posted to both, clients, Redis and ClickHouse failing.
SPECIFICATION FairSpec
CONSTANTS
  r1 = r1
  r2 = r2
  w1 = w1
  w2 = w2
  t1 = t1
  t2 = t2
  None = None
  Replica = {r1, r2}
  Socket = {w1}
  HomeOf <- OneHome
  Slow = {w1}
  Trace = {t1}
  Attempts = 2
  RedisUrl = TRUE
  FeedEvents = {"leave", "redis", "ambiguous"}
  Spanless = {t1}
  Events = {"outage", "timeout"}
CHECK_DEADLOCK FALSE
INVARIANTS
  FeedOnce
PROPERTIES
  Answered
  GoneLeaves
ACTION_CONSTRAINT Apart
