\* Without Redis: one replica, a trace posted twice, ClickHouse, clients and process failing; with it: two replicas that crash.
SPECIFICATION MCSpec
CONSTANTS
  r1 = r1
  r2 = r2
  w1 = w1
  w2 = w2
  t1 = t1
  t2 = t2
  None = None
  Replica = {r1, r2}
  Socket = {w1, w2}
  HomeOf <- OneHome
  Slow = {}
  Trace = {t1, t2}
  Attempts = 2
  RedisUrl = TRUE
  FeedEvents = {"leave", "redis"}
  Spanless = {}
  Events = {"outage", "late", "crash", "timeout"}
CHECK_DEADLOCK FALSE
INVARIANTS
  TypeOK
  AckedComplete
  TornByFailureOnly
  FeedAfterStore
  FeedDelivered
  FeedInOrder
  ConnectionsServed
ACTION_CONSTRAINT Bounds
SYMMETRY Alike
