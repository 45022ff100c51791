\* evaluate() with a pipeline_fn, one evaluation of up to two examples.
SPECIFICATION MCSpec
CONSTANTS
  Gone = Gone
  d1 = d1
  e1 = e1
  e2 = e2
  v1 = v1
  v2 = v2
  r1 = r1
  t1 = t1
  k1 = k1
  Dataset = {d1}
  Example = {e1, e2}
  Adder = {k1}
  MaxRows = 2
  Eval = {v1, v2}
  Rule = {r1}
  RuleSet <- OneSet
  Task = {t1}
  Stored <- OneJudged
  Live = {0, 2}
  Threshold = 1
  GateAt = 2
  Focus = {"pipeline"}
  p1 = p1
  p2 = p2
  p3 = p3
  n1 = n1
  a1 = a1
  a2 = a2
  MaxClock = 4
  Name = {n1}
  Version = {p1, p2, p3}
  Saver = {k1, r1}
  Player = {v1, v2}
  Limit = 2
  Window = 1
  Nobody = Nobody
  Key = {e1}
  Worker = {v1, v2}
  Ttl = 2
  Alert = {a1, a2}
  Looper = {v1, v2}
  Unread = {a2}
  a3 = a3
  Hooked = {a1}
CHECK_DEADLOCK FALSE
INVARIANTS
  LocalResultsRecorded
