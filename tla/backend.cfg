\* One dataset, two examples, two evaluations, one rule, one trace; three versions, two workers, a limit of two, a key, three alerts.
SPECIFICATION MCFairSpec
CONSTANTS
  Gone = Gone
  d1 = d1
  e1 = e1
  e2 = e2
  v1 = v1
  v2 = v2
  r1 = r1
  t1 = t1
  k1 = k1
  Dataset = {d1}
  Example = {e1, e2}
  Adder = {k1}
  MaxRows = 2
  Eval = {v1, v2}
  Rule = {r1}
  RuleSet <- OneSet
  Task = {t1}
  Stored <- OneJudged
  Live = {0, 2}
  Threshold = 1
  GateAt = 2
  Focus = {"datasets", "watched", "gated", "online", "pipeline", "playground", "limit", "keys", "alerts"}
  p1 = p1
  p2 = p2
  p3 = p3
  n1 = n1
  a1 = a1
  a2 = a2
  a3 = a3
  MaxClock = 4
  Name = {n1}
  Version = {p1, p2, p3}
  Saver = {k1, r1}
  Player = {v1, v2}
  Limit = 2
  Window = 1
  Nobody = Nobody
  Key = {e1}
  Worker = {v1, v2}
  Ttl = 2
  Alert = {a1, a2, a3}
  Looper = {v1}
  Unread = {a2}
  Hooked = {a1, a2}
CHECK_DEADLOCK FALSE
INVARIANTS
  TypeOK
  CompletedIsFull
  AnswerTellsOutcome
  OrphansAreLate
  GrantsBounded
  KeyFresh
  FiredHasResult
PROPERTIES
  GateCountsAll
  VersionsGrow
  AlertsHeard
  RunSettles
