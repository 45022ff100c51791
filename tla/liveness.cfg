\* One client that is flushed, closed or reset, whatever it is doing; a payload that always makes the backend fail, an outage, errors that hide a stored row.
SPECIFICATION FairSpec
CONSTANTS
  None = None
  Blank = Blank
  Stop = Stop
  a = a
  b = b
  q1 = q1
  q2 = q2
  Client = {a}
  Proc = {q1}
  ProcOf <- OneProcess
  App = {t1}
  Path = {f1, f2}
  Payload = {p1, p2}
  MaxFiles = 0
  Capacity = 1
  Attempts = 2
  Refusable = {}
  Poison = {p1}
  Events <- Fair
INVARIANTS
  OnePlace
PROPERTIES
  EventuallySettled
  ClosedStops
  FlushLeavesInFlight
