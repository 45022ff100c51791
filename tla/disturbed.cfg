\* Two clients of one process, closed, disabled and killed, one file at a time.
SPECIFICATION Spec
CONSTANTS
  None = None
  Blank = Blank
  Stop = Stop
  a = a
  b = b
  q1 = q1
  q2 = q2
  Client = {a, b}
  Proc = {q1}
  ProcOf <- OneProcess
  App = {t1}
  Path = {f1}
  Payload = {p1, p2}
  MaxFiles = 1
  Capacity = 1
  Attempts = 1
  Refusable = {}
  Poison = {}
  Events <- Disturbed
INVARIANTS
  Conservation
PROPERTIES
  LossesAtEnds
  SegmentsLeaveSettled
SYMMETRY PathsAndPayloads
ACTION_CONSTRAINT OneCloses
