\* One client that is neither closed nor killed; the backend comes and goes.
SPECIFICATION Spec
CONSTANTS
  None = None
  Blank = Blank
  Stop = Stop
  a = a
  b = b
  q1 = q1
  q2 = q2
  Client = {a}
  Proc = {q1}
  ProcOf <- OneProcess
  App = {t1, t2}
  Path = {f1, f2, f3}
  Payload = {p1, p2, p3}
  MaxFiles = 0
  Capacity = 1
  Attempts = 2
  Refusable = {p1}
  Poison = {}
  Events <- Outages
INVARIANTS
  TypeOK
  NoLoss
  NoDuplicate
PROPERTIES
  DurableQueue
  KeepsPromise
