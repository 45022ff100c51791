\* Two processes on one directory.
SPECIFICATION Spec
CONSTANTS
  None = None
  Blank = Blank
  Stop = Stop
  a = a
  b = b
  q1 = q1
  q2 = q2
  Client = {a, b}
  Proc = {q1, q2}
  ProcOf <- TwoProcesses
  App = {t1}
  Path = {f1, f2}
  Payload = {p1, p2}
  MaxFiles = 0
  Capacity = 1
  Attempts = 1
  Refusable = {}
  Poison = {}
  Events <- Outages
INVARIANTS
  NoLoss
