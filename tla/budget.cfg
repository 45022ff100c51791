\* Two processes, a directory with a budget of one payload, I/O errors, a backend that takes nothing.
SPECIFICATION Spec
CONSTANTS
  None = None
  Blank = Blank
  Stop = Stop
  a = a
  b = b
  q1 = q1
  q2 = q2
  Client = {a, b}
  Proc = {q1, q2}
  ProcOf <- TwoProcesses
  App = {t1}
  Path = {f1, f2, f3, f4}
  Payload = {p1, p2}
  MaxFiles = 1
  Capacity = 1
  Attempts = 1
  Refusable = {}
  Poison = {p1, p2}
  Events <- DiskErrors
INVARIANTS
  DiskBudget
SYMMETRY PathsAndPayloads
