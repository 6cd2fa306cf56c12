CONSTANTS
  a = a
  b = b
  c = c
  Capability = {a, b, c}
  Foreign = {}
  Task = {t1, t2}
  ActiveCap = 1
  MdlThreshold = 0
  ProvisionalCap = 1
  Grace = 2
  Ops <- Motif
  Client = {c1, c2}
  Line = {"submit", "silent", "status", "malformed", "garbled"}
SPECIFICATION ServeSpec
INVARIANTS MutexHeld StatusIsConsistent PlannedOnce MetricsAreCurrent
PROPERTIES LinesAreAnswered MaintenanceHappens
