CONSTANTS
  a = a
  b = b
  c = c
  x = x
  Capability = {a, b, c}
  Foreign = {}
  Task = {t1, t2, t3}
  ActiveCap = 2
  MdlThreshold = 2
  ProvisionalCap = 1
  Grace = 2
  MaxVersion = 5
  Ops <- SharedMotifs
SYMMETRY TaskSymmetry
SPECIFICATION MCSpec
PROPERTY EvidenceKept
CHECK_DEADLOCK FALSE
