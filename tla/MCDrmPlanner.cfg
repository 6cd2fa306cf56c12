CONSTANTS
  a = a
  b = b
  c = c
  Capability = {a, b, c}
  Foreign = {}
  Task = {t1, t2, t3}
  ActiveCap = 2
  MdlThreshold = 1
  MaxVersion = 5
  Ops <- OpsValue
SYMMETRY TaskSymmetry
SPECIFICATION MCSpec
INVARIANTS EvidenceComplete RepairIsLeast
PROPERTIES GrowthShrinksCorpus RecoveryOnlyWhenEvicted ImplementsWorkingSet
CHECK_DEADLOCK FALSE
