CONSTANTS
  a = a
  b = b
  c = c
  x = x
  Capability = {a, b, c}
  Foreign = {x, 1}
  Task = {t1, t2, t3}
  ActiveCap = 2
  MdlThreshold = 1
  ProvisionalCap = 1
  Grace = 2
  MaxVersion = 5
  Ops <- MixedMotifs
SYMMETRY TaskSymmetry
SPECIFICATION MCSpec
INVARIANTS LocalizedIsExact TierSound QuietTierIsFresh
PROPERTIES DeferredGrowthPays ImplementsVocabularyGrowth
CHECK_DEADLOCK FALSE
