CONSTANTS
  a = a
  b = b
  Capability = {a, b}
  Foreign = {}
  MaxLength = 4
  MaxWords = 2
  Text <- TextValue
SYMMETRY CapabilitySymmetry
SPECIFICATION MCSpec
INVARIANTS CompressionLossless LearningIsExact TilingIsLeast
CHECK_DEADLOCK FALSE
