CONSTANTS
  Payload = {"text", "empty"}
  Connection = {c1, c2, c3}
  NoConnection = none
SPECIFICATION Spec
PROPERTY CallEnds
CHECK_DEADLOCK FALSE
