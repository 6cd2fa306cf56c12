CONSTANTS
  Payload = {"text"}
  Connection = {c1, c2, c3}
  NoConnection = none
SPECIFICATION Spec
PROPERTIES CallEnds DropEnds
CHECK_DEADLOCK FALSE
