SPECIFICATION Spec
CONSTANTS
  MaxParts = 8
  SendRoom = 2
  OwnedByFrames = TRUE
  ResponseParts = 3
INVARIANTS
  NoDanglingResume
CHECK_DEADLOCK FALSE
