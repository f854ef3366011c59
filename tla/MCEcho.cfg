SPECIFICATION Spec
CONSTANTS
  WordSize <- MCWordSize
  Messages <- MCMessages
  Builds <- MCBuilds
  FirstIds = {0, 127}
  MaxCalls = 2
  BlockSize = 37
INVARIANTS
  TypeOK
  FramesDelimited
  SessionsMatchTraffic
PROPERTIES
  CallsInOrder
  CallsAnswered
CHECK_DEADLOCK FALSE
