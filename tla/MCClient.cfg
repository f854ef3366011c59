SPECIFICATION FairSpec
CONSTANTS
  MaxParts = 8
  SendRoom = 1
  OwnedByFrames = FALSE
  MaxCalls = 3
  RequestParts = 1
INVARIANTS
  TypeOK
  AnswerFindsSession
  DesyncNeedsRetry
PROPERTY CallCompletes
CHECK_DEADLOCK FALSE
