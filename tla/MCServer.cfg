SPECIFICATION FairSpec
CONSTANTS
  MaxParts = 8
  SendRoom = 2
  OwnedByFrames = TRUE
  ResponseParts = 3
INVARIANTS
  TypeOK
  ReadinessNotLost
  WritabilityNotLost
  WireInOrder
  OpenResumesLive
  StrandedNeedsReset
PROPERTIES
  WrittenIsSent
  ShutdownReleases
CHECK_DEADLOCK FALSE
