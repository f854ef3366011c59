SPECIFICATION Spec
CONSTANTS
  BlockSize = 4
  IOV_MAX = 2
  MaxMessages = 3
  BodySizes = {0, 1, 2, 4}
INVARIANTS
  TypeOK
  SizeIsContents
  ChainIsTight
  NothingLeftBehind
PROPERTY StreamImplemented
CHECK_DEADLOCK FALSE
