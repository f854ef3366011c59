SPECIFICATION Spec
CONSTANTS
  Clients = {a, b}
  NULL = NULL
  MaxFd = 1
  Backlog = 2
  Options = 2
INVARIANTS
  TypeOK
  DescriptorsOwned
  SendFnFirst
PROPERTY WaitingIsServed
CHECK_DEADLOCK FALSE
