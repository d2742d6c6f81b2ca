SPECIFICATION Spec
CONSTANTS
  SendSize = 3
  ReceiveSize = 3
  Roles <- MCRoles
  Lengths <- MCLengths
  LongestWrite = 4
  MaxTransfers = 3
INVARIANTS TypeOK SendComplete IdleMeansFree ReceiveReturns HandlerGetsWrite ReadGetsHandlersBytes
PROPERTIES CallsReturn
CHECK_DEADLOCK FALSE
