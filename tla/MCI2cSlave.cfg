SPECIFICATION Spec
CONSTANTS
  SendSize = 3
  ReceiveSize = 3
  Roles <- MCSlave
  Lengths <- MCLengths
  LongestWrite = 4
  MaxTransfers = 3
PROPERTIES BecomesReady
CHECK_DEADLOCK FALSE
