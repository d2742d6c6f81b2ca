CONSTANTS
  Size = 3
  Word = 8
  Radix = 4
  MaxRx = 4
  Handlers <- MCHandlers
  Data <- MCData
SPECIFICATION Spec
CHECK_DEADLOCK FALSE
INVARIANT OnlySuppliedFunction
