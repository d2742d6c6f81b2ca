CONSTANTS
  Size = 3
  Word = 8
  Radix = 4
  MaxRx = 4
  Handlers <- MCHandlers
  Data <- MCData
SPECIFICATION Spec
CHECK_DEADLOCK FALSE
INVARIANTS TypeOK BufferIsExact ReceiveFindsByte
PROPERTIES RefinesFifo NoFalseEmpty FlushForgets MixOnlyInSet ByteServed CallsReturn
