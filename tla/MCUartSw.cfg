CONSTANTS
  TimerSize = 14
  Radix = 7
  Compare <- MCCompare
  DataBits = 2
  UartswBaudRateDiv = 6
  Latency = 1
  UARTSW_RX_BUFFER_SIZE = 1
  Bytes = {1, 2}
  MaxBytes = 2
SPECIFICATION Spec
INVARIANTS TypeOK InOrder
PROPERTIES RefinesLink Delivered
