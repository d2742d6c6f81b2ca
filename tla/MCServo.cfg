CONSTANTS
  TimerSize = 19
  Compare <- MCCompare
  SERVO_NUM_CHANNELS = 2
  SERVO_MIN = 1
  SERVO_MAX = 2
  SERVO_POSITION_MAX = 3
  Ports = {0, 1}
  Bits = {0, 1}
  DefaultPort = 0
  Moved <- MCMoved
  Positions = {0, 2, 9}
  Scaled = {1, 3}
SPECIFICATION Spec
INVARIANTS TypeOK OneHigh
PROPERTIES PulseWidth FrameLength
