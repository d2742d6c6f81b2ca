CONSTANTS
  TimerSize = 9
  Compare <- MCOne
  Base = 3
  Counts = {0, 1, 3}
  Periods = {2, 3}
  Calls = {"Run", "Stop", "SetFreq", "Off", "Init"}
  MaxCalls = 3
\* A program that has called half a pointer is gone.
CHECK_DEADLOCK FALSE
SPECIFICATION Spec
INVARIANTS TypeOK
PROPERTIES PulsesOut RunEnds
