CONSTANTS
  TimerSize = 9
  Compare <- MCBoth
  Base = 3
  Counts = {1, 2}
  Periods = {2}
  Calls = {"Run"}
  MaxCalls = 2
SPECIFICATION Spec
PROPERTIES RunEnds
