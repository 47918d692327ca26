SPECIFICATION Spec

CONSTANTS
  Worker = {w1, w2}
  Caller = {c1}
  TimerId = {x, y}
  TicksPerSecond = 4
  Hour = 6
  MAX_TIMEOUT = 8
  Periods = {2}
  StartTime = 5
  MaxTime = 3

SYMMETRY Symmetry

INVARIANTS
  NotEarly

\* Time ends with the bound.
CHECK_DEADLOCK FALSE
