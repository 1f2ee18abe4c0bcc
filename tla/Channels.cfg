CONSTANTS
  c1 = c1 c2 = c2
  Caller = {c1, c2}
  MaxGenerations = 3
  MaxStops = 4
SPECIFICATION Spec
INVARIANTS NoneAbandoned DownWhenStopped
PROPERTY StopReturns
CHECK_DEADLOCK FALSE
