CONSTANTS
  every = every once = once t1 = t1 t2 = t2 t3 = t3 t4 = t4 c1 = c1 c2 = c2
  Job = {every, once}
  OneTime = {once}
  Delete = {}
  At = 3
  Interval = 2
  Timer = {t1, t2, t3}
  Caller = {c1, c2}
  Overlap = {"task", "turn", "manual"}
  MaxTime = 5
  MaxCalls = 3
  MaxCancels = 1
  None = None
SPECIFICATION FairSpec
INVARIANTS ClosedQuiet Covered
PROPERTIES NoDrift DueRuns
CHECK_DEADLOCK FALSE
