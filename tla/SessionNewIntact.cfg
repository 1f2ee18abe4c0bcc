CONSTANTS
  k1 = k1 w1 = w1 w2 = w2 r1 = r1 r2 = r2 r3 = r3
  Key = {k1}
  Worker = {w1}
  Runner = {r1, r2, r3}
  Window = 2
  Edits = FALSE
  MaxTurns = 4
  MaxNews = 1
  MaxRestarts = 0
  None = None
SPECIFICATION Spec
INVARIANT HistoryIntact
CHECK_DEADLOCK FALSE
