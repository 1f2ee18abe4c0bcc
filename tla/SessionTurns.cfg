CONSTANTS
  k1 = k1 w1 = w1 w2 = w2 r1 = r1 r2 = r2 r3 = r3
  Key = {k1}
  Worker = {w1, w2}
  Runner = {r1, r2}
  Window = 2
  Edits = TRUE
  MaxTurns = 4
  MaxNews = 0
  MaxRestarts = 1
  None = None
SPECIFICATION Spec
INVARIANTS SummarisedOnce DrainComplete
PROPERTY AppendOnly
CHECK_DEADLOCK FALSE
