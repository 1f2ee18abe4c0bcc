CONSTANTS
  k1 = k1 w1 = w1 w2 = w2 r1 = r1 r2 = r2 r3 = r3
  Key = {k1}
  Worker = {w1}
  Runner = {r1, r2}
  Window = 2
  Edits = TRUE
  MaxTurns = 3
  MaxNews = 2
  MaxRestarts = 0
  None = None
SPECIFICATION FairSpec
INVARIANT ArchiveKept
PROPERTIES FactsKept ConsolidationEnds
CHECK_DEADLOCK FALSE
