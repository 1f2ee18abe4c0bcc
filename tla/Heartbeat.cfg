CONSTANTS
  w1 = w1 w2 = w2 w3 = w3 c1 = c1 c2 = c2 c3 = c3
  Worker = {w1, w2, w3}
  Caller = {c1, c2}
  MaxCalls = 5
  MaxCancels = 2
  None = None
SPECIFICATION FairSpec
INVARIANTS OneWorker StopWins ClosedQuiet CancellationReplayed
PROPERTY CallsReturn
CHECK_DEADLOCK FALSE
