CONSTANTS
  p1 = p1 p2 = p2
  Files = 2
  Proc = {p1, p2}
  Started <- MCStarted
  Bundled = {"handoff", "mcp"}
  MaxMoves = 2
  MaxKills = 1
  None = None
SPECIFICATION Spec
INVARIANTS CommitProducedBundle BundleSurvives
PROPERTIES PublishedAsCommitted VerifiedMeansSo
SYMMETRY Symmetry
CHECK_DEADLOCK FALSE
