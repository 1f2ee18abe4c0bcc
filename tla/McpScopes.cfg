CONSTANTS
  r1 = r1 r2 = r2 c1 = c1 g1 = g1 g2 = g2 k1 = k1 k2 = k2 s1 = s1
  Task = {r1, r2, c1}
  Root = {r1, r2}
  Bare = {r1}
  Manual = {}
  Server = {s1}
  Gen = {g1, g2}
  Scope = {k1, k2}
  MaxDepth = 2
  MaxCancels = 1
  None = None
SPECIFICATION Spec
INVARIANTS LeaseSafety TransportOwned CatalogExact CancellationReported AgentCloseTerminal
SYMMETRY Symmetry
CHECK_DEADLOCK FALSE
