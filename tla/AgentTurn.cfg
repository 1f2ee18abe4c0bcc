CONSTANTS
  w1 = w1 w2 = w2 a = a b = b
  Worker = {w1, w2}
  Chat = {a, b}
  Addressed = {"message"}
  Plain = {}
  Reasoning = {"deepthink"}
  Mcp = {"mcp_x"}
  Replies <- MCReplies
  MaxIterations = 2
  Attempts = 2
  MaxTurns = 2
  MaxCatalogs = 2
  None = None
SPECIFICATION Spec
INVARIANTS ReasoningPaced McpIsolated WorkAccounted
SYMMETRY Symmetry
CHECK_DEADLOCK FALSE
