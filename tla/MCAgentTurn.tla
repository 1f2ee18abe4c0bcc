------------------------------ MODULE MCAgentTurn ------------------------------
EXTENDS AgentTurn, TLC
CONSTANTS w1, w2, a, b
MCReplies == {<<"deepthink", "message", "mcp_x", "deepthink">>}
Symmetry == Permutations(Worker) \cup Permutations(Chat)
================================================================================
