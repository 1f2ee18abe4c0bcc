-------------------------- MODULE MCMcpLifecycle --------------------------
EXTENDS McpLifecycle, TLC
CONSTANTS r1, r2, c1, g1, g2, k1, k2, s1
Symmetry == Permutations(Gen) \cup Permutations(Scope)
===========================================================================
