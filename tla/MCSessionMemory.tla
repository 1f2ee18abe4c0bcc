--------------------------- MODULE MCSessionMemory ---------------------------
EXTENDS SessionMemory, TLC
CONSTANTS k1, w1, w2, r1, r2, r3
Symmetry == Permutations(Worker) \cup Permutations(Runner)
==============================================================================
