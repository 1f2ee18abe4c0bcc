------------------------- MODULE MCHeartbeatService -------------------------
EXTENDS HeartbeatService, TLC
CONSTANTS w1, w2, w3, c1, c2, c3
Symmetry == Permutations(Worker) \cup Permutations(Caller)
=============================================================================
