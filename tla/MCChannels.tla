----------------------------- MODULE MCChannels -----------------------------
EXTENDS Channels, TLC
CONSTANTS c1, c2
Symmetry == Permutations(Caller)
=============================================================================
