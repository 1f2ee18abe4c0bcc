---------------------------- MODULE MCCronService ----------------------------
EXTENDS CronService, TLC
CONSTANTS every, once, t1, t2, t3, t4, c1, c2
Symmetry == Permutations(Timer) \cup Permutations(Caller)
==============================================================================
