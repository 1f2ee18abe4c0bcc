----------------------------- MODULE MCEvidence -----------------------------
EXTENDS EvidenceRecorders, TLC
CONSTANTS p1, p2
Symmetry == Permutations(Proc)
MCStarted == {[kind |-> "trace", what |-> "record"], [kind |-> "handoff", what |-> "fresh"],
              [kind |-> "mcp", what |-> "record"], [kind |-> "mcp", what |-> "replace"],
              [kind |-> "mcp", what |-> "fresh"]}
=============================================================================
