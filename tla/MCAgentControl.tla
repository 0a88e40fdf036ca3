--------------------------- MODULE MCAgentControl ---------------------------
EXTENDS AgentControl, TLC

Symmetry == Permutations(Takeovers) \cup Permutations(Flips) \cup Permutations(Turns)
=============================================================================
