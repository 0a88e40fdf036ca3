---------------------------- MODULE MCPlanTier ----------------------------
EXTENDS PlanTier, TLC

Symmetry == Permutations(Workers) \cup Permutations(Orders) \cup Permutations(Subs)
=============================================================================
