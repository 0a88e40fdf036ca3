SPECIFICATION Spec
CONSTANTS
  Subs = {s1, s2}
  Orders = {}
  Workers = {w1, w2}
  Plans = {1, 2}
  Grace = 1
  Term = 2
  Dunning = FALSE
  MaxTime = 2
  MaxEvents = 3
  MaxFaults = 0
  None = None
SYMMETRY Symmetry
CHECK_DEADLOCK FALSE
INVARIANT PlanIsEarned
INVARIANT MirrorConverges
INVARIANT NoSilentDoubleBilling
