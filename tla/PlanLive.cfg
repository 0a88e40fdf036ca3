SPECIFICATION FairSpec
CONSTANTS
  Subs = {s1}
  Orders = {o1, o2}
  Workers = {w1}
  Plans = {1}
  Grace = 1
  Term = 1
  Dunning = TRUE
  MaxTime = 1
  MaxEvents = 2
  MaxFaults = 1
  None = None
CHECK_DEADLOCK FALSE
INVARIANT OnePaymentOneTerm
INVARIANT PlanIsEarned
PROPERTY PlanSettles
