SPECIFICATION LiveSpec
CONSTANTS
  Procs = {p1, p2}
  MaxTask = 1
  MaxCall = 2
  MaxSlots = 1
  Lease = 1
  MaxAge = 2
  BeatGap = 2
  Modes = {"enforce", "shadow"}
  Reserves = {2}
  Bounds = {2}
  Costs = {1, 3}
  MaxTime = 3
  MaxFaults = 1
  None = None
CHECK_DEADLOCK FALSE
INVARIANT TypeOK
INVARIANT MoneyAddsUp
INVARIANT SentIsPaidFor
PROPERTY SettledIsFinal
PROPERTY RenewedTaskIsLeftAlone
PROPERTY AbandonedTaskIsSettled
