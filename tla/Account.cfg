SPECIFICATION Spec
CONSTANTS
  u1 = u1
  u2 = u2
  Units = {u1, u2}
  Annual = {u2}
  Covers = {u2}
  MaxLot = 2
  MaxTask = 2
  MaxClaw = 2
  MaxSlots = 2
  MinStart = 1
  MaxReserve = 2
  Grants = {2}
  Reversals = {2}
  Downgrades = {2}
  Shortfalls = {1}
  MaxMoves = 4
  MaxTime = 1
  None = None
CHECK_DEADLOCK FALSE
INVARIANT TypeOK
INVARIANT HoldsAreBacked
INVARIANT BooksBalance
INVARIANT NothingOwedIdly
INVARIANT ReversalsKeepToTheirPayment
PROPERTY DebtIsTheLastResort
