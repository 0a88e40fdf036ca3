SPECIFICATION FairSpec
CONSTANTS
  Payments = {p1}
  Checkouts = {c1}
  Workers = {w1}
  None = None
  MaxMints = 1
  MaxFaults = 1
CHECK_DEADLOCK FALSE
PROPERTY MoneyIsAnswered
