SPECIFICATION Spec
CONSTANTS
  Payments = {p1, p2}
  Checkouts = {c1, c2}
  Workers = {w1}
  MaxMints = 2
  MaxFaults = 1
  None = None
SYMMETRY Symmetry
CHECK_DEADLOCK FALSE
INVARIANT MoneyIsMet
INVARIANT OnlyBoundAddressShown
PROPERTY TerminalIsFinal
