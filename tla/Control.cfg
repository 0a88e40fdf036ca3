SPECIFICATION Spec
CONSTANTS
  Takeovers = {a, b}
  Flips = {f, g}
  Turns = {s, t}
  MaxRequests = 4
  MaxActs = 2
  MaxFaults = 1
  None = None
SYMMETRY Symmetry
CHECK_DEADLOCK FALSE
INVARIANT TurnsAreFenced
INVARIANT ParkedIsTracked
PROPERTY StopIsHeard
