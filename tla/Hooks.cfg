SPECIFICATION Spec
CONSTANTS
  Endpoints = {a}
  Events = {x, y}
  Processes = {p, q}
  MaxAttempts = 2
  Threshold = 1
  Concurrency = 1
  Cap = 1
  MaxEndpoints = 1
  MaxFaults = 1
  MaxOps = 1
SYMMETRY Symmetry
CHECK_DEADLOCK FALSE
INVARIANT LimitsHold
INVARIANT FailingEndpointIsDisabled
PROPERTY ClaimedRowIsLeftAlone
PROPERTY RecordsSpendOnce
PROPERTY DeliversAsPromised
