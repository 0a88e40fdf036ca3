SPECIFICATION FairSpec
CONSTANTS
  Endpoints = {a, b}
  Events = {x}
  Processes = {p}
  MaxAttempts = 2
  Threshold = 1
  Concurrency = 1
  Cap = 1
  MaxEndpoints = 2
  MaxFaults = 1
  MaxOps = 1
CHECK_DEADLOCK FALSE
PROPERTY OwedIsSettled
