SPECIFICATION Spec
CONSTANTS
  Rows = {r1, r2, r3}
  Workers = {w1, w2}
  ChainKeys = {sweep}
  PlainKeys = {}
  OrphanKeys = {}
  PruneKey = sweep
  None = None
  StaleLock = 1
  BackoffBase = 1
  Interval = 3
  Retention = 1
  MaxAttempts = 2
  BatchSize = 1
  Delays = {0, 1}
  MaxTime = 7
  MaxFaults = 1
  Quiescence = 3
SYMMETRY Symmetry
INVARIANTS
  ChainIsSound
CHECK_DEADLOCK FALSE
