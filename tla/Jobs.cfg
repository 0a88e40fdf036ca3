SPECIFICATION LiveSpec
CONSTANTS
  Rows = {r1}
  Workers = {w1, w2}
  ChainKeys = {}
  PlainKeys = {plain}
  OrphanKeys = {orphan}
  PruneKey = None
  StaleLock = 1
  BackoffBase = 1
  Interval = 3
  Retention = 1
  MaxAttempts = 2
  BatchSize = 1
  Delays = {0, 1}
  MaxTime = 5
  MaxFaults = 1
  Quiescence = 3
  None = None
CHECK_DEADLOCK FALSE
INVARIANT TypeOK
INVARIANT OutcomeEarned
PROPERTY FinishedIsFinal
PROPERTY LockedRowIsLeftAlone
PROPERTY DueRowIsWorked
