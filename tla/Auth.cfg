SPECIFICATION FairSpec
CONSTANTS
  Requests = {r1, r2}
  Processes = {p, q}
  MaxChanges = 1
  MaxFaults = 1
  None = None
CHECK_DEADLOCK FALSE
INVARIANT AnswersAreEarned
INVARIANT CurrentEntryIsTrue
PROPERTY EveryRequestIsAnswered
